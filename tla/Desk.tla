-------------------------------- MODULE Desk --------------------------------
(***************************************************************************)
(* The review desk of one organisation while its runs are recorded:        *)
(* console/app.py and console/extra.py over the tables of RunLedger.       *)
(*                                                                         *)
(* A page reads its tables one statement at a time, and the engine writes  *)
(* in another process between them.  The batch page reads the audit        *)
(* entries it believes, counts the exceptions and then lists them, the     *)
(* queue page reads them the other way round, the close pack counts the    *)
(* entries, the journal posts the overlay's credits or the stored ones.  A *)
(* reviewer resolves a credit: the desk looks it up in the queue, and      *)
(* writes the decision on another connection.  Amounts, labels and what a  *)
(* page only displays (the chain's badge, the counts by class) are left    *)
(* out.                                                                    *)
(***************************************************************************)
EXTENDS RunLedger

CONSTANTS
    Reviewers,      \* the people who review
    Proven,         \* [Datasets -> SUBSET Credits]: Gate A, the declared identity holds
    Journalable     \* ... and the items posted for it sum to the credit

Datasets == {"files", "sql"}

ASSUME DeskConstants ==
    /\ Proven \in [Datasets -> SUBSET Credits] /\ Journalable \in [Datasets -> SUBSET Credits]
    /\ \A d \in Datasets : Journalable[d] \subseteq Proven[d]

VARIABLES
    dataset,        \* where the organisation's records are
    ingested,       \* the source tables are filled
    split,          \* _SPLIT_CACHE: what _load_split returned the first time
    page,           \* the page the desk assembles
    checked,        \* a reviewer and the credit _known_exception let through
    resolution      \* exception_resolution: who decided each credit

desk == << dataset, ingested, split, page, checked, resolution >>
deskVars == << vars, desk >>

Nobody == "nobody"
Pages ==
    [kind : {"none", "batch", "queue", "close"}, at : {"counting", "rows", "audits", "done"},
     audits : SUBSET Payloads, counted : SUBSET Credits, rows : SUBSET Credits]
Blank == [kind |-> "none", at |-> "done", audits |-> {}, counted |-> {}, rows |-> {}]

DeskTypeOK ==
    /\ TypeOK
    /\ dataset \in Datasets /\ ingested \in BOOLEAN
    /\ split \in {"unread", "none", "read"}
    /\ page \in Pages
    /\ checked \subseteq [by : Reviewers, credit : Credits]
    /\ resolution \in [Credits -> Reviewers \cup {Nobody}]

DeskInit ==
    /\ Init
    /\ dataset \in Datasets /\ ingested \in {FALSE, dataset = "files"}
    /\ split = "unread"
    /\ page = Blank
    /\ checked = {}
    /\ resolution = [c \in Credits |-> Nobody]

-----------------------------------------------------------------------------
(* _ledger_is_untouched, and _db, which returns None for it when the        *)
(* records are files.                                                      *)
Untouched == audit = {} /\ exceptions = {}
Connected == ~(dataset = "files" /\ Untouched)

(* _entry_payloads leaves out the entries of runs whose row says they have *)
(* not finished or failed; a run without a row is believed.                *)
Unfinished == {r \in Runs : runs[r].status \in {"RUNNING", "FAILED"}}
Believable == {e \in audit : e.run \notin Unfinished}

(* _audits_from_payloads: the last entry of a credit stands.               *)
Audits ==
    {e.payload : e \in {d \in Believable : \A b \in Believable :
        b.payload.credit = d.payload.credit => b.seq <= d.seq}}

(* _load_split: files are there, source tables may be empty.  Its answer,  *)
(* None included, is kept for as long as the process runs.                 *)
Loaded == IF dataset = "files" \/ ingested THEN "read" ELSE "none"
SplitNow == IF split = "unread" THEN Loaded ELSE split

-----------------------------------------------------------------------------
(* Each page ends by reading the split, for its amounts and its header.    *)
Shown(p) == page' = p /\ split' = IF p.at = "done" THEN SplitNow ELSE split
Rest == UNCHANGED << dataset, ingested, checked, resolution >>

(* batch: without a connection, the credits of the corpus.                 *)
OpenBatch ==
    /\ page.at = "done"
    /\ Shown([Blank EXCEPT !.kind = "batch",
                           !.at = IF Connected THEN "counting" ELSE "done",
                           !.audits = IF Connected THEN Audits ELSE {},
                           !.rows = IF Connected THEN {} ELSE Credits])
    /\ Rest

(* n_flagged: the exceptions are counted by a statement of their own.      *)
CountRows ==
    /\ page.at = "counting"
    /\ Shown([page EXCEPT !.counted = exceptions, !.at = "rows"])
    /\ Rest

(* Mutant: a credit the cached split does not know is left out.            *)
ListRowsPriced ==
    /\ page.at = "rows"
    /\ Shown([page EXCEPT !.rows = IF SplitNow = "read" THEN exceptions ELSE {},
                          !.at = IF page.kind = "batch" THEN "done" ELSE "audits"])
    /\ Rest

ListRows ==
    /\ page.at = "rows"
    /\ Shown([page EXCEPT !.rows = exceptions,
                          !.at = IF page.kind = "batch" THEN "done" ELSE "audits"])
    /\ Rest

ReadAudits ==
    /\ page.at = "audits"
    /\ Shown([page EXCEPT !.audits = Audits, !.at = "done"])
    /\ Rest

(* exceptions: without a connection the queue is empty.                    *)
OpenQueue ==
    /\ page.at = "done"
    /\ Shown([Blank EXCEPT !.kind = "queue", !.at = IF Connected THEN "rows" ELSE "done"])
    /\ Rest

(* _assemble_close and the certificate: the split first, so its answer is  *)
(* cached before a row is read.                                            *)
OpenClose ==
    /\ page.at = "done"
    /\ page' = [Blank EXCEPT !.kind = "close",
                             !.at = IF Connected /\ SplitNow = "read" THEN "audits" ELSE "done"]
    /\ split' = SplitNow
    /\ Rest

-----------------------------------------------------------------------------
(* _enrich: the declared identity outranks the search.                     *)
Says(p, c, v) == \E d \in p.audits : d.credit = c /\ d.verdict.disposition = v
Gate(p, c) ==
    IF split = "read" /\ c \in Proven[dataset] THEN "GATE_A"
    ELSE IF Says(p, c, "CLEARED") THEN "GATE_B" ELSE "REFUSED"

HumanRows == {c \in page.rows : Gate(page, c) = "REFUSED"}

(* What a finished page gives out as cleared: the certificate's            *)
(* n_auto_cleared, and the rows the queue leaves out of both its lists.    *)
AutoCleared == {c \in Credits : Says(page, c, "CLEARED")}

(* _cleared_members, and what each view of the journal posts: gate=search  *)
(* the stored decompositions, the default view, the CSV, the Tally export  *)
(* and the close pack those only if the overlay can journal no credit.     *)
(* build_journal refuses the whole journal if the items of one credit do   *)
(* not sum to it.                                                          *)
ClearedMembers == {c \in cleared : Connected /\ members[c] # {}}
Overlaid(view) == view = "ops" /\ Journalable[dataset] # {}
Refused(view) == ~Overlaid(view) /\ \E c \in ClearedMembers : ~Explains(c, members[c])
Posted(view) ==
    IF SplitNow # "read" \/ Refused(view) THEN {}
    ELSE IF Overlaid(view) THEN Journalable[dataset] ELSE ClearedMembers

(* _known_exception.                                                       *)
Known(c) == Connected /\ c \in exceptions

(* resolve_exception and save_exception_work: the lookup, and the write.   *)
(* The last decision on a credit replaces the one before.                  *)
Know(v, c) ==
    /\ Known(c)
    /\ ~\E k \in checked : k.by = v
    /\ checked' = checked \cup {[by |-> v, credit |-> c]}
    /\ UNCHANGED << dataset, ingested, split, page, resolution >>

Record(k) ==
    /\ k \in checked
    /\ resolution' = [resolution EXCEPT ![k.credit] = k.by]
    /\ checked' = checked \ {k}
    /\ UNCHANGED << dataset, ingested, split, page >>

-----------------------------------------------------------------------------
(* scripts/migrate_corpus fills the source tables in another process.      *)
Ingest ==
    /\ dataset = "sql" /\ ~ingested
    /\ ingested' = TRUE
    /\ UNCHANGED << dataset, split, page, checked, resolution >>

(* The desk is deployed again: its caches are empty, its requests gone.    *)
Restart ==
    /\ split # "unread"
    /\ split' = "unread"
    /\ page' = Blank
    /\ checked' = {}
    /\ UNCHANGED << dataset, ingested, resolution >>

DeskStep ==
    \/ OpenBatch \/ OpenQueue \/ OpenClose
    \/ CountRows \/ ListRows \/ ReadAudits
    \/ \E v \in Reviewers, c \in Credits : Know(v, c)
    \/ \E k \in checked : Record(k)
    \/ Ingest \/ Restart

DeskNext == (Next /\ UNCHANGED desk) \/ (DeskStep /\ UNCHANGED vars)
DeskSpec == DeskInit /\ [][DeskNext]_deskVars

-----------------------------------------------------------------------------
(* The landing page loses no decision: a credit whose entry it believes    *)
(* and whose decision was to flag it is among the exceptions its headline  *)
(* counts, and what it counts has a row on the same page, although the     *)
(* three are read by different statements while a run writes.  It rests on *)
(* the exception being committed before the entry and read after it        *)
(* (console/app.py:512-530, orchestrator.py:465).  The FLAGGED entry of a  *)
(* raised gate has no exception row, and the page does not count or list   *)
(* it.                                                                     *)
FlaggedIsListed ==
    page.kind = "batch" /\ page.at = "done" =>
        /\ \A c \in Credits : [credit |-> c, verdict |-> Flagged] \in page.audits => c \in page.counted
        /\ page.counted \subseteq page.rows

(* What a page gives out as auto-cleared is stored, and as long as an      *)
(* entry says so with one of the credit's explanations, whole: the pages   *)
(* believe entries of finished runs, the journal reads every stored        *)
(* decomposition, one an interrupted write truncated included              *)
(* (console/extra.py:102, journal.py:130).  So every view of the journal   *)
(* posts the credit, except that a view refuses to post anything while     *)
(* another credit is stored in part, and that the default view posts the   *)
(* overlay's credits only, whatever the search cleared, once it has any.   *)
(* Once the run was discarded a retry may be interrupted: the page is then *)
(* older than what is posted.                                              *)
Logged(c) == \E e \in audit : e.payload = [credit |-> c, verdict |-> Cleared]
AutoClearedIsPosted ==
    \A c \in AutoCleared :
        /\ c \in cleared
        /\ Logged(c) => Explains(c, members[c])
        /\ Logged(c) /\ SplitNow = "read" => \A view \in {"ops", "search"} :
              c \in Posted(view) \/ Refused(view) \/ Overlaid(view)

(* A row the queue offers for review is accepted when the reviewer comes   *)
(* back to it, however long the page was open and whatever runs failed and *)
(* were discarded meanwhile (console/app.py:1015).                         *)
OfferedIsAccepted ==
    page.kind = "queue" => \A c \in HumanRows : Known(c)

-----------------------------------------------------------------------------
(* The inductive invariant behind them: what a page has read of a table    *)
(* that only grows is still there, and a flagged credit of the landing     *)
(* page has an exception row when the page comes to read them.             *)
PageInv ==
    /\ page.kind = "batch" =>
          /\ page.at # "audits"
          /\ \A c \in Credits : [credit |-> c, verdict |-> Flagged] \in page.audits =>
                c \in IF page.at = "counting" THEN exceptions ELSE page.counted
          /\ page.counted \subseteq IF page.at = "done" THEN page.rows ELSE exceptions
    /\ page.kind = "queue" => page.rows \subseteq exceptions
    /\ AutoCleared \subseteq cleared

DeskInv == DeskTypeOK /\ LedgerInv /\ PageInv
=============================================================================
