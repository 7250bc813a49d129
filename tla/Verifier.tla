------------------------------ MODULE Verifier ------------------------------
(***************************************************************************)
(* The verifier: do these ledger lines explain this credit to the paisa?   *)
(* (solver/fastpath.py, verify.py).  What the rates make of the payments   *)
(* is derived again from the rate table, never read from a line.           *)
(*                                                                         *)
(* A ledger item is known by its place in items, an instrument by its      *)
(* place in book.fees; a line that names a place beyond items names an id  *)
(* the ledger does not have.                                               *)
(***************************************************************************)
EXTENDS Money, FiniteSets

None == 0   \* no instrument, no order, no parent

RateDerived == {"FEE", "TAX_GST", "TAX_WITHHOLDING", "RESERVE_HOLD"}

\* _rate_total: what is due on the gross amount of each instrument.
RatesDue(gross, book) ==
    LET fee == [n \in DOMAIN gross |-> - ApplyBps(gross[n], book.fees[n])]
        gst == [n \in DOMAIN gross |-> ApplyBps(fee[n], book.gst)]
        all == Sum(gross, DOMAIN gross)
        base == IF book.onGross THEN all ELSE - Sum(fee, DOMAIN fee)
        withheld == IF all > 0 THEN - ApplyBps(base, book.withholding) ELSE 0
        held == IF all > 0 THEN - ApplyBps(all, book.reserve) ELSE 0
    IN  [fee |-> fee, gst |-> gst, withheld |-> withheld, held |-> held,
         total |-> Sum(fee, DOMAIN fee) + Sum(gst, DOMAIN gst) + withheld + held]

\* What a declared rate line should have said.
Recomputed(line, due) ==
    CASE line.kind = "FEE" /\ line.instrument # None -> due.fee[line.instrument]
      [] line.kind = "TAX_GST" /\ line.instrument # None -> due.gst[line.instrument]
      [] line.kind = "TAX_WITHHOLDING" -> due.withheld
      [] line.kind = "RESERVE_HOLD" -> due.held
      [] OTHER -> 0

\* The instrument on which a line is a payment, if it is one.
PaidOn(line, item, declaredOps) ==
    LET declared == declaredOps /\ line.kind = "PAYMENT"
    IN  IF declared /\ line.instrument # None THEN line.instrument
        ELSE IF declared \/ item.kind = "PAYMENT" THEN item.instrument ELSE None

\* Mutant of VerifyOne: what a rate line says is not compared with what is due.
VerifyOneLenient(paise, lines, L, items, book, declaredOps, missingOk) ==
    LET known == {l \in L : lines[l].item \in DOMAIN items}
        ops == {l \in known : lines[l].kind \notin RateDerived}
        amount == [l \in DOMAIN lines |->
                      IF l \notin ops THEN 0
                      ELSE IF declaredOps THEN lines[l].paise
                           ELSE items[lines[l].item].paise]
        on(n) == {l \in ops : PaidOn(lines[l], items[lines[l].item], declaredOps) = n}
        due == RatesDue([n \in DOMAIN book.fees |-> Sum(amount, on(n))], book)
        missing == L \ known
        residual == paise - (Sum(amount, ops) + due.total)
    IN  [ok |-> residual = 0 /\ missing = {}, residual |-> residual,
         deltas |-> [l \in DOMAIN lines |-> 0], missing |-> missing]

\* _verify_one over the lines L: their operational amounts, from the ledger or as
\* declared, and the rates due on the payments among them.  deltas[l] is what rate line l
\* says beyond what is due.
VerifyOne(paise, lines, L, items, book, declaredOps, missingOk) ==
    LET known == {l \in L : lines[l].item \in DOMAIN items}
        rated == {l \in known : lines[l].kind \in RateDerived}
        ops == known \ rated
        amount == [l \in DOMAIN lines |->
                      IF l \notin ops THEN 0
                      ELSE IF declaredOps THEN lines[l].paise
                           ELSE items[lines[l].item].paise]
        on(n) == {l \in ops : PaidOn(lines[l], items[lines[l].item], declaredOps) = n}
        due == RatesDue([n \in DOMAIN book.fees |-> Sum(amount, on(n))], book)
        deltas == [l \in DOMAIN lines |->
                      IF l \in rated THEN lines[l].paise - Recomputed(lines[l], due) ELSE 0]
        missing == L \ known
        blocking == {l \in missing : missingOk => lines[l].kind \notin RateDerived}
        residual == paise - (Sum(amount, ops) + due.total)
    IN  [ok |-> residual = 0 /\ blocking = {} /\ \A l \in L : deltas[l] = 0,
         residual |-> residual, deltas |-> deltas, missing |-> missing]

\* The declared amounts count only where the ledger's do not add up and they do.
Preferred(ledger, settled, opsOk) == IF ~ ledger.ok /\ opsOk /\ settled.ok THEN settled ELSE ledger

\* verify_declared: the ledger's amounts, then the declared ones.
VerifyDeclared(paise, lines, L, items, book, opsOk, missingOk) ==
    Preferred(VerifyOne(paise, lines, L, items, book, FALSE, missingOk),
              VerifyOne(paise, lines, L, items, book, TRUE, missingOk), opsOk)

\* The ledger's own lines.
LinesOf(items) ==
    [i \in DOMAIN items |-> [item |-> i, kind |-> items[i].kind, paise |-> items[i].paise,
                             instrument |-> items[i].instrument]]

Accepted(fast, M) == fast.residual = 0 /\ fast.missing = {} /\ \A i \in M : fast.deltas[i] = 0

\* verify_decomposition: the fast path over the lines of the items M.
VerifyDecomposition(paise, M, items, book) ==
    LET outcome(fast) == [accepted |-> Accepted(fast, M), residual |-> fast.residual]
    IN  IF M = {} THEN [accepted |-> FALSE, residual |-> paise]
        ELSE outcome(VerifyDeclared(paise, LinesOf(items), M, items, book, TRUE, TRUE))

=============================================================================
