--------------------------- MODULE RequestsProofs ---------------------------
(***************************************************************************)
(* Isolation of organisations behind the pooler, for any number of         *)
(* requests, organisations and server connections.                         *)
(*                                                                         *)
(* OwnSchema is not inductive: whether a statement runs in the right       *)
(* schema depends on what _path_scoped says of the server connection.      *)
(* Pooled says it: a scoped connection's server has its settings, one      *)
(* that is not scoped or not in use has its own, and no two connections    *)
(* share one.  OwnRecords needs as much of the cache as it needs of the    *)
(* requests, and that a load has run a statement.                          *)
(***************************************************************************)
EXTENDS Requests, TLAPS

Own(c) == [path |-> c.schema, readonly |-> c.readonly]

(* A connection agrees with its request and with the server.               *)
Belongs(h) == conn[h].state # "closed" =>
    h[1] \in serving /\ conn[h].schema = tenant[h[1]].org
Wired(h) == Working(h) =>
    /\ conn[h].backend \in Backends
    /\ server[conn[h].backend] = IF conn[h].scoped THEN Own(conn[h]) ELSE Default
Ran(h) ==
    /\ conn[h].scoped => Working(h)
    /\ conn[h].ran # Unset => conn[h].ran = Own(conn[h]) /\ Working(h)
    /\ h[2] # "write" /\ Working(h) => conn[h].ran = Own(conn[h])

Good(h) == Belongs(h) /\ Wired(h) /\ Ran(h)

Apart == \A g, h \in Handles : g # h /\ Working(g) /\ Working(h) => conn[g].backend # conn[h].backend
Spare == \A b \in Backends : Free(b) => server[b] = Default

Pooled == (\A h \in Handles : Good(h)) /\ Apart /\ Spare

(* What is cached under a key is the key's, and so is what was given.      *)
Cached ==
    /\ \A t \in Tenants : split[t] \in {Unset} \cup OwnSource(t)
    /\ \A r \in serving : tenant[r] \in Tenants /\ shown[r] \subseteq OwnSource(tenant[r])
    /\ \A r \in Requests : Loading(r) => tenant[r].dataset = Sql

RequestInv == TypeOK /\ Pooled /\ Cached

-----------------------------------------------------------------------------
LEMMA Parts ==
    ASSUME NEW r \in Requests, NEW u \in Uses
    PROVE  << r, u >> \in Handles /\ << r, u >>[1] = r /\ << r, u >>[2] = u
BY DEF Handles

LEMMA ClosedIsClosed ==
    /\ Closed \in Connections /\ Closed.state = "closed" /\ ~Closed.scoped /\ Closed.ran = Unset
    /\ Default \in Settings
BY DEF Closed, Connections, Default, Settings

LEMMA ClosedGood ==
    ASSUME NEW h \in Handles, conn'[h] = Closed
    PROVE  Good(h)' /\ ~Working(h)'
BY ClosedIsClosed DEF Good, Belongs, Wired, Ran, Working

LEMMA InitInv == Init => RequestInv
<1> SUFFICES ASSUME Init PROVE RequestInv
  OBVIOUS
<1>1. TypeOK
  BY ClosedIsClosed DEF Init, TypeOK
<1>2. \A h \in Handles : conn[h] = Closed
  BY DEF Init
<1>3. \A h \in Handles : Good(h) /\ ~Working(h)
  BY <1>2, ClosedIsClosed DEF Good, Belongs, Wired, Ran, Working
<1>4. Pooled
  BY <1>3 DEF Pooled, Apart, Spare, Init
<1>5. \A r \in Requests : ~Loading(r)
  <2> TAKE r \in Requests
  <2>1. << r, "source" >> \in Handles
    BY Parts DEF Uses
  <2> QED BY <1>2, <2>1, ClosedIsClosed DEF Loading
<1>6. Cached
  BY <1>5 DEF Init, Cached
<1> QED BY <1>1, <1>4, <1>6 DEF RequestInv

-----------------------------------------------------------------------------
(***************************************************************************)
(* How a step may use the pool.                                            *)
(***************************************************************************)

(* Connections end their transactions.  They are good again if they are    *)
(* closed, or between transactions.                                        *)
LEMMA Releases ==
    ASSUME TypeOK, Pooled, NEW hs \in SUBSET Handles, conn' \in [Handles -> Connections],
           \A g \in Handles \ hs : conn'[g] = conn[g],
           \A g \in hs : ~Working(g)',
           Released(hs)
    PROVE  /\ server' \in [Backends -> Settings]
           /\ Apart' /\ Spare'
           /\ \A g \in Handles \ hs : Wired(g)'
<1>1. server' \in [Backends -> Settings]
  BY ClosedIsClosed DEF Released, TypeOK
<1>2. Apart'
  BY DEF Apart, Pooled, Working
<1>3. ASSUME NEW b \in Backends, Free(b)' PROVE server'[b] = Default
  <2>1. CASE \E h \in hs : Working(h) /\ conn[h].backend = b
    BY <2>1 DEF Released
  <2>2. CASE ~ \E h \in hs : Working(h) /\ conn[h].backend = b
    <3>1. Free(b)
      BY <1>3, <2>2 DEF Free, Working
    <3> QED BY <2>2, <3>1 DEF Released, Pooled, Spare
  <2> QED BY <2>1, <2>2
<1>4. ASSUME NEW g \in Handles \ hs PROVE Wired(g)'
  <2> SUFFICES ASSUME Working(g)' PROVE
          /\ conn[g].backend \in Backends
          /\ server'[conn[g].backend] = IF conn[g].scoped THEN Own(conn[g]) ELSE Default
    BY DEF Wired, Own
  <2>1. Working(g) /\ Wired(g)
    BY DEF Working, Pooled, Good
  <2>2. \A h \in hs : Working(h) => conn[h].backend # conn[g].backend
    BY <2>1 DEF Pooled, Apart
  <2> QED BY <2>1, <2>2 DEF Wired, Released
<1> QED BY <1>1, <1>2, <1>3, <1>4 DEF Spare

(* A connection works on a server connection that was its own or free.     *)
LEMMA Takes ==
    ASSUME TypeOK, Pooled, NEW h \in Handles, NEW b \in Backends, NEW setting \in Settings,
           conn' \in [Handles -> Connections],
           \A g \in Handles \ {h} : conn'[g] = conn[g],
           Working(h)', conn'[h].backend = b,
           IF Working(h) THEN conn[h].backend = b ELSE Free(b),
           server' = [server EXCEPT ![b] = setting],
           setting = IF conn'[h].scoped THEN Own(conn'[h]) ELSE Default
    PROVE  /\ server' \in [Backends -> Settings]
           /\ Apart' /\ Spare'
           /\ \A g \in Handles : Wired(g)'
<1>1. server' \in [Backends -> Settings]
  BY DEF TypeOK
<1>2. \A g \in Handles \ {h} : Working(g) => conn[g].backend # b
  BY DEF Pooled, Apart, Free
<1>3. Apart'
  BY <1>2 DEF Apart, Pooled, Working
<1>4. ASSUME NEW c \in Backends, Free(c)' PROVE server'[c] = Default
  <2>1. c # b
    BY <1>4 DEF Free
  <2>2. Free(c)
    BY <1>4, <2>1 DEF Free, Working
  <2> QED BY <2>1, <2>2 DEF Pooled, Spare, TypeOK
<1>5. ASSUME NEW g \in Handles \ {h} PROVE Wired(g)'
  <2> SUFFICES ASSUME Working(g)' PROVE
          /\ conn[g].backend \in Backends
          /\ server'[conn[g].backend] = IF conn[g].scoped THEN Own(conn[g]) ELSE Default
    BY DEF Wired, Own
  <2>1. Working(g) /\ Wired(g)
    BY DEF Working, Pooled, Good
  <2> QED BY <1>2, <2>1 DEF Wired, TypeOK
<1>6. Wired(h)'
  BY DEF Wired, TypeOK
<1> QED BY <1>1, <1>3, <1>4, <1>5, <1>6 DEF Spare
(* What a connection says of itself stays as long as it does.              *)
LEMMA Stays ==
    ASSUME NEW g \in Handles, Good(g), conn'[g] = conn[g], g[1] \in serving => g[1] \in serving',
           tenant'[g[1]] = tenant[g[1]]
    PROVE  Belongs(g)' /\ Ran(g)'
BY DEF Good, Belongs, Ran, Working, Own

(* Only connections change, and no load begins.                            *)
LEMMA SameCached ==
    ASSUME Cached, UNCHANGED << serving, tenant, split, shown >>,
           \A r \in Requests : Loading(r)' => Loading(r) \/ tenant[r].dataset = Sql
    PROVE  Cached'
BY DEF Cached, OwnSource

-----------------------------------------------------------------------------
LEMMA OpensInv ==
    ASSUME RequestInv, NEW h \in Handles, NEW readonly \in BOOLEAN, Opens(h, readonly),
           UNCHANGED << serving, tenant, server >>
    PROVE  /\ conn' \in [Handles -> Connections] /\ Pooled'
           /\ \A g \in Handles \ {h} : conn'[g] = conn[g]
<1> USE DEF RequestInv
<1>1. h[1] \in serving /\ h[1] \in Requests /\ tenant[h[1]] \in Tenants
  BY DEF Opens, MayUse, Cached, TypeOK
<1>2. tenant[h[1]].org \in Orgs
  BY <1>1 DEF Tenants
<1> DEFINE d == Fresh(tenant[h[1]].org, readonly)
<1>3. /\ d \in Connections /\ d.state = "between" /\ ~d.scoped /\ d.ran = Unset
      /\ d.schema = tenant[h[1]].org
  BY <1>2 DEF Fresh, Closed, Connections
<1>4. conn' = [conn EXCEPT ![h] = d] /\ conn[h].state = "closed"
  BY DEF Opens
<1> HIDE DEF d
<1>5. conn' \in [Handles -> Connections] /\ conn'[h] = d /\ \A g \in Handles \ {h} : conn'[g] = conn[g]
  BY <1>3, <1>4 DEF TypeOK
<1>6. ~Working(h) /\ ~Working(h)'
  BY <1>3, <1>4, <1>5 DEF Working
<1>7. Released({h})
  BY <1>6 DEF Released, TypeOK
<1>8. Apart' /\ Spare' /\ \A g \in Handles \ {h} : Wired(g)'
  BY <1>5, <1>6, <1>7, Releases
<1>9. Good(h)'
  BY <1>1, <1>3, <1>5, <1>6 DEF Good, Belongs, Wired, Ran
<1>10. ASSUME NEW g \in Handles \ {h} PROVE Good(g)'
  BY <1>5, <1>8, Stays DEF Good, Pooled
<1> QED BY <1>5, <1>8, <1>9, <1>10 DEF Pooled

LEMMA OpenInv ==
    ASSUME RequestInv, NEW r \in Requests, OpenPage(r) \/ OpenWrite(r)
    PROVE  RequestInv'
<1> USE DEF RequestInv
<1>1. PICK u \in {"page", "write"} : \E readonly \in BOOLEAN : Opens(<< r, u >>, readonly)
  BY DEF OpenPage, OpenWrite
<1>2. << r, u >> \in Handles /\ << r, u >> # << r, "source" >> /\ << r, "source" >> \in Handles
  BY Parts DEF Uses
<1>3. UNCHANGED << organization, serving, tenant, server, split, shown >>
  BY DEF OpenPage, OpenWrite
<1>4. /\ conn' \in [Handles -> Connections] /\ Pooled'
      /\ \A g \in Handles \ {<< r, u >>} : conn'[g] = conn[g]
  BY <1>1, <1>2, <1>3, OpensInv
<1>5. ASSUME NEW q \in Requests, Loading(q)' PROVE Loading(q)
  <2>1. << q, "source" >> \in Handles \ {<< r, u >>}
    BY <1>1, Parts DEF Uses
  <2> QED BY <1>4, <1>5, <2>1 DEF Loading
<1> QED BY <1>3, <1>4, <1>5, SameCached DEF TypeOK

LEMMA BeginLoadInv ==
    ASSUME RequestInv, NEW r \in Requests, BeginLoad(r)
    PROVE  RequestInv'
<1> USE DEF RequestInv
<1>1. UNCHANGED << organization, serving, tenant, server, split, shown >>
  BY DEF BeginLoad
<1>2. << r, "source" >> \in Handles
  BY Parts DEF Uses
<1>3. /\ conn' \in [Handles -> Connections] /\ Pooled'
      /\ \A g \in Handles \ {<< r, "source" >>} : conn'[g] = conn[g]
  BY <1>1, <1>2, OpensInv DEF BeginLoad
<1>4. ASSUME NEW q \in Requests, Loading(q)' PROVE Loading(q) \/ tenant[q].dataset = Sql
  <2>1. CASE q = r
    BY <2>1 DEF BeginLoad
  <2>2. CASE q # r
    <3>1. << q, "source" >> \in Handles \ {<< r, "source" >>}
      BY <2>2, Parts DEF Uses
    <3> QED BY <1>3, <1>4, <3>1 DEF Loading
  <2> QED BY <2>1, <2>2
<1> QED BY <1>1, <1>3, <1>4, SameCached DEF TypeOK

(* A statement runs under its request's settings.                          *)
LEMMA ExecuteInv ==
    ASSUME RequestInv, NEW h \in Handles, NEW b \in Backends, NEW outcome \in {"open", "failed"},
           Execute(h, b, outcome)
    PROVE  RequestInv'
<1> USE DEF RequestInv
<1>1. UNCHANGED << organization, serving, tenant, split, shown >>
  BY DEF Execute
<1> DEFINE setting == Scope(conn[h], server[b])
           d == [conn[h] EXCEPT !.state = outcome, !.scoped = TRUE, !.backend = b, !.ran = setting]
<1>2. conn[h] \in Connections /\ server[b] \in Settings /\ Good(h)
  BY DEF TypeOK, Pooled
<1>3. IF Working(h) THEN conn[h].backend = b ELSE Free(b)
  BY DEF Execute, On, Working
<1>4. conn[h].state # "closed" /\ h[1] \in serving /\ conn[h].schema = tenant[h[1]].org
  BY <1>2 DEF Execute, Good, Belongs
<1>5. setting = Own(conn[h])
  <2>1. CASE conn[h].scoped
    BY <1>2, <1>3, <2>1 DEF Good, Ran, Wired, Scope
  <2>2. CASE ~conn[h].scoped
    <3>1. server[b] = Default
      BY <1>2, <1>3, <2>2 DEF Good, Wired, Pooled, Spare
    <3>2. conn[h].readonly \in BOOLEAN
      BY <1>2 DEF Connections
    <3> QED BY <2>2, <3>1, <3>2 DEF Scope, Default, Own
  <2> QED BY <2>1, <2>2
<1>6. setting \in Settings
  BY <1>2, <1>5 DEF Own, Settings, Connections
<1>7. /\ d \in Connections /\ d.state \in {"open", "failed"} /\ d.scoped /\ d.backend = b
      /\ d.ran = setting /\ d.schema = conn[h].schema /\ d.readonly = conn[h].readonly
  BY <1>2, <1>6 DEF Connections
<1>8. conn' = [conn EXCEPT ![h] = d] /\ server' = [server EXCEPT ![b] = setting]
  BY <1>2 DEF Execute, TypeOK, Connections
<1>9. setting = Own(d)
  BY <1>5, <1>7 DEF Own
<1> HIDE DEF d, setting
<1>10. conn' \in [Handles -> Connections] /\ conn'[h] = d /\ \A g \in Handles \ {h} : conn'[g] = conn[g]
  BY <1>7, <1>8 DEF TypeOK
<1>11. Working(h)'
  BY <1>7, <1>10 DEF Working
<1>12. /\ server' \in [Backends -> Settings]
       /\ Apart' /\ Spare'
       /\ \A g \in Handles : Wired(g)'
  <2>1. setting = IF conn'[h].scoped THEN Own(conn'[h]) ELSE Default
    BY <1>7, <1>9, <1>10
  <2> QED BY <1>3, <1>6, <1>7, <1>8, <1>10, <1>11, <2>1, Takes
<1>13. Good(h)'
  BY <1>1, <1>4, <1>7, <1>9, <1>10, <1>11, <1>12 DEF Good, Belongs, Ran, Own
<1>14. ASSUME NEW g \in Handles \ {h} PROVE Good(g)'
  BY <1>1, <1>10, <1>12, Stays DEF Good, Pooled
<1>15. ASSUME NEW q \in Requests, Loading(q)' PROVE Loading(q)
  <2>1. << q, "source" >> \in Handles
    BY Parts DEF Uses
  <2> QED BY <1>4, <1>10, <1>15, <2>1 DEF Loading
<1>16. Cached'
  BY <1>1, <1>15, SameCached
<1> QED BY <1>1, <1>10, <1>12, <1>13, <1>14, <1>16 DEF Pooled, TypeOK

LEMMA LockInv ==
    ASSUME RequestInv, NEW r \in Requests, NEW b \in Backends, LockForAppend(r, b)
    PROVE  RequestInv'
<1> USE DEF RequestInv
<1>1. UNCHANGED << organization, serving, tenant, server, split, shown >>
  BY DEF LockForAppend
<1> DEFINE h == << r, "write" >>
           d == [conn[h] EXCEPT !.state = "open", !.backend = b]
<1>2. h \in Handles /\ h[2] = "write" /\ h[1] = r
  BY Parts DEF Uses
<1>3. conn[h] \in Connections /\ server[b] \in Settings /\ Good(h)
  BY <1>2 DEF TypeOK, Pooled
<1>4. IF Working(h) THEN conn[h].backend = b ELSE Free(b)
  BY DEF LockForAppend, On, Working
<1>5. conn[h].state \in {"between", "open"} /\ h[1] \in serving /\ conn[h].schema = tenant[h[1]].org
  BY <1>2, <1>3 DEF LockForAppend, Good, Belongs
<1>6. /\ d \in Connections /\ d.state = "open" /\ d.backend = b /\ d.scoped = conn[h].scoped
      /\ d.ran = conn[h].ran /\ d.schema = conn[h].schema /\ d.readonly = conn[h].readonly
  BY <1>3 DEF Connections
<1>7. conn' = [conn EXCEPT ![h] = d]
  BY <1>2, <1>3 DEF LockForAppend, TypeOK, Connections
<1>8. Own(d) = Own(conn[h])
  BY <1>6 DEF Own
<1>9. server[b] = IF d.scoped THEN Own(d) ELSE Default
  <2>1. CASE Working(h)
    BY <1>3, <1>4, <1>6, <1>8, <2>1 DEF Good, Wired
  <2>2. CASE ~Working(h)
    BY <1>3, <1>4, <1>6, <2>2 DEF Good, Ran, Pooled, Spare
  <2> QED BY <2>1, <2>2
<1>10. server' = [server EXCEPT ![b] = server[b]]
  BY <1>1 DEF TypeOK
<1> HIDE DEF d, h
<1>11. conn' \in [Handles -> Connections] /\ conn'[h] = d /\ \A g \in Handles \ {h} : conn'[g] = conn[g]
  BY <1>2, <1>6, <1>7 DEF TypeOK
<1>12. Working(h)'
  BY <1>6, <1>11 DEF Working
<1>13. /\ server' \in [Backends -> Settings]
       /\ Apart' /\ Spare'
       /\ \A g \in Handles : Wired(g)'
  <2>1. server[b] = IF conn'[h].scoped THEN Own(conn'[h]) ELSE Default
    BY <1>9, <1>11
  <2>2. conn'[h].backend = b
    BY <1>6, <1>11
  <2> QED BY <1>2, <1>3, <1>4, <1>10, <1>11, <1>12, <2>1, <2>2, Takes
<1>14. Good(h)'
  BY <1>1, <1>2, <1>3, <1>5, <1>6, <1>8, <1>11, <1>12, <1>13 DEF Good, Belongs, Ran
<1>15. ASSUME NEW g \in Handles \ {h} PROVE Good(g)'
  BY <1>1, <1>11, <1>13, Stays DEF Good, Pooled
<1>16. ASSUME NEW q \in Requests, Loading(q)' PROVE Loading(q)
  <2>1. << q, "source" >> \in Handles
    BY Parts DEF Uses
  <2> QED BY <1>5, <1>11, <1>16, <2>1 DEF Loading
<1>17. Cached'
  BY <1>1, <1>16, SameCached
<1> QED BY <1>1, <1>11, <1>13, <1>14, <1>15, <1>17 DEF Pooled, TypeOK
(* A connection between transactions, or closed.                           *)
LEMMA EndInv ==
    ASSUME RequestInv, NEW h \in Handles, EndTransaction(h) \/ Close(h)
    PROVE  RequestInv'
<1> USE DEF RequestInv
<1>1. UNCHANGED << organization, serving, tenant, split, shown >> /\ Released({h})
  BY DEF EndTransaction, Close
<1>2. PICK d \in {Between(conn[h]), Closed} :
          conn' = [conn EXCEPT ![h] = d] /\ (d = Closed \/ conn[h].state # "closed")
  BY DEF EndTransaction, Close, Working
<1>3. conn[h] \in Connections /\ Good(h)
  BY DEF TypeOK, Pooled
<1>4. /\ d \in Connections /\ d.state \in {"between", "closed"} /\ ~d.scoped /\ d.ran = Unset
      /\ d.state # "closed" => conn[h].state # "closed" /\ d.schema = conn[h].schema
  BY <1>2, <1>3, ClosedIsClosed DEF Between, Connections
<1>5. conn' \in [Handles -> Connections] /\ conn'[h] = d /\ \A g \in Handles \ {h} : conn'[g] = conn[g]
  BY <1>2, <1>4 DEF TypeOK
<1>6. ~Working(h)'
  BY <1>4, <1>5 DEF Working
<1>7. /\ server' \in [Backends -> Settings]
      /\ Apart' /\ Spare' /\ \A g \in Handles \ {h} : Wired(g)'
  BY <1>1, <1>5, <1>6, Releases
<1>8. Good(h)'
  BY <1>1, <1>3, <1>4, <1>5, <1>6 DEF Good, Belongs, Wired, Ran
<1>9. ASSUME NEW g \in Handles \ {h} PROVE Good(g)'
  BY <1>1, <1>5, <1>7, Stays DEF Good, Pooled
<1>10. ASSUME NEW q \in Requests, Loading(q)' PROVE Loading(q)
  <2>1. << q, "source" >> \in Handles
    BY Parts DEF Uses
  <2> QED BY <1>4, <1>5, <1>10, <2>1 DEF Loading
<1>11. Cached'
  BY <1>1, <1>10, SameCached
<1> QED BY <1>1, <1>5, <1>7, <1>8, <1>9, <1>11 DEF Pooled, TypeOK

-----------------------------------------------------------------------------
(***************************************************************************)
(* The cache.                                                              *)
(***************************************************************************)

Sources == Orgs \cup Roots \cup {Unset, NoData}

LEMMA SourcesOf ==
    ASSUME NEW t \in Tenants
    PROVE  OwnSource(t) \subseteq Sources \ {Unset}
BY RequestConstants DEF OwnSource, Sources, Tenants, Datasets

(* A request's own source may be cached under its key and given to it.     *)
LEMMA GivesOwn ==
    ASSUME TypeOK, Cached, NEW r \in serving, NEW source \in OwnSource(tenant[r]),
           split' = [split EXCEPT ![CacheKey(tenant[r])] = source], Give(r, source),
           UNCHANGED << serving, tenant >>,
           \A q \in Requests : Loading(q)' => Loading(q)
    PROVE  /\ Cached' /\ split' \in [Tenants -> Sources]
           /\ shown' \in [Requests -> SUBSET Sources]
<1>1. r \in Requests /\ tenant[r] \in Tenants
  BY DEF TypeOK, Cached
<1>2. source \in Sources
  BY <1>1, SourcesOf
<1>3. split' = [split EXCEPT ![tenant[r]] = source] /\ shown' = [shown EXCEPT ![r] = @ \cup {source}]
  BY DEF CacheKey, Give
<1>4. split \in [Tenants -> Sources] /\ shown \in [Requests -> SUBSET Sources]
  BY DEF TypeOK, Sources
<1>5. split' \in [Tenants -> Sources] /\ shown' \in [Requests -> SUBSET Sources]
  BY <1>1, <1>2, <1>3, <1>4
<1>6. ASSUME NEW t \in Tenants PROVE split'[t] \in {Unset} \cup OwnSource(t)
  BY <1>1, <1>3, <1>4 DEF Cached
<1>7. ASSUME NEW q \in serving PROVE tenant[q] \in Tenants /\ shown'[q] \subseteq OwnSource(tenant[q])
  BY <1>1, <1>3, <1>4 DEF Cached, TypeOK
<1> QED BY <1>5, <1>6, <1>7 DEF Cached, OwnSource

LEMMA SplitInv ==
    ASSUME RequestInv, NEW r \in Requests, NEW there \in BOOLEAN, Split(r, there)
    PROVE  RequestInv'
<1> USE DEF RequestInv
<1> DEFINE source == IF split[CacheKey(tenant[r])] # Unset THEN split[CacheKey(tenant[r])]
                     ELSE IF there THEN tenant[r].dataset ELSE NoData
<1>1. /\ r \in serving /\ UNCHANGED << organization, serving, tenant, conn, server >>
      /\ split' = [split EXCEPT ![CacheKey(tenant[r])] = source] /\ Give(r, source)
      /\ split[CacheKey(tenant[r])] # Unset \/ tenant[r].dataset # Sql
  BY DEF Split
<1>2. source \in OwnSource(tenant[r])
  BY <1>1 DEF Cached, CacheKey, OwnSource
<1> HIDE DEF source
<1>3. \A q \in Requests : Loading(q)' => Loading(q)
  BY <1>1 DEF Loading
<1>4. Cached' /\ split' \in [Tenants -> Sources] /\ shown' \in [Requests -> SUBSET Sources]
  BY <1>1, <1>2, <1>3, GivesOwn
<1>5. Pooled'
  BY <1>1 DEF Pooled, Good, Belongs, Wired, Ran, Working, Own, Apart, Spare, Free
<1> QED BY <1>1, <1>4, <1>5 DEF TypeOK, Sources

(* A load ends with the rows of its own organisation, or none.             *)
LEMMA LoadsInv ==
    ASSUME RequestInv, NEW r \in Requests, r \in serving, Loading(r),
           NEW source, source = NoData \/ source = tenant[r].org, Loads(r, source)
    PROVE  RequestInv'
<1> USE DEF RequestInv
<1> DEFINE h == << r, "source" >>
<1>1. h \in Handles
  BY Parts DEF Uses
<1>2. /\ UNCHANGED << organization, serving, tenant >> /\ Released({h}) /\ Give(r, source)
      /\ split' = [split EXCEPT ![CacheKey(tenant[r])] = source]
      /\ conn' = [conn EXCEPT ![h] = Closed]
  BY DEF Loads
<1> HIDE DEF h
<1>3. conn' \in [Handles -> Connections] /\ conn'[h] = Closed /\ \A g \in Handles \ {h} : conn'[g] = conn[g]
  BY <1>1, <1>2, ClosedIsClosed DEF TypeOK
<1>4. Good(h)' /\ ~Working(h)'
  BY <1>1, <1>3, ClosedGood
<1>5. /\ server' \in [Backends -> Settings]
      /\ Apart' /\ Spare' /\ \A g \in Handles \ {h} : Wired(g)'
  BY <1>1, <1>2, <1>3, <1>4, Releases
<1>6. ASSUME NEW g \in Handles \ {h} PROVE Good(g)'
  BY <1>2, <1>3, <1>5, Stays DEF Good, Pooled
<1>7. ASSUME NEW q \in Requests, Loading(q)' PROVE Loading(q)
  <2>1. << q, "source" >> \in Handles
    BY Parts DEF Uses
  <2> QED BY <1>3, <1>7, <2>1, ClosedIsClosed DEF Loading
<1>8. source \in OwnSource(tenant[r])
  BY DEF Cached, OwnSource
<1>9. Cached' /\ split' \in [Tenants -> Sources] /\ shown' \in [Requests -> SUBSET Sources]
  BY <1>2, <1>7, <1>8, GivesOwn
<1> QED BY <1>2, <1>3, <1>4, <1>5, <1>6, <1>9 DEF Pooled, TypeOK, Sources

LEMMA EndLoadInv ==
    ASSUME RequestInv, NEW r \in Requests, NEW empty \in BOOLEAN, EndLoad(r, empty)
    PROVE  RequestInv'
<1> DEFINE h == << r, "source" >>
<1>1. h \in Handles /\ h[1] = r /\ h[2] = "source"
  BY Parts DEF Uses
<1>2. /\ r \in serving /\ conn[h].state \in {"open", "failed"}
      /\ Loads(r, IF empty \/ conn[h].state = "failed" THEN NoData ELSE conn[h].ran.path)
  BY DEF EndLoad
<1>3. Working(h) /\ Good(h) /\ Loading(r)
  BY <1>1, <1>2 DEF Working, Loading, RequestInv, Pooled
<1>4. conn[h].ran = Own(conn[h]) /\ conn[h].schema = tenant[r].org
  BY <1>1, <1>2, <1>3 DEF Good, Ran, Belongs
<1>5. conn[h].ran.path = tenant[r].org
  BY <1>4 DEF Own
<1> QED BY <1>2, <1>3, <1>5, LoadsInv

-----------------------------------------------------------------------------
(***************************************************************************)
(* Requests begin and end.                                                 *)
(***************************************************************************)

LEMMA ArriveInv ==
    ASSUME RequestInv, NEW r \in Requests, NEW o \in Orgs, Arrive(r, o)
    PROVE  RequestInv'
<1> USE DEF RequestInv
<1>1. /\ r \notin serving /\ serving' = serving \cup {r} /\ UNCHANGED << organization, conn, server, split >>
      /\ tenant' = [tenant EXCEPT ![r] = [org |-> o, dataset |-> organization[o]]]
      /\ shown' = [shown EXCEPT ![r] = {}]
  BY DEF Arrive
<1>2. [org |-> o, dataset |-> organization[o]] \in Tenants
  BY DEF TypeOK, Tenants
<1>3. TypeOK'
  <2>1. tenant' \in [Requests -> Tenants \cup {Unset}]
    BY <1>1, <1>2 DEF TypeOK
  <2>2. shown' \in [Requests -> SUBSET (Orgs \cup Roots \cup {Unset, NoData})]
    BY <1>1 DEF TypeOK
  <2> QED BY <1>1, <2>1, <2>2 DEF TypeOK
<1>4. ASSUME NEW h \in Handles PROVE Good(h)'
  <2>1. Good(h) /\ h[1] \in Requests
    BY DEF Pooled, Handles
  <2>2. Belongs(h)'
    <3> SUFFICES ASSUME conn[h].state # "closed"
                 PROVE  h[1] \in serving' /\ conn[h].schema = tenant'[h[1]].org
      BY <1>1 DEF Belongs
    <3>1. h[1] \in serving /\ conn[h].schema = tenant[h[1]].org
      BY <2>1 DEF Good, Belongs
    <3> QED BY <1>1, <2>1, <3>1 DEF TypeOK
  <2> QED BY <1>1, <2>1, <2>2 DEF Good, Wired, Ran, Working, Own
<1>5. Apart' /\ Spare'
  BY <1>1 DEF Pooled, Apart, Spare, Free, Working
<1>6. Cached'
  <2>1. ASSUME NEW q \in serving'
        PROVE  tenant'[q] \in Tenants /\ shown'[q] \subseteq OwnSource(tenant'[q])
    BY <1>1, <1>2 DEF Cached, TypeOK
  <2>2. ASSUME NEW q \in Requests, Loading(q)' PROVE tenant'[q].dataset = Sql
    <3>1. << q, "source" >> \in Handles /\ << q, "source" >>[1] = q
      BY Parts DEF Uses
    <3>2. Loading(q) /\ q \in serving
      BY <1>1, <2>2, <3>1 DEF Loading, Pooled, Good, Belongs
    <3> QED BY <1>1, <3>2 DEF Cached, TypeOK
  <2> QED BY <1>1, <2>1, <2>2 DEF Cached, OwnSource
<1> QED BY <1>3, <1>4, <1>5, <1>6 DEF Pooled

LEMMA EndsInv ==
    ASSUME RequestInv, NEW r \in Requests, Ends(r)
    PROVE  RequestInv'
<1> USE DEF RequestInv
<1>1. /\ serving' = serving \ {r} /\ tenant' = [tenant EXCEPT ![r] = Unset]
      /\ conn' = [h \in Handles |-> IF h[1] = r THEN Closed ELSE conn[h]]
      /\ Released(AllOf(r)) /\ UNCHANGED << organization, split, shown >>
  BY DEF Ends
<1>2. \A h \in Handles : h[1] \in Requests /\ (h \in AllOf(r) <=> h[1] = r)
  BY DEF AllOf, Handles
<1>3. AllOf(r) \in SUBSET Handles
  BY DEF AllOf, Handles
<1>4. /\ conn' \in [Handles -> Connections]
      /\ \A h \in Handles : conn'[h] = IF h[1] = r THEN Closed ELSE conn[h]
  BY <1>1, ClosedIsClosed DEF TypeOK
<1>5. \A h \in AllOf(r) : Good(h)' /\ ~Working(h)'
  BY <1>2, <1>3, <1>4, ClosedGood
<1>6. /\ server' \in [Backends -> Settings]
      /\ Apart' /\ Spare' /\ \A g \in Handles \ AllOf(r) : Wired(g)'
  BY <1>1, <1>2, <1>3, <1>4, <1>5, Releases
<1>7. ASSUME NEW g \in Handles \ AllOf(r) PROVE Good(g)'
  <2>1. g[1] # r /\ conn'[g] = conn[g] /\ Good(g) /\ g[1] \in Requests
    BY <1>2, <1>4 DEF Pooled
  <2>2. tenant'[g[1]] = tenant[g[1]] /\ (g[1] \in serving => g[1] \in serving')
    BY <1>1, <2>1 DEF TypeOK
  <2> QED BY <1>6, <2>1, <2>2, Stays DEF Good
<1>8. Cached'
  <2>1. ASSUME NEW q \in serving'
        PROVE  tenant'[q] \in Tenants /\ shown'[q] \subseteq OwnSource(tenant'[q])
    BY <1>1 DEF Cached, TypeOK
  <2>2. ASSUME NEW q \in Requests, Loading(q)' PROVE tenant'[q].dataset = Sql
    <3>1. << q, "source" >> \in Handles /\ << q, "source" >>[1] = q
      BY Parts DEF Uses
    <3>2. q # r /\ Loading(q)
      BY <1>4, <2>2, <3>1, ClosedIsClosed DEF Loading
    <3> QED BY <1>1, <3>2 DEF Cached, TypeOK
  <2> QED BY <1>1, <2>1, <2>2 DEF Cached, OwnSource
<1>9. tenant' \in [Requests -> Tenants \cup {Unset}]
  BY <1>1 DEF TypeOK
<1> QED BY <1>1, <1>4, <1>5, <1>6, <1>7, <1>8, <1>9 DEF Pooled, TypeOK

LEMMA TimeoutInv ==
    ASSUME RequestInv, NEW h \in Handles, PoolTimeout(h)
    PROVE  RequestInv'
<1>1. h[1] \in Requests /\ h[1] \in serving /\ h = << h[1], h[2] >>
  BY DEF PoolTimeout, MayUse, Handles
<1>2. CASE h[2] = "source"
  <2>1. Loading(h[1])
    BY <1>1, <1>2 DEF PoolTimeout, Loading
  <2> QED BY <1>1, <1>2, <2>1, LoadsInv DEF PoolTimeout
<1>3. CASE h[2] # "source"
  BY <1>1, <1>3, EndsInv DEF PoolTimeout
<1> QED BY <1>2, <1>3

LEMMA RestartInv ==
    ASSUME RequestInv, Restart
    PROVE  RequestInv'
<1> USE DEF RequestInv
<1>1. \A h \in Handles : conn'[h] = Closed
  BY DEF Restart
<1>2. \A h \in Handles : Good(h)' /\ ~Working(h)'
  BY <1>1, ClosedGood
<1>3. conn' \in [Handles -> Connections] /\ Released(Handles)
  BY ClosedIsClosed DEF Restart
<1>4. server' \in [Backends -> Settings] /\ Apart' /\ Spare'
  BY <1>1, <1>2, <1>3, Releases
<1>5. \A r \in Requests : ~Loading(r)'
  <2> TAKE r \in Requests
  <2>1. << r, "source" >> \in Handles
    BY Parts DEF Uses
  <2> QED BY <1>1, <2>1, ClosedIsClosed DEF Loading
<1>6. Cached'
  BY <1>5 DEF Restart, Cached, OwnSource
<1> QED BY <1>2, <1>3, <1>4, <1>6 DEF Restart, Pooled, TypeOK

LEMMA RepointInv ==
    ASSUME RequestInv, NEW o \in Orgs, NEW d \in Datasets, Repoint(o, d)
    PROVE  RequestInv'
<1> USE DEF RequestInv
<1>1. /\ UNCHANGED << serving, tenant, conn, server, split, shown >>
      /\ organization' = [organization EXCEPT ![o] = d]
  BY DEF Repoint
<1>2. TypeOK'
  BY <1>1 DEF TypeOK
<1>3. Pooled'
  BY <1>1 DEF Pooled, Good, Belongs, Wired, Ran, Working, Own, Apart, Spare, Free
<1>4. Cached'
  BY <1>1 DEF Cached, Loading, OwnSource
<1> QED BY <1>2, <1>3, <1>4

LEMMA NextInv == RequestInv /\ [Next]_vars => RequestInv'
<1> SUFFICES ASSUME RequestInv, [Next]_vars PROVE RequestInv'
  OBVIOUS
<1>1. ASSUME NEW r \in Requests, Respond(r) PROVE RequestInv'
  BY <1>1, EndsInv DEF Respond
<1>2. CASE UNCHANGED vars
  BY <1>2 DEF vars, RequestInv, TypeOK, Pooled, Good, Belongs, Wired, Ran, Working, Own, Apart,
              Spare, Free, Cached, Loading, OwnSource
<1> QED BY <1>1, <1>2, ArriveInv, OpenInv, SplitInv, BeginLoadInv, LockInv, EndLoadInv,
           ExecuteInv, EndInv, TimeoutInv, RepointInv, RestartInv DEF Next

LEMMA AlwaysRequestInv == Spec => []RequestInv
BY InitInv, NextInv, PTL DEF Spec

-----------------------------------------------------------------------------
(* Every statement of every request runs in its organisation's schema and  *)
(* in its connection's mode, over any pool of server connections, with     *)
(* commits, failed transactions and appends in any order                   *)
(* (storage/pg.py:113).                                                    *)
THEOREM OwnSchemaAlways == Spec => []OwnSchema
<1>1. RequestInv => OwnSchema
  <2> SUFFICES ASSUME RequestInv, NEW h \in Handles, conn[h].ran # Unset
               PROVE  conn[h].ran = [path |-> tenant[h[1]].org, readonly |-> conn[h].readonly]
    BY DEF OwnSchema
  <2>1. Good(h) /\ conn[h].ran = Own(conn[h]) /\ Working(h)
    BY DEF RequestInv, Pooled, Good, Ran
  <2>2. conn[h].schema = tenant[h[1]].org
    BY <2>1 DEF Good, Belongs, Working
  <2> QED BY <2>1, <2>2 DEF Own
<1> QED BY <1>1, AlwaysRequestInv, PTL

(* No request is given another organisation's rows or corpus, nor the      *)
(* corpus of a dataset its organisation was pointed away from before it    *)
(* arrived, whatever is cached and repointed meanwhile                     *)
(* (console/app.py:277, tenancy.cache_key).                                *)
THEOREM OwnRecordsAlways == Spec => []OwnRecords
<1>1. RequestInv => OwnRecords
  BY DEF RequestInv, Cached, OwnRecords
<1> QED BY <1>1, AlwaysRequestInv, PTL
=============================================================================
