---------------------------- MODULE MCSiteTables ----------------------------
(***************************************************************************)
(* SiteTables for TLC.  The groups of tables below share no table and no   *)
(* handler reads two of them, so TLC looks at one group at a time: it      *)
(* makes no call on a second group and does not go on from a state in      *)
(* which two of them are other than the first start leaves them.           *)
(***************************************************************************)
EXTENDS SiteTables

CONSTANTS d, a, b, i1

Cidr(net, n) == [base |-> net, size |-> n]
MCCidrs     == {Cidr(0, 8), Cidr(4, 4), Cidr(2, 2), Cidr(3, 1)}
MCDefault   == Cidr(0, 8)
MCHostMacs  == <<{"mac1"}, {"mac1", "mac2"}>>
MCSeed      == [i \in ExpectedIds |-> IF i = d THEN "mac1" ELSE Absent]
MCSeedLink  == [i \in ExpectedIds |-> IF i = d THEN 2 ELSE NoHost]

F == IF file = NoFile THEN EmptySnapshot ELSE file

Groups ==
    <<v = EmptyMap /\ F.v = EmptyMap, ns = EmptyMap /\ F.ns = EmptyMap,
      vp = EmptyMap /\ F.vp = EmptyMap /\ ins = NoInstance /\ F.ins = NoInstance,
      vpp = EmptyMap /\ F.vpp = EmptyMap,
      osi = EmptyMap /\ F.osi = EmptyMap /\ oss = EmptyMap /\ F.oss = EmptyMap,
      em = (IF up THEN Seed ELSE NoneExpected),
      eps = NoneExpected, es = NoneExpected, er = NoneExpected,
      tt = EmptyMap, tk = EmptyMap, ibp = EmptyMap, nvlp = EmptyMap, nsg = EmptyMap>>

Busy == LET quiet == Groups IN {k \in DOMAIN quiet : ~quiet[k]}

OneGroupAtATime ==
    LET busy == Busy
    IN /\ Cardinality(busy) <= 1
       /\ cron.table # "none" =>
             busy \subseteq {3, 10, 14} /\ ins = NoInstance /\ F.ins = NoInstance

\* Saves that fail leave the file at most MaxLag rows behind the memory.
MaxLag == 1

Behind(t, saved) == Cardinality({i \in DOMAIN t : t[i] # saved[i]})

LittleLost ==
    up => Behind(v, F.v) + Behind(ns, F.ns) + Behind(vp, F.vp) + Behind(vpp, F.vpp)
          + Behind(ins, F.ins) + Behind(osi, F.osi) <= MaxLag

\* No handler reads two instances: one id is looked at at a time.
OneInstance == Cardinality(Known(ins) \cup Known(F.ins)) <= 1

\* Only calls on tables of a group that is not quiet, or on any if all are.
MCNext ==
    \/ Start \/ Die \/ Panic \/ Save \/ CronLists \/ CronAsks
    \/ Busy \subseteq 1..4   /\ CallNetwork
    \/ Busy \subseteq {5}    /\ CallOs
    \/ Busy \subseteq 6..9   /\ CallExpected
    \/ Busy \subseteq 10..14 /\ CallTenant

MCSpec == Init /\ [][MCNext]_vars
=============================================================================
