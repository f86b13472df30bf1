--------------------------- MODULE Radio_proofs ---------------------------
(***************************************************************************)
(* Proofs about the ESP32 radio: the physical layer's references, clocks   *)
(* and calibration, what the operating-system table makes on the heap, and *)
(* the station.  For any users, tasks, blocks, channels and calls.         *)
(***************************************************************************)
EXTENDS Station, Integers, SequenceTheorems, FiniteSetTheorems, TLAPS

(***************************************************************************)
(* The radio's physical layer.                                             *)
(***************************************************************************)

(* What is left of a call, at every point of one.                          *)
StepsLeft ==
  {<<>>, <<"common ref", "wifi on", "ref">>, <<"common on", "wifi on", "ref">>, <<"wifi on", "ref">>, <<"ref">>,
   <<"wakeup">>, <<"register">>, <<"registered", "enabled">>, <<"enabled">>,
   <<"common ref", "clocked">>, <<"common on", "clocked">>, <<"clocked">>,
   <<"unref", "wifi off", "common unref">>, <<"wifi off", "common unref">>, <<"common unref">>, <<"common off">>,
   <<"drop">>, <<"close", "wifi off", "common unref">>}
NextOf(st) == IF st = <<>> THEN "none" ELSE Head(st)

(* The references held, as tokens.                                         *)
Tokens(f) == {x \in PhyUsers \X Nat : 1 <= x[2] /\ x[2] <= f[x[1]]}
Enabled == Tokens([u \in PhyUsers |-> phyUser[u].enabled])
Clocked == Tokens([u \in PhyUsers |-> phyUser[u].clocked])
NEn == Cardinality(Enabled)
NCl == Cardinality(Clocked)

(* What holds when the call in progress does h next: the counts are the    *)
(* references, and what the call has taken or has still to give back.      *)
Referenced == {"wakeup", "register", "registered", "enabled", "unref", "drop"}
Clocking == {"common on", "wifi on", "ref", "wakeup", "register", "registered", "enabled", "clocked", "unref",
             "wifi off", "common unref", "close"}
Phase(h, n, c) ==
  /\ n > 0 => phy.registered /\ rf.open /\ "wifi" \in phyClocks
  /\ phy.refs = IF h \in Referenced THEN n + 1 ELSE n
  /\ phy.common >= c
  /\ n > 0 => phy.common >= c + 1
  /\ h \in Clocking => phy.common >= c + 1 /\ (n > 0 => phy.common >= c + 2)
  /\ h = "drop" => phy.common >= c + 1 /\ phy.registered /\ rf.open /\ "wifi" \in phyClocks
  /\ h = "common on" => phy.common = 1
  /\ h # "common on" /\ phy.common > 0 => "common" \in phyClocks
  /\ h = "common off" => phy.common = 0
  /\ h \in {"ref", "wakeup", "register", "registered", "enabled"} => "wifi" \in phyClocks
  /\ h \in {"register", "unref", "wifi off", "close"} => n = 0
  /\ h \in {"registered", "enabled"} => rf.open
  /\ h \in {"wakeup", "enabled"} => phy.registered

UseRec == [steps : StepsLeft, enabled : Nat, clocked : Nat]
PhyTyped ==
  /\ phy \in [refs : Nat, common : Nat, registered : BOOLEAN]
  /\ rf \in [open : BOOLEAN, registrations : Nat]
  /\ phyUser \in [PhyUsers -> UseRec]
  /\ IsFiniteSet(Enabled) /\ IsFiniteSet(Clocked)
OneCalls == \A u, v \in PhyUsers : phyUser[u].steps # <<>> /\ phyUser[v].steps # <<>> => u = v
NoCalls == \A v \in PhyUsers : phyUser[v].steps = <<>>
PhyStateInv ==
  /\ PhyTyped /\ OneCalls
  /\ \A u \in PhyUsers : phyUser[u].steps # <<>> \/ NoCalls => Phase(NextOf(phyUser[u].steps), NEn, NCl)

LEMMA Joins ==
  ASSUME NEW a, NEW b, NEW c
  PROVE  /\ <<a>> \o <<b>> = <<a, b>> /\ <<a>> \o <<b, c>> = <<a, b, c>>
         /\ <<>> \o <<>> = <<>> /\ <<>> \o <<a>> = <<a>> /\ <<>> \o <<a, b>> = <<a, b>> /\ <<a>> \o <<>> = <<a>>
<1>1. <<a>> \o <<b>> = <<a, b>>
  <2> DEFINE w == <<a>> \o <<b>>
             v == <<a, b>>
  <2>1. w \in Seq({a, b}) /\ Len(w) = 2 /\ w[1] = a /\ w[2] = b
    OBVIOUS
  <2>2. v \in Seq({a, b}) /\ Len(v) = 2 /\ v[1] = a /\ v[2] = b
    OBVIOUS
  <2> HIDE DEF w, v
  <2>3. \A i \in 1 .. Len(w) : w[i] = v[i]
    BY <2>1, <2>2
  <2>4. w = v
    BY <2>1, <2>2, <2>3, SeqEqual
  <2> QED
    BY <2>4 DEF w, v
<1>2. <<a>> \o <<b, c>> = <<a, b, c>>
  <2> DEFINE w == <<a>> \o <<b, c>>
             v == <<a, b, c>>
  <2>1. w \in Seq({a, b, c}) /\ Len(w) = 3 /\ w[1] = a /\ w[2] = b /\ w[3] = c
    OBVIOUS
  <2>2. v \in Seq({a, b, c}) /\ Len(v) = 3 /\ v[1] = a /\ v[2] = b /\ v[3] = c
    OBVIOUS
  <2> HIDE DEF w, v
  <2>3. \A i \in 1 .. Len(w) : w[i] = v[i]
    BY <2>1, <2>2
  <2>4. w = v
    BY <2>1, <2>2, <2>3, SeqEqual
  <2> QED
    BY <2>4 DEF w, v
<1>3. <<>> \o <<>> = <<>> /\ <<>> \o <<a>> = <<a>> /\ <<>> \o <<a, b>> = <<a, b>> /\ <<a>> \o <<>> = <<a>>
  OBVIOUS
<1> QED
  BY <1>1, <1>2, <1>3

LEMMA Ends1 ==
  ASSUME NEW a PROVE Head(<<a>>) = a /\ Tail(<<a>>) = <<>> /\ <<a>> # <<>> /\ NextOf(<<a>>) = a
  BY DEF NextOf
LEMMA Ends2 ==
  ASSUME NEW a, NEW b PROVE Head(<<a, b>>) = a /\ Tail(<<a, b>>) = <<b>> /\ <<a, b>> # <<>> /\ NextOf(<<a, b>>) = a
  BY DEF NextOf
LEMMA Ends3 ==
  ASSUME NEW a, NEW b, NEW c
  PROVE  Head(<<a, b, c>>) = a /\ Tail(<<a, b, c>>) = <<b, c>> /\ <<a, b, c>> # <<>> /\ NextOf(<<a, b, c>>) = a
  BY DEF NextOf

LEMMA TailsLeft ==
  ASSUME NEW st \in StepsLeft, st # <<>>
  PROVE  /\ Head(st) = "common ref" =>
              /\ <<>> \o Tail(st) \in StepsLeft /\ NextOf(<<>> \o Tail(st)) \in {"wifi on", "clocked"}
              /\ <<"common on">> \o Tail(st) \in StepsLeft /\ NextOf(<<"common on">> \o Tail(st)) = "common on"
         /\ Head(st) = "common on" => Tail(st) \in StepsLeft /\ NextOf(Tail(st)) \in {"wifi on", "clocked"}
         /\ Head(st) = "wifi on" => Tail(st) \in StepsLeft /\ NextOf(Tail(st)) = "ref"
         /\ Head(st) = "registered" => Tail(st) \in StepsLeft /\ NextOf(Tail(st)) = "enabled"
         /\ Head(st) \in {"unref", "close"} => Tail(st) \in StepsLeft /\ NextOf(Tail(st)) = "wifi off"
         /\ Head(st) = "wifi off" => Tail(st) \in StepsLeft /\ NextOf(Tail(st)) = "common unref"
         /\ Head(st) = "common unref" => <<>> \o Tail(st) = <<>> /\ <<"common off">> \o Tail(st) = <<"common off">>
         /\ Head(st) \in {"common off", "enabled", "clocked"} => Tail(st) = <<>>
         /\ Head(st) \in {"common ref", "common on", "wifi on", "ref", "wakeup", "register", "registered", "enabled",
                          "clocked", "unref", "wifi off", "common unref", "common off", "drop", "close"}
<1>1. CASE st = <<"common ref", "wifi on", "ref">>
  <2>1. Head(st) = "common ref" /\ Tail(st) = <<"wifi on", "ref">>
    BY <1>1, Ends3, ZenonT(60)
  <2>2. <<"common on">> \o Tail(st) = <<"common on", "wifi on", "ref">> /\ <<>> \o Tail(st) = <<"wifi on", "ref">>
    BY <2>1, Joins, Zenon
  <2>3. {<<"common on", "wifi on", "ref">>, <<"wifi on", "ref">>} \subseteq StepsLeft
    BY Zenon DEF StepsLeft
  <2>4. NextOf(<<"common on", "wifi on", "ref">>) = "common on" /\ NextOf(<<"wifi on", "ref">>) = "wifi on"
    <3>1. NextOf(<<"wifi on", "ref">>) = "wifi on"
      BY Ends2
    <3> QED
      BY <3>1, Ends3
  <2> QED
    BY <2>1, <2>2, <2>3, <2>4
<1>2. CASE st = <<"common on", "wifi on", "ref">>
  <2>1. Head(st) = "common on" /\ Tail(st) = <<"wifi on", "ref">>
    BY <1>2, Ends3, ZenonT(60)
  <2>2. <<"wifi on", "ref">> \in StepsLeft /\ NextOf(<<"wifi on", "ref">>) = "wifi on"
    BY Ends1, Ends2, Zenon DEF StepsLeft
  <2> QED
    BY <2>1, <2>2
<1>3. CASE st = <<"wifi on", "ref">>
  <2>1. Head(st) = "wifi on" /\ Tail(st) = <<"ref">>
    BY <1>3, Ends2, Zenon
  <2>2. <<"ref">> \in StepsLeft /\ NextOf(<<"ref">>) = "ref"
    BY Ends1, Ends2, Zenon DEF StepsLeft
  <2> QED
    BY <2>1, <2>2
<1>4. CASE st = <<"ref">>
  <2>1. Head(st) = "ref" /\ Tail(st) = <<>>
    BY <1>4, Ends1, Zenon
  <2> QED
    BY <2>1
<1>5. CASE st = <<"wakeup">>
  <2>1. Head(st) = "wakeup" /\ Tail(st) = <<>>
    BY <1>5, Ends1, Zenon
  <2> QED
    BY <2>1
<1>6. CASE st = <<"register">>
  <2>1. Head(st) = "register" /\ Tail(st) = <<>>
    BY <1>6, Ends1, Zenon
  <2> QED
    BY <2>1
<1>7. CASE st = <<"registered", "enabled">>
  <2>1. Head(st) = "registered" /\ Tail(st) = <<"enabled">>
    BY <1>7, Ends2, Zenon
  <2>2. <<"enabled">> \in StepsLeft /\ NextOf(<<"enabled">>) = "enabled"
    BY Ends1, Ends2, Zenon DEF StepsLeft
  <2> QED
    BY <2>1, <2>2
<1>8. CASE st = <<"enabled">>
  <2>1. Head(st) = "enabled" /\ Tail(st) = <<>>
    BY <1>8, Ends1, Zenon
  <2> QED
    BY <2>1
<1>9. CASE st = <<"common ref", "clocked">>
  <2>1. Head(st) = "common ref" /\ Tail(st) = <<"clocked">>
    BY <1>9, Ends2, Zenon
  <2>2. <<"common on">> \o Tail(st) = <<"common on", "clocked">> /\ <<>> \o Tail(st) = <<"clocked">>
    BY <2>1, Joins, Zenon
  <2>3. {<<"common on", "clocked">>, <<"clocked">>} \subseteq StepsLeft
    BY Zenon DEF StepsLeft
  <2>4. NextOf(<<"common on", "clocked">>) = "common on" /\ NextOf(<<"clocked">>) = "clocked"
    BY Ends1, Ends2, Ends3
  <2> QED
    BY <2>1, <2>2, <2>3, <2>4
<1>10. CASE st = <<"common on", "clocked">>
  <2>1. Head(st) = "common on" /\ Tail(st) = <<"clocked">>
    BY <1>10, Ends2, Zenon
  <2>2. <<"clocked">> \in StepsLeft /\ NextOf(<<"clocked">>) = "clocked"
    BY Ends1, Ends2, Zenon DEF StepsLeft
  <2> QED
    BY <2>1, <2>2
<1>11. CASE st = <<"clocked">>
  <2>1. Head(st) = "clocked" /\ Tail(st) = <<>>
    BY <1>11, Ends1, Zenon
  <2> QED
    BY <2>1
<1>12. CASE st = <<"unref", "wifi off", "common unref">>
  <2>1. Head(st) = "unref" /\ Tail(st) = <<"wifi off", "common unref">>
    BY <1>12, Ends3, Zenon
  <2>2. <<"wifi off", "common unref">> \in StepsLeft /\ NextOf(<<"wifi off", "common unref">>) = "wifi off"
    BY Ends1, Ends2, Zenon DEF StepsLeft
  <2> QED
    BY <2>1, <2>2
<1>13. CASE st = <<"wifi off", "common unref">>
  <2>1. Head(st) = "wifi off" /\ Tail(st) = <<"common unref">>
    BY <1>13, Ends2, Zenon
  <2>2. <<"common unref">> \in StepsLeft /\ NextOf(<<"common unref">>) = "common unref"
    BY Ends1, Ends2, Zenon DEF StepsLeft
  <2> QED
    BY <2>1, <2>2
<1>14. CASE st = <<"common unref">>
  <2>1. Head(st) = "common unref" /\ Tail(st) = <<>>
    BY <1>14, Ends1, Zenon
  <2>2. <<>> \o Tail(st) = <<>> /\ <<"common off">> \o Tail(st) = <<"common off">>
    BY <2>1, Joins, Zenon
  <2> QED
    BY <2>1, <2>2
<1>15. CASE st = <<"common off">>
  <2>1. Head(st) = "common off" /\ Tail(st) = <<>>
    BY <1>15, Ends1, Zenon
  <2> QED
    BY <2>1
<1>16. CASE st = <<"drop">>
  <2>1. Head(st) = "drop" /\ Tail(st) = <<>>
    BY <1>16, Ends1, Zenon
  <2> QED
    BY <2>1
<1>17. CASE st = <<"close", "wifi off", "common unref">>
  <2>1. Head(st) = "close" /\ Tail(st) = <<"wifi off", "common unref">>
    BY <1>17, Ends3, ZenonT(60)
  <2>2. <<"wifi off", "common unref">> \in StepsLeft /\ NextOf(<<"wifi off", "common unref">>) = "wifi off"
    BY Ends1, Ends2, Zenon DEF StepsLeft
  <2> QED
    BY <2>1, <2>2
<1> QED
  BY <1>1, <1>2, <1>3, <1>4, <1>5, <1>6, <1>7, <1>8, <1>9, <1>10, <1>11, <1>12, <1>13, <1>14, <1>15, <1>16, <1>17, Zenon DEF StepsLeft

LEMMA ShortLists ==
  /\ {<<"wakeup">>, <<"register">>, <<"enabled">>, <<"registered", "enabled">>, <<"drop">>, <<"common off">>, <<>>,
      <<"close", "wifi off", "common unref">>, <<"unref", "wifi off", "common unref">>, <<"common unref">>,
      <<"common ref", "wifi on", "ref">>, <<"common ref", "clocked">>} \subseteq StepsLeft
  /\ NextOf(<<"wakeup">>) = "wakeup" /\ NextOf(<<"register">>) = "register" /\ NextOf(<<"enabled">>) = "enabled"
  /\ NextOf(<<"registered", "enabled">>) = "registered" /\ NextOf(<<"drop">>) = "drop"
  /\ NextOf(<<"common off">>) = "common off" /\ NextOf(<<>>) = "none"
  /\ NextOf(<<"close", "wifi off", "common unref">>) = "close"
  /\ NextOf(<<"unref", "wifi off", "common unref">>) = "unref" /\ NextOf(<<"common unref">>) = "common unref"
  /\ NextOf(<<"common ref", "wifi on", "ref">>) = "common ref" /\ NextOf(<<"common ref", "clocked">>) = "common ref"
<1>1. NextOf(<<>>) = "none"
  BY DEF NextOf
<1>2. /\ NextOf(<<"wakeup">>) = "wakeup" /\ NextOf(<<"register">>) = "register" /\ NextOf(<<"enabled">>) = "enabled"
      /\ NextOf(<<"drop">>) = "drop" /\ NextOf(<<"common off">>) = "common off"
      /\ NextOf(<<"common unref">>) = "common unref"
  BY Ends1
<1>3. NextOf(<<"registered", "enabled">>) = "registered" /\ NextOf(<<"common ref", "clocked">>) = "common ref"
  BY Ends2
<1>4. /\ NextOf(<<"close", "wifi off", "common unref">>) = "close"
      /\ NextOf(<<"unref", "wifi off", "common unref">>) = "unref"
      /\ NextOf(<<"common ref", "wifi on", "ref">>) = "common ref"
  BY Ends3
<1>5. {<<"wakeup">>, <<"register">>, <<"enabled">>, <<"registered", "enabled">>, <<"drop">>, <<"common off">>, <<>>,
      <<"close", "wifi off", "common unref">>, <<"unref", "wifi off", "common unref">>, <<"common unref">>,
      <<"common ref", "wifi on", "ref">>, <<"common ref", "clocked">>} \subseteq StepsLeft
  BY Zenon DEF StepsLeft
<1> QED
  BY <1>1, <1>2, <1>3, <1>4, <1>5

\* g counts one more than f for the user u and the same for the others.
OneUp(f, g, u) ==
  /\ f \in [PhyUsers -> Nat] /\ g \in [PhyUsers -> Nat]
  /\ g[u] = f[u] + 1
  /\ \A v \in PhyUsers : v # u => g[v] = f[v]

LEMMA OneMoreToken ==
  ASSUME NEW f, NEW g, NEW u \in PhyUsers, OneUp(f, g, u)
  PROVE  /\ IsFiniteSet(Tokens(f)) <=> IsFiniteSet(Tokens(g))
         /\ IsFiniteSet(Tokens(f)) => Cardinality(Tokens(g)) = Cardinality(Tokens(f)) + 1
<1> DEFINE x == <<u, f[u] + 1>>
<1>1. /\ f \in [PhyUsers -> Nat] /\ g \in [PhyUsers -> Nat] /\ g[u] = f[u] + 1
      /\ \A v \in PhyUsers : v # u => g[v] = f[v]
  BY DEF OneUp
<1>2. x \notin Tokens(f) /\ x \in Tokens(g)
  BY <1>1 DEF Tokens
<1>3. ASSUME NEW y \in Tokens(g), y # x PROVE y \in Tokens(f)
  <2>1. y \in PhyUsers \X Nat /\ y = <<y[1], y[2]>> /\ y[1] \in PhyUsers /\ y[2] \in Nat /\ 1 <= y[2] /\ y[2] <= g[y[1]]
    BY DEF Tokens
  <2>2. CASE y[1] = u
    <3>1. y[2] # f[u] + 1
      BY <1>3, <2>1, <2>2
    <3> QED
      BY <3>1, <2>1, <2>2, <1>1 DEF Tokens
  <2>3. CASE y[1] # u
    BY <2>1, <2>3, <1>1 DEF Tokens
  <2> QED
    BY <2>2, <2>3
<1>4. ASSUME NEW y \in Tokens(f) PROVE y \in Tokens(g)
  <2>1. y \in PhyUsers \X Nat /\ y[1] \in PhyUsers /\ y[2] \in Nat /\ 1 <= y[2] /\ y[2] <= f[y[1]]
    BY DEF Tokens
  <2>2. f[y[1]] <= g[y[1]] /\ f[y[1]] \in Nat /\ g[y[1]] \in Nat
    BY <2>1, <1>1
  <2> QED
    BY <2>1, <2>2 DEF Tokens
<1> HIDE DEF x
<1>5. Tokens(g) = Tokens(f) \cup {x} /\ Tokens(f) = Tokens(g) \ {x}
  BY <1>2, <1>3, <1>4
<1>6. IsFiniteSet(Tokens(f)) => IsFiniteSet(Tokens(g)) /\ Cardinality(Tokens(g)) = Cardinality(Tokens(f)) + 1
  <2> SUFFICES ASSUME IsFiniteSet(Tokens(f))
               PROVE  IsFiniteSet(Tokens(g)) /\ Cardinality(Tokens(g)) = Cardinality(Tokens(f)) + 1
    OBVIOUS
  <2>1. PICK S, T : S = Tokens(f) /\ T = Tokens(g) /\ T = S \cup {x} /\ x \notin S /\ IsFiniteSet(S)
    BY <1>2, <1>5
  <2>2. IsFiniteSet(T) /\ Cardinality(T) = Cardinality(S) + 1
    <3>1. IsFiniteSet(S \cup {x}) /\ Cardinality(S \cup {x}) = Cardinality(S) + 1
      BY <2>1, FS_AddElement
    <3> QED
      BY <3>1, <2>1, Zenon
  <2> QED
    BY <2>1, <2>2
<1>7. IsFiniteSet(Tokens(g)) => IsFiniteSet(Tokens(f))
  BY <1>5, FS_RemoveElement
<1> QED
  BY <1>6, <1>7

(* The calls of one user and what they hold.                               *)
LEMMA PhyFacts ==
  ASSUME PhyStateInv
  PROVE  /\ phy \in [refs : Nat, common : Nat, registered : BOOLEAN]
         /\ phy.refs \in Nat /\ phy.common \in Nat /\ phy.registered \in BOOLEAN
         /\ rf \in [open : BOOLEAN, registrations : Nat] /\ rf.open \in BOOLEAN
         /\ phyUser \in [PhyUsers -> UseRec]
         /\ \A u \in PhyUsers : /\ phyUser[u] \in UseRec /\ phyUser[u].steps \in StepsLeft
                                /\ phyUser[u].enabled \in Nat /\ phyUser[u].clocked \in Nat
         /\ IsFiniteSet(Enabled) /\ IsFiniteSet(Clocked) /\ NEn \in Nat /\ NCl \in Nat
<1>1. NEn \in Nat /\ NCl \in Nat
  BY FS_CardinalityType DEF PhyStateInv, PhyTyped, NEn, NCl
<1> QED
  BY <1>1 DEF PhyStateInv, PhyTyped, UseRec

(* A step that leaves u with r, the rest as it was and no references taken *)
(* or given back, keeps the invariant if what u does next fits.            *)
LEMMA PhyStep ==
  ASSUME PhyStateInv, NEW u \in PhyUsers, phyUser[u].steps # <<>> \/ NoCalls,
         NEW r \in UseRec, phyUser' = [phyUser EXCEPT ![u] = r],
         phy' \in [refs : Nat, common : Nat, registered : BOOLEAN], rf' \in [open : BOOLEAN, registrations : Nat],
         NEW n \in Nat, NEW c \in Nat, IsFiniteSet(Enabled'), IsFiniteSet(Clocked'), NEn' = n, NCl' = c,
         NEW h, h = NextOf(r.steps), Phase(h, n, c)'
  PROVE  PhyStateInv'
<1> USE PhyFacts
<1>1. phyUser' \in [PhyUsers -> UseRec] /\ phyUser'[u] = r /\ \A v \in PhyUsers : v # u => phyUser'[v] = phyUser[v]
  OBVIOUS
<1>2. \A v \in PhyUsers : v # u => phyUser[v].steps = <<>>
  BY DEF PhyStateInv, OneCalls, NoCalls
<1>3. \A v \in PhyUsers : v # u => phyUser'[v].steps = <<>>
  BY <1>1, <1>2
<1>4. PhyTyped'
  BY <1>1 DEF PhyTyped
<1>5. OneCalls'
  BY <1>3 DEF OneCalls
<1>6. ASSUME NEW v \in PhyUsers, phyUser'[v].steps # <<>> \/ NoCalls' PROVE Phase(NextOf(phyUser[v].steps), NEn, NCl)'
  <2>1. phyUser'[v].steps = r.steps
    BY <1>1, <1>3, <1>6 DEF NoCalls
  <2>2. NextOf(phyUser'[v].steps) = h
    BY <2>1
  <2> QED
    BY <2>2 DEF Phase
<1> QED
  BY <1>4, <1>5, <1>6 DEF PhyStateInv

(* The same for a step that only changes the list of steps.                *)
LEMMA PhyStepOn ==
  ASSUME PhyStateInv, NEW u \in PhyUsers, phyUser[u].steps # <<>> \/ NoCalls,
         NEW st \in StepsLeft, phyUser' = [phyUser EXCEPT ![u].steps = st],
         phy' \in [refs : Nat, common : Nat, registered : BOOLEAN], rf' \in [open : BOOLEAN, registrations : Nat],
         NEW n, NEW c, n = NEn, c = NCl, NEW h, h = NextOf(st), Phase(h, n, c)'
  PROVE  PhyStateInv'
<1> USE PhyFacts
<1>1. PICK r \in UseRec : r = [phyUser[u] EXCEPT !.steps = st]
  BY DEF UseRec
<1>2. r.steps = st /\ r.enabled = phyUser[u].enabled /\ r.clocked = phyUser[u].clocked
  BY <1>1 DEF UseRec
<1>3. phyUser' = [phyUser EXCEPT ![u] = r]
  BY <1>1
<1>4. \A v \in PhyUsers : phyUser'[v].enabled = phyUser[v].enabled /\ phyUser'[v].clocked = phyUser[v].clocked
  BY <1>2, <1>3
<1>5. Enabled' = Enabled /\ Clocked' = Clocked
  <2>1. /\ [v \in PhyUsers |-> phyUser'[v].enabled] = [v \in PhyUsers |-> phyUser[v].enabled]
        /\ [v \in PhyUsers |-> phyUser'[v].clocked] = [v \in PhyUsers |-> phyUser[v].clocked]
    BY <1>4
  <2> QED
    BY <2>1 DEF Enabled, Clocked
<1>6. NEn' = n /\ NCl' = c /\ n \in Nat /\ c \in Nat
  BY <1>5 DEF NEn, NCl
<1> QED
  BY <1>2, <1>3, <1>5, <1>6, PhyStep


(* A reference more, or less.                                              *)
LEMMA EnabledMoves ==
  ASSUME PhyStateInv, NEW u \in PhyUsers, NEW r \in UseRec, phyUser' = [phyUser EXCEPT ![u] = r],
         r.clocked = phyUser[u].clocked
  PROVE  /\ IsFiniteSet(Clocked') /\ NCl' = NCl
         /\ r.enabled = phyUser[u].enabled + 1 => IsFiniteSet(Enabled') /\ NEn' = NEn + 1
         /\ r.enabled = phyUser[u].enabled - 1 => IsFiniteSet(Enabled') /\ NEn = NEn' + 1 /\ NEn' \in Nat
<1> USE PhyFacts
<1> DEFINE f == [v \in PhyUsers |-> phyUser[v].enabled]
           g == [v \in PhyUsers |-> phyUser'[v].enabled]
<1>0. phyUser'[u] = r /\ \A v \in PhyUsers : v # u => phyUser'[v] = phyUser[v]
  OBVIOUS
<1>1. f \in [PhyUsers -> Nat] /\ g \in [PhyUsers -> Nat] /\ r.enabled \in Nat
  BY <1>0 DEF UseRec
<1>2. Enabled = Tokens(f) /\ Enabled' = Tokens(g)
  BY DEF Enabled
<1>3. Clocked' = Clocked
  <2>1. [v \in PhyUsers |-> phyUser'[v].clocked] = [v \in PhyUsers |-> phyUser[v].clocked]
    BY <1>0
  <2> QED
    BY <2>1 DEF Clocked
<1>4. ASSUME r.enabled = phyUser[u].enabled + 1 PROVE IsFiniteSet(Enabled') /\ NEn' = NEn + 1
  <2>1. OneUp(f, g, u)
    BY <1>0, <1>1, <1>4 DEF OneUp
  <2> HIDE DEF f, g
  <2>2. IsFiniteSet(Tokens(f)) /\ NEn = Cardinality(Tokens(f)) /\ NEn' = Cardinality(Tokens(g))
    BY <1>2 DEF NEn
  <2>3. /\ IsFiniteSet(Tokens(f)) <=> IsFiniteSet(Tokens(g))
        /\ IsFiniteSet(Tokens(f)) => Cardinality(Tokens(g)) = Cardinality(Tokens(f)) + 1
    BY <2>1, OneMoreToken
  <2> QED
    BY <1>2, <2>2, <2>3
<1>5. ASSUME r.enabled = phyUser[u].enabled - 1
      PROVE  IsFiniteSet(Enabled') /\ NEn = NEn' + 1 /\ NEn' \in Nat
  <2>0. g[u] + 1 = f[u] /\ \A v \in PhyUsers : v # u => f[v] = g[v]
    BY <1>0, <1>1, <1>5
  <2>1. OneUp(g, f, u)
    BY <1>1, <2>0 DEF OneUp
  <2> HIDE DEF f, g
  <2>2. IsFiniteSet(Enabled') /\ NEn = NEn' + 1
    BY <1>2, <2>1, OneMoreToken DEF NEn
  <2> QED
    BY <2>2, FS_CardinalityType DEF NEn
<1> QED
  BY <1>3, <1>4, <1>5 DEF NCl

LEMMA ClockedMoves ==
  ASSUME PhyStateInv, NEW u \in PhyUsers, NEW r \in UseRec, phyUser' = [phyUser EXCEPT ![u] = r],
         r.enabled = phyUser[u].enabled
  PROVE  /\ IsFiniteSet(Enabled') /\ NEn' = NEn
         /\ r.clocked = phyUser[u].clocked + 1 => IsFiniteSet(Clocked') /\ NCl' = NCl + 1
         /\ r.clocked = phyUser[u].clocked - 1 => IsFiniteSet(Clocked') /\ NCl = NCl' + 1 /\ NCl' \in Nat
<1> USE PhyFacts
<1> DEFINE f == [v \in PhyUsers |-> phyUser[v].clocked]
           g == [v \in PhyUsers |-> phyUser'[v].clocked]
<1>0. phyUser'[u] = r /\ \A v \in PhyUsers : v # u => phyUser'[v] = phyUser[v]
  OBVIOUS
<1>1. f \in [PhyUsers -> Nat] /\ g \in [PhyUsers -> Nat] /\ r.clocked \in Nat
  BY <1>0 DEF UseRec
<1>2. Clocked = Tokens(f) /\ Clocked' = Tokens(g)
  BY DEF Clocked
<1>3. Enabled' = Enabled
  <2>1. [v \in PhyUsers |-> phyUser'[v].enabled] = [v \in PhyUsers |-> phyUser[v].enabled]
    BY <1>0
  <2> QED
    BY <2>1 DEF Enabled
<1>4. ASSUME r.clocked = phyUser[u].clocked + 1 PROVE IsFiniteSet(Clocked') /\ NCl' = NCl + 1
  <2>1. OneUp(f, g, u)
    BY <1>0, <1>1, <1>4 DEF OneUp
  <2> HIDE DEF f, g
  <2> QED
    BY <1>2, <2>1, OneMoreToken DEF NCl
<1>5. ASSUME r.clocked = phyUser[u].clocked - 1
      PROVE  IsFiniteSet(Clocked') /\ NCl = NCl' + 1 /\ NCl' \in Nat
  <2>0. g[u] + 1 = f[u] /\ \A v \in PhyUsers : v # u => f[v] = g[v]
    BY <1>0, <1>1, <1>5
  <2>1. OneUp(g, f, u)
    BY <1>1, <2>0 DEF OneUp
  <2> HIDE DEF f, g
  <2>2. IsFiniteSet(Clocked') /\ NCl = NCl' + 1
    BY <1>2, <2>1, OneMoreToken DEF NCl
  <2> QED
    BY <2>2, FS_CardinalityType DEF NCl
<1> QED
  BY <1>3, <1>4, <1>5 DEF NEn

LEMMA PhyStateBegins == PhyInit => PhyStateInv
<1> SUFFICES ASSUME PhyInit PROVE PhyStateInv
  OBVIOUS
<1> USE DEF PhyInit
<1>1. \A u \in PhyUsers : phyUser[u] = NoUse
  OBVIOUS
<1>2. NoUse \in UseRec /\ NoUse.steps = <<>> /\ NoUse.enabled = 0 /\ NoUse.clocked = 0
  BY ShortLists DEF NoUse, UseRec
<1>3. Enabled = {} /\ Clocked = {}
  BY <1>1, <1>2 DEF Enabled, Clocked, Tokens
<1>4. NEn = 0 /\ NCl = 0 /\ IsFiniteSet(Enabled) /\ IsFiniteSet(Clocked)
  BY <1>3, FS_EmptySet DEF NEn, NCl
<1>5. PhyTyped /\ OneCalls
  BY <1>1, <1>2, <1>4 DEF PhyTyped, OneCalls
<1>6. Phase("none", 0, 0)
  BY DEF Phase, Referenced, Clocking
<1> QED
  BY <1>1, <1>2, <1>4, <1>5, <1>6, ShortLists DEF PhyStateInv

(* The calls begin, one at a time.                                         *)
LEMMA PhyCallKeeps ==
  ASSUME PHY_CONCURRENT = FALSE, PhyStateInv, NEW u \in PhyUsers, PhyEnable(u) \/ CommonClockEnable(u)
  PROVE  PhyStateInv'
<1> USE PhyFacts
<1>1. PICK st \in {EnableSteps, <<"common ref", "clocked">>} : PhyCall(u, st)
  BY DEF PhyEnable, CommonClockEnable
<1>2. /\ NoCalls /\ phyUser' = [phyUser EXCEPT ![u].steps = st] /\ UNCHANGED <<phy, phyClocks, rf>>
      /\ phyUser[u].steps = <<>>
  BY <1>1 DEF PhyCall, NoCalls
<1>3. st \in StepsLeft /\ NextOf(st) = "common ref"
  BY <1>1, ShortLists DEF EnableSteps
<1>4. Phase("none", NEn, NCl)
  BY <1>2, ShortLists DEF PhyStateInv
<1>5. PICK n, c : n = NEn /\ c = NCl
  OBVIOUS
<1>6. Phase("common ref", n, c)'
  BY <1>2, <1>4, <1>5 DEF Phase, Referenced, Clocking
<1> QED
  BY <1>2, <1>3, <1>5, <1>6, PhyStepOn

LEMMA PhyDisableKeeps ==
  ASSUME PHY_CONCURRENT = FALSE, PhyStateInv, NEW u \in PhyUsers, PhyDisable(u)
  PROVE  PhyStateInv'
<1> USE PhyFacts
<1>1. /\ NoCalls /\ phyUser[u].enabled > 0 /\ phyUser[u].steps = <<>> /\ UNCHANGED <<phy, phyClocks, rf>>
      /\ phyUser' = [phyUser EXCEPT ![u].steps = <<"drop">>, ![u].enabled = @ - 1]
  BY DEF PhyDisable, NoCalls
<1>0. <<"drop">> \in StepsLeft /\ NextOf(<<"drop">>) = "drop"
  BY ShortLists, Zenon
<1>2a. PICK r : r = [phyUser[u] EXCEPT !.steps = <<"drop">>, !.enabled = @ - 1]
  OBVIOUS
<1>2. r \in UseRec /\ r.enabled = phyUser[u].enabled - 1 /\ r.clocked = phyUser[u].clocked /\ r.steps = <<"drop">>
  <2>1. phyUser[u].enabled > 0 => phyUser[u].enabled - 1 \in Nat
    OBVIOUS
  <2>2. phyUser[u].clocked > 0 => phyUser[u].clocked - 1 \in Nat
    OBVIOUS
  <2> QED
    BY <1>0, <1>1, <1>2a, <2>1, <2>2 DEF UseRec
<1>3. phyUser' = [phyUser EXCEPT ![u] = r]
  BY <1>1, <1>2a
<1>4. IsFiniteSet(Enabled') /\ NEn = NEn' + 1 /\ NEn' \in Nat /\ IsFiniteSet(Clocked') /\ NCl' = NCl
  BY <1>2, <1>3, EnabledMoves
<1>5. PICK n \in Nat, c \in Nat : n = NEn' /\ c = NCl
  BY <1>4
<1>6. Phase("none", n + 1, c)
  BY <1>1, <1>4, <1>5, ShortLists DEF PhyStateInv
<1>7. Phase("drop", n, c)'
  BY <1>1, <1>5, <1>6 DEF Phase, Referenced, Clocking
<1> QED
  BY ZenonT(60), <1>0, <1>1, <1>2, <1>3, <1>4, <1>5, <1>7, PhyStep

LEMMA ClockDisableKeeps ==
  ASSUME PHY_CONCURRENT = FALSE, PhyStateInv, NEW u \in PhyUsers, CommonClockDisable(u)
  PROVE  PhyStateInv'
<1> USE PhyFacts
<1>1. /\ NoCalls /\ phyUser[u].clocked > 0 /\ phyUser[u].steps = <<>> /\ UNCHANGED <<phy, phyClocks, rf>>
      /\ phyUser' = [phyUser EXCEPT ![u].steps = <<"common unref">>, ![u].clocked = @ - 1]
  BY DEF CommonClockDisable, NoCalls
<1>0. <<"common unref">> \in StepsLeft /\ NextOf(<<"common unref">>) = "common unref"
  BY ShortLists, Zenon
<1>2a. PICK r : r = [phyUser[u] EXCEPT !.steps = <<"common unref">>, !.clocked = @ - 1]
  OBVIOUS
<1>2. r \in UseRec /\ r.enabled = phyUser[u].enabled /\ r.clocked = phyUser[u].clocked - 1 /\ r.steps = <<"common unref">>
  <2>1. phyUser[u].enabled > 0 => phyUser[u].enabled - 1 \in Nat
    OBVIOUS
  <2>2. phyUser[u].clocked > 0 => phyUser[u].clocked - 1 \in Nat
    OBVIOUS
  <2> QED
    BY <1>0, <1>1, <1>2a, <2>1, <2>2 DEF UseRec
<1>3. phyUser' = [phyUser EXCEPT ![u] = r]
  BY <1>1, <1>2a
<1>4. IsFiniteSet(Enabled') /\ NEn = NEn' /\ IsFiniteSet(Clocked') /\ NCl = NCl' + 1 /\ NCl' \in Nat
  BY <1>2, <1>3, ClockedMoves
<1>5. PICK n \in Nat, c \in Nat : n = NEn /\ c = NCl'
  BY <1>4
<1>6. Phase("none", n, c + 1)
  BY <1>1, <1>4, <1>5, ShortLists DEF PhyStateInv
<1>7. Phase("common unref", n, c)'
  <2>1. phy.refs = n /\ phy.common >= c + 1 /\ (n > 0 => phy.common >= c + 2) /\ phy.common \in Nat
    BY <1>5, <1>6 DEF Phase, Referenced
  <2>2. phy.common >= c /\ (n > 0 => phy.common >= c + 1)
    BY <2>1
  <2>3. /\ n > 0 => phy.registered /\ rf.open /\ "wifi" \in phyClocks
        /\ phy.common > 0 => "common" \in phyClocks
    BY <1>6 DEF Phase
  <2>4. "common unref" \notin Referenced /\ "common unref" \in Clocking
    BY DEF Referenced, Clocking
  <2> QED
    BY <1>1, <2>1, <2>2, <2>3, <2>4 DEF Phase
<1> QED
  BY ZenonT(60), <1>0, <1>1, <1>2, <1>3, <1>4, <1>5, <1>7, PhyStep


(* One step of the call in progress.                                       *)
LEMMA UserStepKeeps ==
  ASSUME PhyStateInv, NEW u \in PhyUsers, UserStep(u)
  PROVE  PhyStateInv'
<1> USE PhyFacts
<1>0. PICK st, s, rest, n, c : st = phyUser[u].steps /\ s = Head(st) /\ rest = Tail(st) /\ n = NEn /\ c = NCl
  OBVIOUS
<1>1. st \in StepsLeft /\ st # <<>> /\ n \in Nat /\ c \in Nat /\ NextOf(st) = s /\ phyUser[u].steps # <<>>
  BY <1>0 DEF UserStep, NextOf
<1>2. Phase(s, n, c)
  BY <1>0, <1>1 DEF PhyStateInv
<1> USE DEF Referenced, Clocking
<1>3. CASE s = "common ref"
  <2>1. /\ phy' = [phy EXCEPT !.common = @ + 1] /\ UNCHANGED <<phyClocks, rf>>
        /\ phyUser' = [phyUser EXCEPT ![u].steps = (IF phy.common = 0 THEN <<"common on">> ELSE <<>>) \o rest]
    BY <1>0, <1>3 DEF UserStep
  <2>2. /\ phy' \in [refs : Nat, common : Nat, registered : BOOLEAN] /\ phy'.common = phy.common + 1
        /\ phy'.refs = phy.refs /\ phy'.registered = phy.registered
    <3>1. phy.common + 1 \in Nat
      OBVIOUS
    <3> QED
      BY <2>1, <3>1
  <2>3. CASE phy.common = 0
    <3>1. <<"common on">> \o rest \in StepsLeft /\ NextOf(<<"common on">> \o rest) = "common on"
      BY <1>0, <1>1, <1>3, TailsLeft
    <3>2. Phase("common on", n, c)'
      <4>0. phy.refs = n /\ phy.common >= c /\ (n > 0 => phy.common >= c + 1)
        <5>1. s \notin Referenced
          BY <1>3
        <5> HIDE DEF Referenced, Clocking
        <5> QED
          BY <1>2, <5>1 DEF Phase
      <4>1. phy.refs = n /\ c = 0 /\ n = 0 /\ ~(n > 0)
        BY <1>1, <4>0, <2>3
      <4>2. /\ phy'.refs = n /\ phy'.common = 1 /\ phy'.common >= c /\ phy'.common >= c + 1
        BY <4>1, <2>2, <2>3
      <4>3. "common on" \in Clocking /\ "common on" \notin Referenced
        OBVIOUS
      <4> HIDE DEF Referenced, Clocking
      <4> QED
        BY <4>1, <4>2, <4>3, <2>1, <2>2 DEF Phase
    <3> QED
      BY <1>0, <1>1, <2>1, <2>2, <2>3, <3>1, <3>2, PhyStepOn
  <2>4. CASE phy.common # 0
    <3>1. <<>> \o rest \in StepsLeft /\ NextOf(<<>> \o rest) \in {"wifi on", "clocked"}
      BY <1>0, <1>1, <1>3, TailsLeft
    <3>2. \A h \in {"wifi on", "clocked"} : Phase(h, n, c)'
      <4>1. phy.refs = n /\ phy.common >= c /\ (n > 0 => phy.common >= c + 1) /\ phy.common > 0
        <5>1. s \notin Referenced
          BY <1>3
        <5>2. phy.common > 0
          BY <2>4
        <5> HIDE DEF Referenced, Clocking
        <5> QED
          BY <1>2, <5>1, <5>2 DEF Phase
      <4>2. phy'.refs = n /\ phy'.common >= c + 1 /\ (n > 0 => phy'.common >= c + 2) /\ phy'.common >= c
            /\ (n > 0 => phy'.common >= c + 1)
        BY <4>1, <2>2, <1>1
      <4>3. "common" \in phyClocks /\ (n > 0 => phy.registered /\ rf.open /\ "wifi" \in phyClocks)
        BY <1>2, <1>3, <4>1 DEF Phase
      <4>4. \A h \in {"wifi on", "clocked"} : h \in Clocking /\ h \notin Referenced /\ h # "common on"
        OBVIOUS
      <4> HIDE DEF Referenced, Clocking
      <4> QED
        BY <4>2, <4>3, <4>4, <2>1, <2>2 DEF Phase
    <3> QED
      BY <1>0, <1>1, <2>1, <2>2, <2>4, <3>1, <3>2, PhyStepOn
  <2> QED
    BY <2>3, <2>4
<1>4. CASE s = "common unref"
  <2>1. /\ phy' = [phy EXCEPT !.common = IF @ = 0 THEN 0 ELSE @ - 1] /\ UNCHANGED <<phyClocks, rf>>
        /\ phyUser' = [phyUser EXCEPT ![u].steps =
                        (IF phy.common > 0 /\ phy.common = 1 THEN <<"common off">> ELSE <<>>) \o rest]
    BY <1>0, <1>4 DEF UserStep, LastCommon
  <2>0. /\ phy.refs = n /\ phy.common >= c + 1 /\ (n > 0 => phy.common >= c + 2)
        /\ phy.common > 0 => "common" \in phyClocks
        /\ n > 0 => phy.registered /\ rf.open /\ "wifi" \in phyClocks
    BY <1>2, <1>4 DEF Phase
  <2>2. phy.common >= 1
    BY <1>1, <2>0
  <2>3. /\ phy' \in [refs : Nat, common : Nat, registered : BOOLEAN] /\ phy'.common = phy.common - 1
        /\ phy'.refs = phy.refs /\ phy'.registered = phy.registered
    <3>1. phy.common - 1 \in Nat /\ phy.common # 0
      BY <2>2
    <3>2. phy' = [phy EXCEPT !.common = phy.common - 1]
      BY <2>1, <3>1
    <3> QED
      BY <3>1, <3>2
  <2>4. <<>> \o rest = <<>> /\ <<"common off">> \o rest = <<"common off">>
    BY <1>0, <1>1, <1>4, TailsLeft
  <2>5. <<>> \in StepsLeft /\ <<"common off">> \in StepsLeft /\ NextOf(<<>>) = "none" /\ NextOf(<<"common off">>) = "common off"
    BY ShortLists, Zenon
  <2>6. CASE phy.common = 1
    <3>1. Phase("common off", n, c)'
      <4>1. /\ phy'.refs = n /\ phy'.common = 0 /\ ~(n > 0) /\ phy'.common >= c /\ ~(phy'.common > 0)
        BY <1>1, <2>0, <2>3, <2>6
      <4>2. "common off" \notin Clocking /\ "common off" \notin Referenced
        OBVIOUS
      <4> HIDE DEF Referenced, Clocking
      <4> QED
        BY <4>1, <4>2 DEF Phase
    <3>2. phyUser' = [phyUser EXCEPT ![u].steps = <<"common off">>]
      <4>1. (IF phy.common > 0 /\ phy.common = 1 THEN <<"common off">> ELSE <<>>) = <<"common off">>
        BY <2>6
      <4> QED
        BY <2>1, <2>4, <4>1
    <3> QED
      BY <1>0, <1>1, <2>1, <2>3, <2>5, <3>1, <3>2, PhyStepOn
  <2>7. CASE phy.common # 1
    <3>1. Phase("none", n, c)'
      <4>1. phy'.refs = n /\ phy'.common >= c /\ (n > 0 => phy'.common >= c + 1)
        BY <1>1, <2>0, <2>3
      <4>2. "none" \notin Clocking /\ "none" \notin Referenced
        OBVIOUS
      <4>3. "common" \in phyClocks /\ (n > 0 => phy.registered /\ rf.open /\ "wifi" \in phyClocks)
        BY <2>0, <2>2
      <4> HIDE DEF Referenced, Clocking
      <4> QED
        BY <4>1, <4>2, <4>3, <2>1, <2>3 DEF Phase
    <3>2. phyUser' = [phyUser EXCEPT ![u].steps = <<>>]
      <4>1. (IF phy.common > 0 /\ phy.common = 1 THEN <<"common off">> ELSE <<>>) = <<>>
        BY <2>7
      <4> QED
        BY <2>1, <2>4, <4>1
    <3> QED
      BY <1>0, <1>1, <2>1, <2>3, <2>5, <3>1, <3>2, PhyStepOn
  <2> QED
    BY <2>6, <2>7
<1>5. CASE s \in {"common on", "wifi on"}
  <2>1. /\ phyClocks' = phyClocks \cup {IF s = "wifi on" THEN "wifi" ELSE "common"}
        /\ phyUser' = [phyUser EXCEPT ![u].steps = rest] /\ UNCHANGED <<phy, rf>>
    BY <1>0, <1>5 DEF UserStep
  <2>2. PICK h : h = NextOf(rest) /\ rest \in StepsLeft /\ (s = "common on" => h \in {"wifi on", "clocked"})
                 /\ (s = "wifi on" => h = "ref")
    BY <1>0, <1>1, <1>5, TailsLeft
  <2>3. Phase(h, n, c)'
    BY <1>1, <1>2, <1>5, <2>1, <2>2 DEF Phase
  <2> QED
    BY <1>0, <1>1, <2>1, <2>2, <2>3, PhyStepOn
<1>6. CASE s \in {"common off", "wifi off"}
  <2>1. /\ phyClocks' = phyClocks \ {IF s = "wifi off" THEN "wifi" ELSE "common"}
        /\ phyUser' = [phyUser EXCEPT ![u].steps = rest] /\ UNCHANGED <<phy, rf>>
    BY <1>0, <1>6 DEF UserStep
  <2>2. PICK h : h = NextOf(rest) /\ rest \in StepsLeft /\ (s = "wifi off" => h = "common unref")
                 /\ (s = "common off" => h = "none")
    <3>1. CASE s = "common off"
      <4>1. rest = <<>>
        BY <1>0, <1>1, <3>1, TailsLeft
      <4>2. NextOf(<<>>) = "none" /\ <<>> \in StepsLeft
        BY ShortLists, Zenon
      <4> QED
        BY <3>1, <4>1, <4>2
    <3>2. CASE s = "wifi off"
      BY <1>0, <1>1, <3>2, TailsLeft
    <3> QED
      BY <1>6, <3>1, <3>2
  <2>3. Phase(h, n, c)'
    <3>1. CASE s = "common off"
      <4>1. h = "none" /\ "wifi" \in phyClocks' <=> "wifi" \in phyClocks
        BY <2>1, <2>2, <3>1
      <4>0. /\ phy.refs = n /\ phy.common >= c /\ (n > 0 => phy.common >= c + 1) /\ phy.common = 0
        <5>1. s \notin Referenced
          BY <3>1
        <5> HIDE DEF Referenced, Clocking
        <5> QED
          BY <1>2, <3>1, <5>1 DEF Phase
      <4>2. phy.refs = n /\ ~(n > 0) /\ phy.common >= c /\ ~(phy.common > 0)
        BY <1>1, <4>0
      <4>3. h = "none" /\ h \notin Clocking /\ h \notin Referenced
        BY <2>2, <3>1
      <4> HIDE DEF Referenced, Clocking
      <4> QED
        BY <4>2, <4>3, <2>1 DEF Phase
    <3>2. CASE s = "wifi off"
      <4>1. /\ n = 0 /\ phy.refs = n /\ phy.common >= c + 1 /\ phy.common >= c
            /\ phy.common > 0 => "common" \in phyClocks
        BY <1>1, <1>2, <3>2 DEF Phase
      <4>2. "common" \in phyClocks' /\ ~(n > 0)
        <5>1. phy.common > 0 /\ ~(n > 0)
          BY <4>1, <1>1
        <5>2. phyClocks' = phyClocks \ {"wifi"}
          BY <2>1, <3>2
        <5> QED
          BY <5>1, <5>2, <4>1
      <4>3. h = "common unref" /\ h \in Clocking /\ h \notin Referenced
        BY <2>2, <3>2
      <4> HIDE DEF Referenced, Clocking
      <4> QED
        BY <1>1, <4>1, <4>2, <4>3, <2>1 DEF Phase
    <3> QED
      BY <1>6, <3>1, <3>2
  <2> QED
    BY <1>0, <1>1, <2>1, <2>2, <2>3, PhyStepOn
<1>7. CASE s = "ref"
  <2>1. /\ phy' = [phy EXCEPT !.refs = @ + 1] /\ UNCHANGED <<phyClocks, rf>>
        /\ phyUser' = [phyUser EXCEPT ![u].steps = <<IF phy.registered THEN "wakeup" ELSE "register">>]
    BY <1>0, <1>7 DEF UserStep
  <2>2. /\ phy' \in [refs : Nat, common : Nat, registered : BOOLEAN] /\ phy'.common = phy.common
        /\ phy'.refs = phy.refs + 1 /\ phy'.registered = phy.registered
    BY <2>1
  <2>3. PICK h, w : h = (IF phy.registered THEN "wakeup" ELSE "register") /\ w = <<h>>
    OBVIOUS
  <2>4. w \in StepsLeft /\ NextOf(w) = h
    <3>1. h = "wakeup" \/ h = "register"
      BY <2>3
    <3>2. <<"wakeup">> \in StepsLeft /\ <<"register">> \in StepsLeft
      BY ShortLists, Zenon
    <3> QED
      BY <2>3, <3>1, <3>2, Ends1, Zenon
  <2>5. Phase(h, n, c)'
    BY <1>1, <1>2, <1>7, <2>1, <2>2, <2>3 DEF Phase
  <2> QED
    BY <1>0, <1>1, <2>1, <2>2, <2>3, <2>4, <2>5, PhyStepOn
<1>8. CASE s = "wakeup"
  <2>1. /\ rf' = [rf EXCEPT !.open = TRUE] /\ phyUser' = [phyUser EXCEPT ![u].steps = <<"enabled">>]
        /\ UNCHANGED <<phy, phyClocks>>
    BY <1>0, <1>8 DEF UserStep
  <2>2. rf' \in [open : BOOLEAN, registrations : Nat] /\ rf'.open
    BY <2>1
  <2>3. <<"enabled">> \in StepsLeft /\ NextOf(<<"enabled">>) = "enabled"
    BY ShortLists, Zenon
  <2>4. Phase("enabled", n, c)'
    BY <1>1, <1>2, <1>8, <2>1, <2>2 DEF Phase
  <2> QED
    BY <1>0, <1>1, <2>1, <2>2, <2>3, <2>4, PhyStepOn
<1>9. CASE s = "register"
  <2>1. /\ UNCHANGED <<phy, phyClocks>>
        /\ \/ /\ rf' = [open |-> TRUE, registrations |-> rf.registrations + 1]
              /\ phyUser' = [phyUser EXCEPT ![u].steps = <<"registered", "enabled">>]
           \/ rf' = rf /\ phyUser' = [phyUser EXCEPT ![u].steps = <<"unref", "wifi off", "common unref">>]
    BY <1>0, <1>9 DEF UserStep, UndoSteps
  <2>2. /\ <<"registered", "enabled">> \in StepsLeft /\ NextOf(<<"registered", "enabled">>) = "registered"
        /\ <<"unref", "wifi off", "common unref">> \in StepsLeft
        /\ NextOf(<<"unref", "wifi off", "common unref">>) = "unref"
    BY ShortLists, Zenon
  <2>3. CASE rf' = rf
    <3>2. Phase("unref", n, c)'
      BY <1>1, <1>2, <1>9, <2>1, <2>3 DEF Phase
    <3>3. CASE phyUser' = [phyUser EXCEPT ![u].steps = <<"unref", "wifi off", "common unref">>]
      BY <1>0, <1>1, <2>1, <2>2, <2>3, <3>2, <3>3, PhyStepOn
    <3>4. CASE rf' = [open |-> TRUE, registrations |-> rf.registrations + 1]
      BY <2>3, <3>4
    <3> QED
      BY <2>1, <3>3, <3>4
  <2>4. CASE /\ rf' = [open |-> TRUE, registrations |-> rf.registrations + 1]
             /\ phyUser' = [phyUser EXCEPT ![u].steps = <<"registered", "enabled">>]
    <3>1. rf' \in [open : BOOLEAN, registrations : Nat] /\ rf'.open
      BY <2>4
    <3>2. Phase("registered", n, c)'
      BY <1>1, <1>2, <1>9, <2>1, <3>1 DEF Phase
    <3> QED
      BY <1>0, <1>1, <2>1, <2>2, <2>4, <3>1, <3>2, PhyStepOn
  <2> QED
    BY <2>1, <2>3, <2>4
<1>10. CASE s = "registered"
  <2>1. /\ phy' = [phy EXCEPT !.registered = TRUE] /\ phyUser' = [phyUser EXCEPT ![u].steps = rest]
        /\ UNCHANGED <<phyClocks, rf>>
    BY <1>0, <1>10 DEF UserStep
  <2>2. /\ phy' \in [refs : Nat, common : Nat, registered : BOOLEAN] /\ phy'.registered
        /\ phy'.refs = phy.refs /\ phy'.common = phy.common
    BY <2>1
  <2>3. rest \in StepsLeft /\ NextOf(rest) = "enabled"
    BY <1>0, <1>1, <1>10, TailsLeft
  <2>4. Phase("enabled", n, c)'
    BY <1>1, <1>2, <1>10, <2>1, <2>2 DEF Phase
  <2> QED
    BY <1>0, <1>1, <2>1, <2>2, <2>3, <2>4, PhyStepOn
<1>11. CASE s \in {"unref", "drop"}
  <2>1. /\ phy' = [phy EXCEPT !.refs = IF @ = 0 THEN 0 ELSE @ - 1] /\ UNCHANGED <<phyClocks, rf>>
        /\ s = "unref" => phyUser' = [phyUser EXCEPT ![u].steps = rest]
        /\ s = "drop" => phyUser' = [phyUser EXCEPT ![u].steps =
                           IF phy.refs <= 1 THEN <<"close", "wifi off", "common unref">> ELSE <<>>]
    BY <1>0, <1>11 DEF UserStep
  <2>2. phy.refs = n + 1
    BY <1>2, <1>11 DEF Phase
  <2>3. /\ phy' \in [refs : Nat, common : Nat, registered : BOOLEAN] /\ phy'.refs = n
        /\ phy'.registered = phy.registered /\ phy'.common = phy.common
    <3>0. phy.refs # 0 /\ phy.refs - 1 = n
      BY <2>2, <1>1
    <3>1. phy' = [phy EXCEPT !.refs = n]
      <4>1. phy' = [phy EXCEPT !.refs = phy.refs - 1]
        BY <2>1, <3>0
      <4> QED
        BY <3>0, <4>1
    <3> QED
      BY <1>1, <3>1
  <2>4. CASE s = "unref"
    <3>1. rest \in StepsLeft /\ NextOf(rest) = "wifi off"
      BY <1>0, <1>1, <2>4, TailsLeft
    <3>2. Phase("wifi off", n, c)'
      BY <1>1, <1>2, <2>4, <2>1, <2>3 DEF Phase
    <3> QED
      BY <1>0, <1>1, <2>1, <2>3, <2>4, <3>1, <3>2, PhyStepOn
  <2>5. CASE s = "drop"
    <3>1. /\ <<"close", "wifi off", "common unref">> \in StepsLeft /\ <<>> \in StepsLeft
          /\ NextOf(<<"close", "wifi off", "common unref">>) = "close" /\ NextOf(<<>>) = "none"
      BY ShortLists, Zenon
    <3>2. CASE phy.refs <= 1
      <4>1. n = 0
        BY <2>2, <3>2, <1>1
      <4>2. Phase("close", n, c)'
        <5>1. /\ phy.common >= c + 1 /\ phy.common >= c
              /\ phy.common > 0 => "common" \in phyClocks
          BY <1>1, <1>2, <2>5 DEF Phase
        <5>3. "common" \in phyClocks /\ ~(n > 0)
          BY <1>1, <5>1, <4>1
        <5>2. "close" \in Clocking /\ "close" \notin Referenced
          OBVIOUS
        <5> HIDE DEF Referenced, Clocking
        <5> QED
          BY <5>1, <5>2, <5>3, <2>1, <2>3, <4>1 DEF Phase
      <4> QED
        BY <1>0, <1>1, <2>1, <2>3, <2>5, <3>1, <3>2, <4>2, PhyStepOn
    <3>3. CASE ~(phy.refs <= 1)
      <4>1. n > 0
        BY <2>2, <3>3, <1>1
      <4>2. Phase("none", n, c)'
        <5>1. /\ phy.common >= c + 1 /\ phy.common >= c
              /\ phy.common > 0 => "common" \in phyClocks
              /\ phy.registered /\ rf.open /\ "wifi" \in phyClocks
          BY <1>1, <1>2, <2>5 DEF Phase
        <5>2. "none" \notin Clocking /\ "none" \notin Referenced
          OBVIOUS
        <5> HIDE DEF Referenced, Clocking
        <5> QED
          BY <1>1, <5>1, <5>2, <2>1, <2>3, <4>1 DEF Phase
      <4> QED
        BY <1>0, <1>1, <2>1, <2>3, <2>5, <3>1, <3>3, <4>2, PhyStepOn
    <3> QED
      BY <3>2, <3>3
  <2> QED
    BY <1>11, <2>4, <2>5
<1>12. CASE s = "close"
  <2>1. /\ rf' = [rf EXCEPT !.open = FALSE] /\ phyUser' = [phyUser EXCEPT ![u].steps = rest]
        /\ UNCHANGED <<phy, phyClocks>>
    BY <1>0, <1>12 DEF UserStep
  <2>2. rf' \in [open : BOOLEAN, registrations : Nat]
    BY <2>1
  <2>3. rest \in StepsLeft /\ NextOf(rest) = "wifi off"
    BY <1>0, <1>1, <1>12, TailsLeft
  <2>4. Phase("wifi off", n, c)'
    BY <1>1, <1>2, <1>12, <2>1 DEF Phase
  <2> QED
    BY <1>0, <1>1, <2>1, <2>2, <2>3, <2>4, PhyStepOn
<1>13. CASE s \in {"enabled", "clocked"}
  <2>1. /\ phyUser' = [phyUser EXCEPT ![u].steps = rest,
                         ![u].enabled = IF s = "enabled" THEN @ + 1 ELSE @,
                         ![u].clocked = IF s = "clocked" THEN @ + 1 ELSE @]
        /\ UNCHANGED <<phy, phyClocks, rf>>
    BY <1>0, <1>13 DEF UserStep
  <2>2. rest = <<>> /\ <<>> \in StepsLeft /\ NextOf(<<>>) = "none"
    BY <1>0, <1>1, <1>13, TailsLeft, ShortLists
  <2>3. PICK r : r = [phyUser[u] EXCEPT !.steps = <<>>, !.enabled = IF s = "enabled" THEN @ + 1 ELSE @,
                                        !.clocked = IF s = "clocked" THEN @ + 1 ELSE @]
    OBVIOUS
  <2>4. phyUser' = [phyUser EXCEPT ![u] = r]
    BY <2>1, <2>2, <2>3
  <2>5. CASE s = "enabled"
    <3>0. r = [phyUser[u] EXCEPT !.steps = <<>>, !.enabled = phyUser[u].enabled + 1, !.clocked = phyUser[u].clocked]
      BY <2>3, <2>5
    <3>1a. phyUser[u].enabled + 1 \in Nat
      OBVIOUS
    <3>1. r \in UseRec /\ r.steps = <<>> /\ r.enabled = phyUser[u].enabled + 1 /\ r.clocked = phyUser[u].clocked
      BY <2>2, <3>0, <3>1a DEF UseRec
    <3>2. IsFiniteSet(Clocked') /\ NCl' = c /\ IsFiniteSet(Enabled') /\ NEn' = n + 1
      BY <1>0, <2>4, <3>1, EnabledMoves
    <3>3. PICK k \in Nat : k = n + 1 /\ k > 0
      BY <1>1
    <3>4. Phase("none", k, c)'
      <4>1. /\ phy.refs = k /\ phy.common >= c + 1 /\ phy.common >= c /\ phy.common > 0
            /\ phy.common > 0 => "common" \in phyClocks
            /\ phy.registered /\ rf.open /\ "wifi" \in phyClocks
        BY <1>1, <1>2, <2>5, <3>3 DEF Phase
      <4>2. "none" \notin Clocking /\ "none" \notin Referenced
        OBVIOUS
      <4> HIDE DEF Referenced, Clocking
      <4> QED
        BY <4>1, <4>2, <2>1 DEF Phase
    <3>5. NEn' = k /\ NextOf(r.steps) = "none"
      BY <2>2, <3>1, <3>2, <3>3
    <3> QED
      BY ZenonT(60), <1>1, <2>1, <2>4, <3>1, <3>2, <3>4, <3>5, PhyStep
  <2>6. CASE s = "clocked"
    <3>0. r = [phyUser[u] EXCEPT !.steps = <<>>, !.enabled = phyUser[u].enabled, !.clocked = phyUser[u].clocked + 1]
      BY <2>3, <2>6
    <3>1a. phyUser[u].clocked + 1 \in Nat
      OBVIOUS
    <3>1. r \in UseRec /\ r.steps = <<>> /\ r.enabled = phyUser[u].enabled /\ r.clocked = phyUser[u].clocked + 1
      BY <2>2, <3>0, <3>1a DEF UseRec
    <3>2. IsFiniteSet(Clocked') /\ NCl' = c + 1 /\ IsFiniteSet(Enabled') /\ NEn' = n
      BY <1>0, <2>4, <3>1, ClockedMoves
    <3>3. PICK k \in Nat : k = c + 1
      BY <1>1
    <3>4. Phase("none", n, k)'
      <4>1. /\ phy.refs = n /\ phy.common >= k /\ (n > 0 => phy.common >= k + 1) /\ phy.common > 0
            /\ phy.common > 0 => "common" \in phyClocks
            /\ n > 0 => phy.registered /\ rf.open /\ "wifi" \in phyClocks
        BY <1>1, <1>2, <2>6, <3>3 DEF Phase
      <4>2. "none" \notin Clocking /\ "none" \notin Referenced
        OBVIOUS
      <4> HIDE DEF Referenced, Clocking
      <4> QED
        BY <4>1, <4>2, <2>1 DEF Phase
    <3>5. NCl' = k /\ NextOf(r.steps) = "none"
      BY <2>2, <3>1, <3>2, <3>3
    <3> QED
      BY ZenonT(60), <1>1, <2>1, <2>4, <3>1, <3>2, <3>4, <3>5, PhyStep
  <2> QED
    BY <1>13, <2>5, <2>6
<1> QED
  BY <1>0, <1>1, <1>3, <1>4, <1>5, <1>6, <1>7, <1>8, <1>9, <1>10, <1>11, <1>12, <1>13, TailsLeft

(* Steps of the critical section leave the references alone.               *)
LEMMA PhyStateQuiet == ASSUME PhyStateInv, UNCHANGED phyStateVars PROVE PhyStateInv'
<1> USE DEF phyStateVars
<1>1. Enabled' = Enabled /\ Clocked' = Clocked
  BY DEF Enabled, Clocked
<1>2. NEn' = NEn /\ NCl' = NCl
  BY <1>1 DEF NEn, NCl
<1>3. PhyTyped' /\ OneCalls' /\ (NoCalls' <=> NoCalls)
  BY <1>1 DEF PhyStateInv, PhyTyped, OneCalls, NoCalls
<1>4. ASSUME NEW u \in PhyUsers, phyUser[u].steps # <<>> \/ NoCalls PROVE Phase(NextOf(phyUser[u].steps), NEn, NCl)'
  <2>1. PICK h, n, c : h = NextOf(phyUser[u].steps) /\ n = NEn /\ c = NCl
    OBVIOUS
  <2>2. Phase(h, n, c)
    BY <1>4, <2>1 DEF PhyStateInv
  <2>3. Phase(h, n, c)'
    BY <2>2 DEF Phase
  <2> QED
    BY <2>1, <2>3, <1>2
<1> QED
  BY <1>3, <1>4 DEF PhyStateInv

(* Who holds a reference is counted.                                       *)
LEMMA HeldCounts ==
  ASSUME PhyStateInv, NEW u \in PhyUsers
  PROVE  (phyUser[u].enabled > 0 => NEn > 0) /\ (phyUser[u].clocked > 0 => NCl > 0)
<1> USE PhyFacts
<1>1. ASSUME phyUser[u].enabled > 0 PROVE NEn > 0
  <2>1. <<u, 1>> \in Enabled
    BY <1>1 DEF Enabled, Tokens
  <2>2. NEn # 0
    BY <2>1, FS_EmptySet DEF NEn
  <2> QED
    BY <2>2
<1>2. ASSUME phyUser[u].clocked > 0 PROVE NCl > 0
  <2>1. <<u, 1>> \in Clocked
    BY <1>2 DEF Clocked, Tokens
  <2>2. NCl # 0
    BY <2>1, FS_EmptySet DEF NCl
  <2> QED
    BY <2>2
<1> QED
  BY <1>1, <1>2

LEMMA PhyHeldFrom == ASSUME PHY_CONCURRENT = FALSE, PhyStateInv PROVE PhyHeld
<1> SUFFICES ASSUME NEW u \in PhyUsers, NoCalls
             PROVE  /\ phyUser[u].enabled > 0 => rf.open /\ {"wifi", "common"} \subseteq phyClocks
                    /\ phyUser[u].clocked > 0 => "common" \in phyClocks
  BY DEF PhyHeld, NoCalls
<1> USE PhyFacts
<1>1. PICK n \in Nat, c \in Nat : n = NEn /\ c = NCl
  OBVIOUS
<1>2. phyUser[u].steps = <<>> /\ NextOf(<<>>) = "none"
  BY ShortLists DEF NoCalls
<1>3. Phase("none", n, c)
  BY <1>1, <1>2 DEF PhyStateInv
<1>4. /\ n > 0 => rf.open /\ "wifi" \in phyClocks
      /\ phy.common >= c /\ (n > 0 => phy.common >= c + 1)
      /\ phy.common > 0 => "common" \in phyClocks
  BY <1>3 DEF Phase
<1>5. (n > 0 => phy.common > 0) /\ (c > 0 => phy.common > 0)
  BY <1>4
<1> QED
  BY <1>1, <1>4, <1>5, HeldCounts

(* The critical section.  The index a user read is its core's; one user is *)
(* inside on a masked core, whose count is that user's nesting; the saved  *)
(* state of a masked core is the unmasked one.                             *)
AtRec == [core : PhyCores, pc : {"out", "read", "in"}, seen : PhyCores, nest : Nat]
CsTyped ==
  /\ phyAt \in [PhyUsers -> AtRec] /\ phyMask \in [PhyCores -> BOOLEAN]
  /\ phySaved \in [PhyCores -> BOOLEAN] /\ phyDepth \in [PhyCores -> Nat]
CsUser(u) ==
  /\ phyAt[u].pc = "out" => phyAt[u].nest = 0
  /\ phyAt[u].pc = "in" => phyAt[u].nest > 0
  /\ phyAt[u].pc = "read" => phyAt[u].seen = phyAt[u].core
  /\ phyAt[u].nest > 0 => phyMask[phyAt[u].core] /\ phyDepth[phyAt[u].core] = phyAt[u].nest
CsAlone == \A u, v \in PhyUsers : phyAt[u].nest > 0 /\ phyAt[v].nest > 0 /\ phyAt[u].core = phyAt[v].core => u = v
CsCore(c) ==
  /\ phyMask[c] => phySaved[c] /\ \E u \in PhyUsers : phyAt[u].core = c /\ phyAt[u].nest > 0
  /\ ~phyMask[c] => phyDepth[c] = 0
CsInv == CsTyped /\ (\A u \in PhyUsers : CsUser(u)) /\ CsAlone /\ (\A c \in PhyCores : CsCore(c))

LEMMA CsBegins == PhyInit => CsInv
  BY PhyAssumption DEF PhyInit, CsInv, CsTyped, CsUser, CsAlone, CsCore, AtRec

LEMMA CsFacts ==
  ASSUME CsInv, NEW u \in PhyUsers
  PROVE  /\ phyAt[u] \in AtRec /\ phyAt[u].core \in PhyCores /\ phyAt[u].seen \in PhyCores /\ phyAt[u].nest \in Nat
         /\ phyAt[u].pc \in {"out", "read", "in"} /\ phyDepth[phyAt[u].core] \in Nat
         /\ phyMask[phyAt[u].core] \in BOOLEAN /\ phySaved[phyAt[u].core] \in BOOLEAN
  BY DEF CsInv, CsTyped, AtRec

(* A step of u that leaves it at r, on its own core.                       *)
LEMMA ReadCoreKeeps ==
  ASSUME CsInv, NEW u \in PhyUsers, ReadCore(u)
  PROVE  CsInv'
<1> USE CsFacts
<1>0. PICK r : r = [phyAt[u] EXCEPT !.pc = "read", !.seen = phyAt[u].core]
  OBVIOUS
<1>1. r \in AtRec /\ r.pc = "read" /\ r.seen = r.core /\ r.core = phyAt[u].core /\ r.nest = phyAt[u].nest
  BY <1>0 DEF AtRec
<1>2. phyAt' = [phyAt EXCEPT ![u] = r] /\ UNCHANGED <<phyDepth, phySaved, phyMask>>
  BY <1>0 DEF ReadCore
<1>3. phyAt' \in [PhyUsers -> AtRec] /\ phyAt'[u] = r /\ \A v \in PhyUsers : v # u => phyAt'[v] = phyAt[v]
  BY <1>1, <1>2 DEF CsInv, CsTyped
<1>4. \A v \in PhyUsers : phyAt'[v].core = phyAt[v].core /\ phyAt'[v].nest = phyAt[v].nest
  BY <1>1, <1>3
<1>5. CsTyped'
  BY <1>2, <1>3 DEF CsInv, CsTyped
<1>6. ASSUME NEW v \in PhyUsers PROVE CsUser(v)'
  BY <1>1, <1>2, <1>3, <1>4 DEF CsInv, CsUser
<1>7. CsAlone'
  BY <1>4 DEF CsInv, CsAlone
<1>8. ASSUME NEW c \in PhyCores PROVE CsCore(c)'
  BY <1>2, <1>4 DEF CsInv, CsCore
<1> QED
  BY <1>5, <1>6, <1>7, <1>8 DEF CsInv

LEMMA MigrateKeeps ==
  ASSUME PHY_RACE = FALSE, CsInv, NEW u \in PhyUsers, NEW d \in PhyCores, Migrate(u, d)
  PROVE  CsInv'
<1> USE CsFacts
<1>0. PICK r : r = [phyAt[u] EXCEPT !.core = d]
  OBVIOUS
<1>1. r \in AtRec /\ r.pc = phyAt[u].pc /\ r.core = d /\ r.nest = phyAt[u].nest
  BY <1>0 DEF AtRec
<1>2. phyAt' = [phyAt EXCEPT ![u] = r] /\ UNCHANGED <<phyDepth, phySaved, phyMask>>
  BY <1>0 DEF Migrate
<1>3. phyAt' \in [PhyUsers -> AtRec] /\ phyAt'[u] = r /\ \A v \in PhyUsers : v # u => phyAt'[v] = phyAt[v]
  BY <1>1, <1>2 DEF CsInv, CsTyped
<1>4. phyAt[u].pc # "read" /\ ~(phyAt[u].nest > 0)
  BY DEF Migrate, CsInv, CsUser
<1>5. CsTyped'
  BY <1>2, <1>3 DEF CsInv, CsTyped
<1>6. ASSUME NEW v \in PhyUsers PROVE CsUser(v)'
  <2>1. CASE v = u
    BY <1>1, <1>2, <1>3, <1>4, <2>1 DEF CsInv, CsUser
  <2>2. CASE v # u
    BY <1>2, <1>3, <2>2 DEF CsInv, CsUser
  <2> QED
    BY <2>1, <2>2
<1>7. CsAlone'
  BY <1>1, <1>3, <1>4 DEF CsInv, CsAlone
<1>8. ASSUME NEW c \in PhyCores PROVE CsCore(c)'
  <2>1. \A v \in PhyUsers : phyAt[v].core = c /\ phyAt[v].nest > 0 => phyAt'[v].core = c /\ phyAt'[v].nest > 0
    BY <1>3, <1>4
  <2> QED
    BY <1>2, <2>1 DEF CsInv, CsCore
<1> QED
  BY <1>5, <1>6, <1>7, <1>8 DEF CsInv

LEMMA PhyEnterKeeps ==
  ASSUME CsInv, NEW u \in PhyUsers, PhyEnter(u)
  PROVE  CsInv'
<1> USE CsFacts
<1>0. PICK r, c, n : /\ r = [phyAt[u] EXCEPT !.pc = "in", !.nest = @ + 1] /\ c = phyAt[u].core
                     /\ n = phyAt[u].nest
  OBVIOUS
<1>1a. n + 1 \in Nat /\ n + 1 > 0 /\ n \in Nat /\ c \in PhyCores
  BY <1>0
<1>1. r \in AtRec /\ r.pc = "in" /\ r.core = c /\ r.nest = n + 1
  BY <1>0, <1>1a DEF AtRec
<1>2. /\ phyAt[u].seen = c /\ (phyMask[c] => n > 0)
      /\ phyAt' = [phyAt EXCEPT ![u] = r]
  BY <1>0 DEF PhyEnter, PhyRuns, CsInv, CsUser
<1>3. phyAt' \in [PhyUsers -> AtRec] /\ phyAt'[u] = r /\ \A v \in PhyUsers : v # u => phyAt'[v] = phyAt[v]
  BY <1>1, <1>2 DEF CsInv, CsTyped
<1>4. phyDepth[c] = n /\ (phyMask[c] <=> n > 0)
  <2>1. phyMask[c] => phyDepth[c] = n
    BY <1>0, <1>2 DEF CsInv, CsUser
  <2>2. ~phyMask[c] => phyDepth[c] = 0 /\ n = 0
    <3>1. n > 0 => phyMask[c]
      BY <1>0 DEF CsInv, CsUser
    <3> QED
      BY <3>1, <1>1a DEF CsInv, CsCore
  <2>3. n > 0 => phyMask[c]
    BY <1>0 DEF CsInv, CsUser
  <2> QED
    BY <2>1, <2>2, <2>3, <1>2
<1>5. /\ phyMask' \in [PhyCores -> BOOLEAN] /\ phyMask'[c] /\ \A d \in PhyCores : d # c => phyMask'[d] = phyMask[d]
      /\ phyDepth' \in [PhyCores -> Nat] /\ phyDepth'[c] = n + 1
      /\ \A d \in PhyCores : d # c => phyDepth'[d] = phyDepth[d]
  BY <1>0, <1>1a, <1>2, <1>4 DEF PhyEnter, CsInv, CsTyped
<1>6. phySaved' \in [PhyCores -> BOOLEAN] /\ phySaved'[c] /\ \A d \in PhyCores : d # c => phySaved'[d] = phySaved[d]
  <2>1. CASE phyDepth[c] = 0
    <3>1. phySaved' = [phySaved EXCEPT ![c] = ~phyMask[c]] /\ ~phyMask[c]
      BY <1>0, <1>1a, <1>2, <1>4, <2>1 DEF PhyEnter
    <3> QED
      BY <1>1a, <3>1 DEF CsInv, CsTyped
  <2>2. CASE phyDepth[c] # 0
    <3>1. phySaved' = phySaved /\ phyMask[c]
      BY <1>0, <1>1a, <1>2, <1>4, <2>2 DEF PhyEnter
    <3> QED
      BY <1>1a, <3>1 DEF CsInv, CsTyped, CsCore
  <2> QED
    BY <2>1, <2>2
<1>7. \A v \in PhyUsers : v # u /\ phyAt[v].nest > 0 => phyAt[v].core # c
  <2> SUFFICES ASSUME NEW v \in PhyUsers, v # u, phyAt[v].nest > 0, phyAt[v].core = c PROVE FALSE
    OBVIOUS
  <2>1. phyMask[c] /\ n > 0
    BY <1>2 DEF CsInv, CsUser
  <2> QED
    BY <1>0, <2>1 DEF CsInv, CsAlone
<1>8. CsTyped'
  BY <1>3, <1>5, <1>6 DEF CsTyped
<1>9. ASSUME NEW v \in PhyUsers PROVE CsUser(v)'
  <2>1. CASE v = u
    BY <1>1, <1>1a, <1>3, <1>5, <2>1 DEF CsUser
  <2>2. CASE v # u
    <3>1. phyAt'[v] = phyAt[v] /\ CsUser(v) /\ phyAt[v].core \in PhyCores
      BY <1>3, <2>2 DEF CsInv
    <3>2. phyAt[v].nest > 0 => phyMask'[phyAt[v].core] /\ phyDepth'[phyAt[v].core] = phyAt[v].nest
      BY <1>5, <1>7, <2>2, <3>1 DEF CsUser
    <3> QED
      BY <3>1, <3>2 DEF CsUser
  <2> QED
    BY <2>1, <2>2
<1>10. CsAlone'
  <2> SUFFICES ASSUME NEW v \in PhyUsers, NEW w \in PhyUsers, phyAt'[v].nest > 0, phyAt'[w].nest > 0,
                      phyAt'[v].core = phyAt'[w].core, v # w
               PROVE  FALSE
    BY DEF CsAlone
  <2>1. v # u /\ w # u
    BY <1>1, <1>3, <1>7
  <2> QED
    BY <1>3, <2>1 DEF CsInv, CsAlone
<1>11. ASSUME NEW d \in PhyCores PROVE CsCore(d)'
  <2>1. CASE d = c
    BY <1>1, <1>1a, <1>3, <1>5, <1>6, <2>1 DEF CsCore
  <2>2. CASE d # c
    <3>1. \A v \in PhyUsers : phyAt[v].core = d => phyAt'[v] = phyAt[v]
      BY <1>0, <1>3, <2>2
    <3> QED
      BY <1>5, <1>6, <2>2, <3>1 DEF CsInv, CsCore
  <2> QED
    BY <2>1, <2>2
<1> QED
  BY <1>8, <1>9, <1>10, <1>11 DEF CsInv

LEMMA PhyExitKeeps ==
  ASSUME CsInv, NEW u \in PhyUsers, PhyExit(u)
  PROVE  CsInv'
<1> USE CsFacts
<1>0. PICK r, c, n, pc : /\ r = [phyAt[u] EXCEPT !.nest = @ - 1, !.pc = pc] /\ c = phyAt[u].core
                         /\ n = phyAt[u].nest /\ pc = (IF phyAt[u].nest = 1 THEN "out" ELSE "in")
  OBVIOUS
<1>1a. /\ n \in Nat /\ n > 0 /\ n - 1 \in Nat /\ c \in PhyCores /\ pc \in {"out", "read", "in"} /\ phyMask[c]
       /\ phyDepth[c] = n /\ (n = 1 => pc = "out") /\ (n # 1 => pc = "in") /\ (n # 1 => n - 1 > 0)
  <2>1. n \in Nat /\ n > 0 /\ c \in PhyCores /\ phyMask[c] /\ phyDepth[c] = n
    BY <1>0 DEF PhyExit, CsInv, CsUser
  <2>2. n - 1 \in Nat /\ (n # 1 => n - 1 > 0)
    BY <2>1
  <2> QED
    BY <1>0, <2>1, <2>2
<1>1. r \in AtRec /\ r.pc = pc /\ r.core = c /\ r.nest = n - 1
  BY <1>0, <1>1a DEF AtRec
<1>2. phyAt' = [phyAt EXCEPT ![u] = r] /\ phySaved' = phySaved
  BY <1>0 DEF PhyExit
<1>3. phyAt' \in [PhyUsers -> AtRec] /\ phyAt'[u] = r /\ \A v \in PhyUsers : v # u => phyAt'[v] = phyAt[v]
  BY <1>1, <1>2 DEF CsInv, CsTyped
<1>4. /\ phyDepth' \in [PhyCores -> Nat] /\ phyDepth'[c] = n - 1
      /\ \A d \in PhyCores : d # c => phyDepth'[d] = phyDepth[d]
  <2>1. phyDepth' = [phyDepth EXCEPT ![c] = n - 1]
    BY <1>0, <1>1a DEF PhyExit
  <2> QED
    BY <2>1, <1>1a DEF CsInv, CsTyped
<1>5. /\ phyMask' \in [PhyCores -> BOOLEAN] /\ (phyMask'[c] <=> n # 1)
      /\ \A d \in PhyCores : d # c => phyMask'[d] = phyMask[d]
  <2>1. CASE n = 1
    <3>1. phyMask' = [phyMask EXCEPT ![c] = ~phySaved[c]] /\ phySaved[c]
      BY <1>0, <1>1a, <2>1 DEF PhyExit, CsInv, CsCore
    <3> QED
      BY <1>1a, <2>1, <3>1 DEF CsInv, CsTyped
  <2>2. CASE n # 1
    <3>1. phyMask' = phyMask
      BY <1>0, <1>1a, <2>2 DEF PhyExit
    <3> QED
      BY <1>1a, <2>2, <3>1 DEF CsInv, CsTyped
  <2> QED
    BY <2>1, <2>2
<1>7. \A v \in PhyUsers : v # u /\ phyAt[v].nest > 0 => phyAt[v].core # c
  BY <1>0, <1>1a DEF CsInv, CsAlone
<1>8. CsTyped'
  BY <1>2, <1>3, <1>4, <1>5 DEF CsTyped, CsInv
<1>9. ASSUME NEW v \in PhyUsers PROVE CsUser(v)'
  <2>1. CASE v = u
    <3>1. CASE n = 1
      <4>1. n - 1 = 0 /\ ~(n - 1 > 0)
        BY <3>1
      <4> QED
        BY <1>1, <1>1a, <1>3, <2>1, <3>1, <4>1 DEF CsUser
    <3>2. CASE n # 1
      BY <1>1, <1>1a, <1>3, <1>4, <1>5, <2>1, <3>2 DEF CsUser
    <3> QED
      BY <3>1, <3>2
  <2>2. CASE v # u
    <3>1. phyAt'[v] = phyAt[v] /\ CsUser(v) /\ phyAt[v].core \in PhyCores
      BY <1>3, <2>2 DEF CsInv
    <3>2. phyAt[v].nest > 0 => phyMask'[phyAt[v].core] /\ phyDepth'[phyAt[v].core] = phyAt[v].nest
      BY <1>4, <1>5, <1>7, <2>2, <3>1 DEF CsUser
    <3> QED
      BY <3>1, <3>2 DEF CsUser
  <2> QED
    BY <2>1, <2>2
<1>10. CsAlone'
  <2> SUFFICES ASSUME NEW v \in PhyUsers, NEW w \in PhyUsers, phyAt'[v].nest > 0, phyAt'[w].nest > 0,
                      phyAt'[v].core = phyAt'[w].core, v # w
               PROVE  FALSE
    BY DEF CsAlone
  <2>1. v # u /\ w # u
    BY <1>1, <1>3, <1>7
  <2> QED
    BY <1>3, <2>1 DEF CsInv, CsAlone
<1>11. ASSUME NEW d \in PhyCores PROVE CsCore(d)'
  <2>1. CASE d = c
    <3>1. CASE n = 1
      BY <1>4, <1>5, <2>1, <3>1 DEF CsCore
    <3>2. CASE n # 1
      <4>1. phyMask'[d] /\ phySaved'[d] /\ phyAt'[u].core = d /\ phyAt'[u].nest > 0
        BY <1>1, <1>1a, <1>2, <1>3, <1>5, <2>1, <3>2 DEF CsInv, CsCore
      <4> QED
        BY <4>1 DEF CsCore
    <3> QED
      BY <3>1, <3>2
  <2>2. CASE d # c
    <3>1. \A v \in PhyUsers : phyAt[v].core = d => phyAt'[v] = phyAt[v]
      BY <1>0, <1>3, <2>2
    <3> QED
      BY <1>2, <1>4, <1>5, <2>2, <3>1 DEF CsInv, CsCore
  <2> QED
    BY <2>1, <2>2
<1> QED
  BY <1>8, <1>9, <1>10, <1>11 DEF CsInv

(* While one task at a time calls enable and disable, and no task is moved
   between reading its core's number and masking: whoever holds the PHY or
   the shared clocks has them, whatever registrations fail and however the
   calls follow one another, and interrupts are masked on the core of a
   user that is inside the critical section and on no other (phy.rs;
   adapter.rs, phy_enter_critical and phy_exit_critical), for any users,
   cores, calls and nesting. *)
THEOREM PhyIsRight ==
  ASSUME PHY_CONCURRENT = FALSE, PHY_RACE = FALSE
  PROVE  PhySpec => []PhyRight
<1>1. PhyInit => PhyStateInv /\ CsInv
  BY PhyStateBegins, CsBegins
<1>2. PhyStateInv /\ CsInv /\ [PhyNext]_phyVars => PhyStateInv' /\ CsInv'
  <2> SUFFICES ASSUME PhyStateInv, CsInv, [PhyNext]_phyVars PROVE PhyStateInv' /\ CsInv'
    OBVIOUS
  <2>1. ASSUME UNCHANGED phyCsVars PROVE CsInv'
    BY <2>1 DEF phyCsVars, CsInv, CsTyped, CsUser, CsAlone, CsCore
  <2>2. CASE PhyStateNext /\ UNCHANGED phyCsVars
    <3>1. PhyStateInv'
      BY <2>2, PhyCallKeeps, PhyDisableKeeps, ClockDisableKeeps, UserStepKeeps DEF PhyStateNext
    <3> QED
      BY <2>1, <2>2, <3>1
  <2>3. CASE PhyCsNext /\ UNCHANGED phyStateVars
    <3>1. CsInv'
      BY <2>3, ReadCoreKeeps, PhyEnterKeeps, PhyExitKeeps, MigrateKeeps DEF PhyCsNext
    <3> QED
      BY <2>3, <3>1, PhyStateQuiet
  <2>4. CASE UNCHANGED phyVars
    BY <2>1, <2>4, PhyStateQuiet DEF phyVars
  <2> QED
    BY <2>2, <2>3, <2>4 DEF PhyNext
<1>3. PhyStateInv /\ CsInv => PhyRight
  <2>1. CsInv => PhyMasked
    BY DEF CsInv, CsUser, CsCore, PhyMasked
  <2> QED
    BY <2>1, PhyHeldFrom DEF PhyRight
<1> QED
  BY <1>1, <1>2, <1>3, PTL DEF PhySpec

(***************************************************************************)
(* What the radio's operating-system table makes on the heap.              *)
(***************************************************************************)

(* What is left of an entry, at every point of one: its next step and its  *)
(* last tell which entry it is.                                            *)
OsiLeft ==
  {<<>>, <<"heap_alloc", "note_alloc">>, <<"note_alloc">>, <<"note_free", "heap_free">>, <<"heap_free">>,
   <<"storage", "box", "name">>, <<"box", "name">>, <<"name">>, <<"box">>,
   <<"storage", "box", "name", "wrap">>, <<"box", "name", "wrap">>, <<"name", "wrap">>, <<"wrap">>,
   <<"box", "name", "store">>, <<"name", "store">>, <<"store">>, <<"unbox">>,
   <<"unbox", "drop_storage">>, <<"drop_storage">>, <<"unwrap", "unbox", "drop_storage">>,
   <<"unbox", "end">>, <<"end">>}
LastOf(st) == IF st = <<>> THEN "none" ELSE st[Len(st)]

LEMMA Osi1 ==
  ASSUME NEW a
  PROVE  /\ NextOf(<<a>>) = a /\ LastOf(<<a>>) = a /\ Tail(<<a>>) = <<>>
         /\ <<a>> # <<>> /\ Len(<<a>>) = 1 /\ Head(<<a>>) = a
  BY DEF NextOf, LastOf
LEMMA Osi2 ==
  ASSUME NEW a, NEW b
  PROVE  /\ NextOf(<<a, b>>) = a /\ LastOf(<<a, b>>) = b /\ Tail(<<a, b>>) = <<b>>
         /\ <<a, b>> # <<>> /\ Len(<<a, b>>) = 2 /\ Head(<<a, b>>) = a
  BY DEF NextOf, LastOf
LEMMA Osi3 ==
  ASSUME NEW a, NEW b, NEW c
  PROVE  /\ NextOf(<<a, b, c>>) = a /\ LastOf(<<a, b, c>>) = c /\ Tail(<<a, b, c>>) = <<b, c>>
         /\ <<a, b, c>> # <<>> /\ Len(<<a, b, c>>) = 3 /\ Head(<<a, b, c>>) = a
  BY DEF NextOf, LastOf
LEMMA Osi4 ==
  ASSUME NEW a, NEW b, NEW c, NEW d
  PROVE  /\ NextOf(<<a, b, c, d>>) = a /\ LastOf(<<a, b, c, d>>) = d /\ Tail(<<a, b, c, d>>) = <<b, c, d>>
         /\ <<a, b, c, d>> # <<>> /\ Len(<<a, b, c, d>>) = 4 /\ Head(<<a, b, c, d>>) = a
  BY DEF NextOf, LastOf

(* The steps, and which list follows each.                                 *)
LEMMA OsiLists ==
  ASSUME NEW st \in OsiLeft, st # <<>>, NEW h, NEW l, NEW rest, h = NextOf(st), l = LastOf(st), rest = Tail(st)
  PROVE  /\ rest \in OsiLeft /\ Head(st) = h /\ (h = l <=> Len(st) = 1) /\ (h # l => LastOf(rest) = l)
         /\ h \in {"heap_alloc", "note_alloc", "note_free", "heap_free", "storage", "box", "name", "wrap", "store",
                   "unbox", "unwrap", "drop_storage", "end"}
         /\ h = "heap_alloc" => l = "note_alloc" /\ NextOf(rest) = "note_alloc"
         /\ h = "note_free" => l = "heap_free" /\ NextOf(rest) = "heap_free"
         /\ h = "storage" => l \in {"name", "wrap"} /\ NextOf(rest) = "box"
         /\ h = "box" => l \in {"box", "name", "wrap", "store"} /\ (l # "box" => NextOf(rest) = "name")
         /\ h = "name" => l \in {"name", "wrap", "store"} /\ (l # "name" => NextOf(rest) = l)
         /\ h = "unbox" => l \in {"unbox", "drop_storage", "end"} /\ (l # "unbox" => NextOf(rest) = l)
         /\ h = "unwrap" => l = "drop_storage" /\ NextOf(rest) = "unbox"
         /\ h \in {"note_alloc", "heap_free", "wrap", "store", "drop_storage", "end"} => l = h
<1>1. CASE st = <<"heap_alloc", "note_alloc">>
  <2>0. h = "heap_alloc" /\ l = "note_alloc" /\ Len(st) = 2 /\ Head(st) = h /\ rest = <<"note_alloc">>
    <3>1. PICK a, b : a = "heap_alloc" /\ b = "note_alloc"
      OBVIOUS
    <3>2. st = <<a, b>>
      BY <1>1, <3>1
    <3>3. h = a /\ l = b /\ rest = <<b>> /\ Len(st) = 2 /\ Head(st) = a
      BY <3>2, Osi2
    <3> QED
      BY <3>1, <3>3
  <2>1. rest = <<"note_alloc">>
    BY <2>0
  <2>1a. h = "heap_alloc" /\ l = "note_alloc" /\ Len(st) = 2 /\ Head(st) = h
    BY <2>0, Zenon
  <2>2. NextOf(rest) = "note_alloc" /\ LastOf(rest) = "note_alloc"
    <3>1. PICK a : a = "note_alloc"
      OBVIOUS
    <3>2. rest = <<a>>
      BY <2>1, <3>1
    <3>3. NextOf(<<a>>) = a /\ LastOf(<<a>>) = a
      BY Osi1
    <3> QED
      BY <3>1, <3>2, <3>3
  <2>3. rest \in OsiLeft
    BY <2>1, Zenon DEF OsiLeft
  <2>4. h = "heap_alloc" /\ l = "note_alloc" /\ Head(st) = h /\ (h = l <=> Len(st) = 1)
    BY <2>1a
  <2> QED
    BY <2>3, <2>2, <2>4
<1>2. CASE st = <<"note_alloc">>
  <2>0. h = "note_alloc" /\ l = "note_alloc" /\ Len(st) = 1 /\ Head(st) = h /\ rest = <<>>
    <3>1. PICK a : a = "note_alloc"
      OBVIOUS
    <3>2. st = <<a>>
      BY <1>2, <3>1
    <3>3. h = a /\ l = a /\ rest = <<>> /\ Len(st) = 1 /\ Head(st) = a
      BY <3>2, Osi1
    <3> QED
      BY <3>1, <3>3
  <2>1. rest = <<>>
    BY <2>0
  <2>1a. h = "note_alloc" /\ l = "note_alloc" /\ Len(st) = 1 /\ Head(st) = h
    BY <2>0, Zenon
  <2>3. rest \in OsiLeft
    BY <2>1, Zenon DEF OsiLeft
  <2>4. h = "note_alloc" /\ l = "note_alloc" /\ Head(st) = h /\ (h = l <=> Len(st) = 1)
    BY <2>1a
  <2> QED
    BY <2>3, <2>4
<1>3. CASE st = <<"note_free", "heap_free">>
  <2>0. h = "note_free" /\ l = "heap_free" /\ Len(st) = 2 /\ Head(st) = h /\ rest = <<"heap_free">>
    <3>1. PICK a, b : a = "note_free" /\ b = "heap_free"
      OBVIOUS
    <3>2. st = <<a, b>>
      BY <1>3, <3>1
    <3>3. h = a /\ l = b /\ rest = <<b>> /\ Len(st) = 2 /\ Head(st) = a
      BY <3>2, Osi2
    <3> QED
      BY <3>1, <3>3
  <2>1. rest = <<"heap_free">>
    BY <2>0
  <2>1a. h = "note_free" /\ l = "heap_free" /\ Len(st) = 2 /\ Head(st) = h
    BY <2>0, Zenon
  <2>2. NextOf(rest) = "heap_free" /\ LastOf(rest) = "heap_free"
    <3>1. PICK a : a = "heap_free"
      OBVIOUS
    <3>2. rest = <<a>>
      BY <2>1, <3>1
    <3>3. NextOf(<<a>>) = a /\ LastOf(<<a>>) = a
      BY Osi1
    <3> QED
      BY <3>1, <3>2, <3>3
  <2>3. rest \in OsiLeft
    BY <2>1, Zenon DEF OsiLeft
  <2>4. h = "note_free" /\ l = "heap_free" /\ Head(st) = h /\ (h = l <=> Len(st) = 1)
    BY <2>1a
  <2> QED
    BY <2>3, <2>2, <2>4
<1>4. CASE st = <<"heap_free">>
  <2>0. h = "heap_free" /\ l = "heap_free" /\ Len(st) = 1 /\ Head(st) = h /\ rest = <<>>
    <3>1. PICK a : a = "heap_free"
      OBVIOUS
    <3>2. st = <<a>>
      BY <1>4, <3>1
    <3>3. h = a /\ l = a /\ rest = <<>> /\ Len(st) = 1 /\ Head(st) = a
      BY <3>2, Osi1
    <3> QED
      BY <3>1, <3>3
  <2>1. rest = <<>>
    BY <2>0
  <2>1a. h = "heap_free" /\ l = "heap_free" /\ Len(st) = 1 /\ Head(st) = h
    BY <2>0, Zenon
  <2>3. rest \in OsiLeft
    BY <2>1, Zenon DEF OsiLeft
  <2>4. h = "heap_free" /\ l = "heap_free" /\ Head(st) = h /\ (h = l <=> Len(st) = 1)
    BY <2>1a
  <2> QED
    BY <2>3, <2>4
<1>5. CASE st = <<"storage", "box", "name">>
  <2>0. h = "storage" /\ l = "name" /\ Len(st) = 3 /\ Head(st) = h /\ rest = <<"box", "name">>
    <3>1. PICK a, b, c : a = "storage" /\ b = "box" /\ c = "name"
      OBVIOUS
    <3>2. st = <<a, b, c>>
      BY <1>5, <3>1
    <3>3. h = a /\ l = c /\ rest = <<b, c>> /\ Len(st) = 3 /\ Head(st) = a
      BY <3>2, Osi3
    <3> QED
      BY <3>1, <3>3
  <2>1. rest = <<"box", "name">>
    BY <2>0
  <2>1a. h = "storage" /\ l = "name" /\ Len(st) = 3 /\ Head(st) = h
    BY <2>0, Zenon
  <2>2. NextOf(rest) = "box" /\ LastOf(rest) = "name"
    <3>1. PICK a, b : a = "box" /\ b = "name"
      OBVIOUS
    <3>2. rest = <<a, b>>
      BY <2>1, <3>1
    <3>3. NextOf(<<a, b>>) = a /\ LastOf(<<a, b>>) = b
      BY Osi2
    <3> QED
      BY <3>1, <3>2, <3>3
  <2>3. rest \in OsiLeft
    BY <2>1, Zenon DEF OsiLeft
  <2>4. h = "storage" /\ l = "name" /\ Head(st) = h /\ (h = l <=> Len(st) = 1)
    BY <2>1a
  <2> QED
    BY <2>3, <2>2, <2>4
<1>6. CASE st = <<"box", "name">>
  <2>0. h = "box" /\ l = "name" /\ Len(st) = 2 /\ Head(st) = h /\ rest = <<"name">>
    <3>1. PICK a, b : a = "box" /\ b = "name"
      OBVIOUS
    <3>2. st = <<a, b>>
      BY <1>6, <3>1
    <3>3. h = a /\ l = b /\ rest = <<b>> /\ Len(st) = 2 /\ Head(st) = a
      BY <3>2, Osi2
    <3> QED
      BY <3>1, <3>3
  <2>1. rest = <<"name">>
    BY <2>0
  <2>1a. h = "box" /\ l = "name" /\ Len(st) = 2 /\ Head(st) = h
    BY <2>0, Zenon
  <2>2. NextOf(rest) = "name" /\ LastOf(rest) = "name"
    <3>1. PICK a : a = "name"
      OBVIOUS
    <3>2. rest = <<a>>
      BY <2>1, <3>1
    <3>3. NextOf(<<a>>) = a /\ LastOf(<<a>>) = a
      BY Osi1
    <3> QED
      BY <3>1, <3>2, <3>3
  <2>3. rest \in OsiLeft
    BY <2>1, Zenon DEF OsiLeft
  <2>4. h = "box" /\ l = "name" /\ Head(st) = h /\ (h = l <=> Len(st) = 1)
    BY <2>1a
  <2> QED
    BY <2>3, <2>2, <2>4
<1>7. CASE st = <<"name">>
  <2>0. h = "name" /\ l = "name" /\ Len(st) = 1 /\ Head(st) = h /\ rest = <<>>
    <3>1. PICK a : a = "name"
      OBVIOUS
    <3>2. st = <<a>>
      BY <1>7, <3>1
    <3>3. h = a /\ l = a /\ rest = <<>> /\ Len(st) = 1 /\ Head(st) = a
      BY <3>2, Osi1
    <3> QED
      BY <3>1, <3>3
  <2>1. rest = <<>>
    BY <2>0
  <2>1a. h = "name" /\ l = "name" /\ Len(st) = 1 /\ Head(st) = h
    BY <2>0, Zenon
  <2>3. rest \in OsiLeft
    BY <2>1, Zenon DEF OsiLeft
  <2>4. h = "name" /\ l = "name" /\ Head(st) = h /\ (h = l <=> Len(st) = 1)
    BY <2>1a
  <2> QED
    BY <2>3, <2>4
<1>8. CASE st = <<"box">>
  <2>0. h = "box" /\ l = "box" /\ Len(st) = 1 /\ Head(st) = h /\ rest = <<>>
    <3>1. PICK a : a = "box"
      OBVIOUS
    <3>2. st = <<a>>
      BY <1>8, <3>1
    <3>3. h = a /\ l = a /\ rest = <<>> /\ Len(st) = 1 /\ Head(st) = a
      BY <3>2, Osi1
    <3> QED
      BY <3>1, <3>3
  <2>1. rest = <<>>
    BY <2>0
  <2>1a. h = "box" /\ l = "box" /\ Len(st) = 1 /\ Head(st) = h
    BY <2>0, Zenon
  <2>3. rest \in OsiLeft
    BY <2>1, Zenon DEF OsiLeft
  <2>4. h = "box" /\ l = "box" /\ Head(st) = h /\ (h = l <=> Len(st) = 1)
    BY <2>1a
  <2> QED
    BY <2>3, <2>4
<1>9. CASE st = <<"storage", "box", "name", "wrap">>
  <2>0. h = "storage" /\ l = "wrap" /\ Len(st) = 4 /\ Head(st) = h /\ rest = <<"box", "name", "wrap">>
    <3>1. PICK a, b, c, d : a = "storage" /\ b = "box" /\ c = "name" /\ d = "wrap"
      OBVIOUS
    <3>2. st = <<a, b, c, d>>
      BY <1>9, <3>1
    <3>3. h = a /\ l = d /\ rest = <<b, c, d>> /\ Len(st) = 4 /\ Head(st) = a
      BY <3>2, Osi4
    <3> QED
      BY <3>1, <3>3
  <2>1. rest = <<"box", "name", "wrap">>
    BY <2>0
  <2>1a. h = "storage" /\ l = "wrap" /\ Len(st) = 4 /\ Head(st) = h
    BY <2>0, Zenon
  <2>2. NextOf(rest) = "box" /\ LastOf(rest) = "wrap"
    <3>1. PICK a, b, c : a = "box" /\ b = "name" /\ c = "wrap"
      OBVIOUS
    <3>2. rest = <<a, b, c>>
      BY <2>1, <3>1
    <3>3. NextOf(<<a, b, c>>) = a /\ LastOf(<<a, b, c>>) = c
      BY ZenonT(60), Osi3
    <3> QED
      BY <3>1, <3>2, <3>3
  <2>3. rest \in OsiLeft
    BY <2>1, Zenon DEF OsiLeft
  <2>4. h = "storage" /\ l = "wrap" /\ Head(st) = h /\ (h = l <=> Len(st) = 1)
    BY <2>1a
  <2> QED
    BY <2>3, <2>2, <2>4
<1>10. CASE st = <<"box", "name", "wrap">>
  <2>0. h = "box" /\ l = "wrap" /\ Len(st) = 3 /\ Head(st) = h /\ rest = <<"name", "wrap">>
    <3>1. PICK a, b, c : a = "box" /\ b = "name" /\ c = "wrap"
      OBVIOUS
    <3>2. st = <<a, b, c>>
      BY <1>10, <3>1
    <3>3. h = a /\ l = c /\ rest = <<b, c>> /\ Len(st) = 3 /\ Head(st) = a
      BY <3>2, Osi3
    <3> QED
      BY <3>1, <3>3
  <2>1. rest = <<"name", "wrap">>
    BY <2>0
  <2>1a. h = "box" /\ l = "wrap" /\ Len(st) = 3 /\ Head(st) = h
    BY <2>0, Zenon
  <2>2. NextOf(rest) = "name" /\ LastOf(rest) = "wrap"
    <3>1. PICK a, b : a = "name" /\ b = "wrap"
      OBVIOUS
    <3>2. rest = <<a, b>>
      BY <2>1, <3>1
    <3>3. NextOf(<<a, b>>) = a /\ LastOf(<<a, b>>) = b
      BY Osi2
    <3> QED
      BY <3>1, <3>2, <3>3
  <2>3. rest \in OsiLeft
    BY <2>1, Zenon DEF OsiLeft
  <2>4. h = "box" /\ l = "wrap" /\ Head(st) = h /\ (h = l <=> Len(st) = 1)
    BY <2>1a
  <2> QED
    BY <2>3, <2>2, <2>4
<1>11. CASE st = <<"name", "wrap">>
  <2>0. h = "name" /\ l = "wrap" /\ Len(st) = 2 /\ Head(st) = h /\ rest = <<"wrap">>
    <3>1. PICK a, b : a = "name" /\ b = "wrap"
      OBVIOUS
    <3>2. st = <<a, b>>
      BY <1>11, <3>1
    <3>3. h = a /\ l = b /\ rest = <<b>> /\ Len(st) = 2 /\ Head(st) = a
      BY <3>2, Osi2
    <3> QED
      BY <3>1, <3>3
  <2>1. rest = <<"wrap">>
    BY <2>0
  <2>1a. h = "name" /\ l = "wrap" /\ Len(st) = 2 /\ Head(st) = h
    BY <2>0, Zenon
  <2>2. NextOf(rest) = "wrap" /\ LastOf(rest) = "wrap"
    <3>1. PICK a : a = "wrap"
      OBVIOUS
    <3>2. rest = <<a>>
      BY <2>1, <3>1
    <3>3. NextOf(<<a>>) = a /\ LastOf(<<a>>) = a
      BY Osi1
    <3> QED
      BY <3>1, <3>2, <3>3
  <2>3. rest \in OsiLeft
    BY <2>1, Zenon DEF OsiLeft
  <2>4. h = "name" /\ l = "wrap" /\ Head(st) = h /\ (h = l <=> Len(st) = 1)
    BY <2>1a
  <2> QED
    BY <2>3, <2>2, <2>4
<1>12. CASE st = <<"wrap">>
  <2>0. h = "wrap" /\ l = "wrap" /\ Len(st) = 1 /\ Head(st) = h /\ rest = <<>>
    <3>1. PICK a : a = "wrap"
      OBVIOUS
    <3>2. st = <<a>>
      BY <1>12, <3>1
    <3>3. h = a /\ l = a /\ rest = <<>> /\ Len(st) = 1 /\ Head(st) = a
      BY <3>2, Osi1
    <3> QED
      BY <3>1, <3>3
  <2>1. rest = <<>>
    BY <2>0
  <2>1a. h = "wrap" /\ l = "wrap" /\ Len(st) = 1 /\ Head(st) = h
    BY <2>0, Zenon
  <2>3. rest \in OsiLeft
    BY <2>1, Zenon DEF OsiLeft
  <2>4. h = "wrap" /\ l = "wrap" /\ Head(st) = h /\ (h = l <=> Len(st) = 1)
    BY <2>1a
  <2> QED
    BY <2>3, <2>4
<1>13. CASE st = <<"box", "name", "store">>
  <2>0. h = "box" /\ l = "store" /\ Len(st) = 3 /\ Head(st) = h /\ rest = <<"name", "store">>
    <3>1. PICK a, b, c : a = "box" /\ b = "name" /\ c = "store"
      OBVIOUS
    <3>2. st = <<a, b, c>>
      BY <1>13, <3>1
    <3>3. h = a /\ l = c /\ rest = <<b, c>> /\ Len(st) = 3 /\ Head(st) = a
      BY <3>2, Osi3
    <3> QED
      BY <3>1, <3>3
  <2>1. rest = <<"name", "store">>
    BY <2>0
  <2>1a. h = "box" /\ l = "store" /\ Len(st) = 3 /\ Head(st) = h
    BY <2>0, Zenon
  <2>2. NextOf(rest) = "name" /\ LastOf(rest) = "store"
    <3>1. PICK a, b : a = "name" /\ b = "store"
      OBVIOUS
    <3>2. rest = <<a, b>>
      BY <2>1, <3>1
    <3>3. NextOf(<<a, b>>) = a /\ LastOf(<<a, b>>) = b
      BY Osi2
    <3> QED
      BY <3>1, <3>2, <3>3
  <2>3. rest \in OsiLeft
    BY <2>1, Zenon DEF OsiLeft
  <2>4. h = "box" /\ l = "store" /\ Head(st) = h /\ (h = l <=> Len(st) = 1)
    BY <2>1a
  <2> QED
    BY <2>3, <2>2, <2>4
<1>14. CASE st = <<"name", "store">>
  <2>0. h = "name" /\ l = "store" /\ Len(st) = 2 /\ Head(st) = h /\ rest = <<"store">>
    <3>1. PICK a, b : a = "name" /\ b = "store"
      OBVIOUS
    <3>2. st = <<a, b>>
      BY <1>14, <3>1
    <3>3. h = a /\ l = b /\ rest = <<b>> /\ Len(st) = 2 /\ Head(st) = a
      BY <3>2, Osi2
    <3> QED
      BY <3>1, <3>3
  <2>1. rest = <<"store">>
    BY <2>0
  <2>1a. h = "name" /\ l = "store" /\ Len(st) = 2 /\ Head(st) = h
    BY <2>0, Zenon
  <2>2. NextOf(rest) = "store" /\ LastOf(rest) = "store"
    <3>1. PICK a : a = "store"
      OBVIOUS
    <3>2. rest = <<a>>
      BY <2>1, <3>1
    <3>3. NextOf(<<a>>) = a /\ LastOf(<<a>>) = a
      BY Osi1
    <3> QED
      BY <3>1, <3>2, <3>3
  <2>3. rest \in OsiLeft
    BY <2>1, Zenon DEF OsiLeft
  <2>4. h = "name" /\ l = "store" /\ Head(st) = h /\ (h = l <=> Len(st) = 1)
    BY <2>1a
  <2> QED
    BY <2>3, <2>2, <2>4
<1>15. CASE st = <<"store">>
  <2>0. h = "store" /\ l = "store" /\ Len(st) = 1 /\ Head(st) = h /\ rest = <<>>
    <3>1. PICK a : a = "store"
      OBVIOUS
    <3>2. st = <<a>>
      BY <1>15, <3>1
    <3>3. h = a /\ l = a /\ rest = <<>> /\ Len(st) = 1 /\ Head(st) = a
      BY <3>2, Osi1
    <3> QED
      BY <3>1, <3>3
  <2>1. rest = <<>>
    BY <2>0
  <2>1a. h = "store" /\ l = "store" /\ Len(st) = 1 /\ Head(st) = h
    BY <2>0, Zenon
  <2>3. rest \in OsiLeft
    BY <2>1, Zenon DEF OsiLeft
  <2>4. h = "store" /\ l = "store" /\ Head(st) = h /\ (h = l <=> Len(st) = 1)
    BY <2>1a
  <2> QED
    BY <2>3, <2>4
<1>16. CASE st = <<"unbox">>
  <2>0. h = "unbox" /\ l = "unbox" /\ Len(st) = 1 /\ Head(st) = h /\ rest = <<>>
    <3>1. PICK a : a = "unbox"
      OBVIOUS
    <3>2. st = <<a>>
      BY <1>16, <3>1
    <3>3. h = a /\ l = a /\ rest = <<>> /\ Len(st) = 1 /\ Head(st) = a
      BY <3>2, Osi1
    <3> QED
      BY <3>1, <3>3
  <2>1. rest = <<>>
    BY <2>0
  <2>1a. h = "unbox" /\ l = "unbox" /\ Len(st) = 1 /\ Head(st) = h
    BY <2>0, Zenon
  <2>3. rest \in OsiLeft
    BY <2>1, Zenon DEF OsiLeft
  <2>4. h = "unbox" /\ l = "unbox" /\ Head(st) = h /\ (h = l <=> Len(st) = 1)
    BY <2>1a
  <2> QED
    BY <2>3, <2>4
<1>17. CASE st = <<"unbox", "drop_storage">>
  <2>0. h = "unbox" /\ l = "drop_storage" /\ Len(st) = 2 /\ Head(st) = h /\ rest = <<"drop_storage">>
    <3>1. PICK a, b : a = "unbox" /\ b = "drop_storage"
      OBVIOUS
    <3>2. st = <<a, b>>
      BY <1>17, <3>1
    <3>3. h = a /\ l = b /\ rest = <<b>> /\ Len(st) = 2 /\ Head(st) = a
      BY <3>2, Osi2
    <3> QED
      BY <3>1, <3>3
  <2>1. rest = <<"drop_storage">>
    BY <2>0
  <2>1a. h = "unbox" /\ l = "drop_storage" /\ Len(st) = 2 /\ Head(st) = h
    BY <2>0, Zenon
  <2>2. NextOf(rest) = "drop_storage" /\ LastOf(rest) = "drop_storage"
    <3>1. PICK a : a = "drop_storage"
      OBVIOUS
    <3>2. rest = <<a>>
      BY <2>1, <3>1
    <3>3. NextOf(<<a>>) = a /\ LastOf(<<a>>) = a
      BY Osi1
    <3> QED
      BY <3>1, <3>2, <3>3
  <2>3. rest \in OsiLeft
    BY <2>1, Zenon DEF OsiLeft
  <2>4. h = "unbox" /\ l = "drop_storage" /\ Head(st) = h /\ (h = l <=> Len(st) = 1)
    BY <2>1a
  <2> QED
    BY <2>3, <2>2, <2>4
<1>18. CASE st = <<"drop_storage">>
  <2>0. h = "drop_storage" /\ l = "drop_storage" /\ Len(st) = 1 /\ Head(st) = h /\ rest = <<>>
    <3>1. PICK a : a = "drop_storage"
      OBVIOUS
    <3>2. st = <<a>>
      BY <1>18, <3>1
    <3>3. h = a /\ l = a /\ rest = <<>> /\ Len(st) = 1 /\ Head(st) = a
      BY <3>2, Osi1
    <3> QED
      BY <3>1, <3>3
  <2>1. rest = <<>>
    BY <2>0
  <2>1a. h = "drop_storage" /\ l = "drop_storage" /\ Len(st) = 1 /\ Head(st) = h
    BY <2>0, Zenon
  <2>3. rest \in OsiLeft
    BY <2>1, Zenon DEF OsiLeft
  <2>4. h = "drop_storage" /\ l = "drop_storage" /\ Head(st) = h /\ (h = l <=> Len(st) = 1)
    BY <2>1a
  <2> QED
    BY <2>3, <2>4
<1>19. CASE st = <<"unwrap", "unbox", "drop_storage">>
  <2>0. h = "unwrap" /\ l = "drop_storage" /\ Len(st) = 3 /\ Head(st) = h /\ rest = <<"unbox", "drop_storage">>
    <3>1. PICK a, b, c : a = "unwrap" /\ b = "unbox" /\ c = "drop_storage"
      OBVIOUS
    <3>2. st = <<a, b, c>>
      BY <1>19, <3>1
    <3>3. h = a /\ l = c /\ rest = <<b, c>> /\ Len(st) = 3 /\ Head(st) = a
      BY <3>2, Osi3
    <3> QED
      BY <3>1, <3>3
  <2>1. rest = <<"unbox", "drop_storage">>
    BY <2>0
  <2>1a. h = "unwrap" /\ l = "drop_storage" /\ Len(st) = 3 /\ Head(st) = h
    BY <2>0, Zenon
  <2>2. NextOf(rest) = "unbox" /\ LastOf(rest) = "drop_storage"
    <3>1. PICK a, b : a = "unbox" /\ b = "drop_storage"
      OBVIOUS
    <3>2. rest = <<a, b>>
      BY <2>1, <3>1
    <3>3. NextOf(<<a, b>>) = a /\ LastOf(<<a, b>>) = b
      BY Osi2
    <3> QED
      BY <3>1, <3>2, <3>3
  <2>3. rest \in OsiLeft
    BY <2>1, Zenon DEF OsiLeft
  <2>4. h = "unwrap" /\ l = "drop_storage" /\ Head(st) = h /\ (h = l <=> Len(st) = 1)
    BY <2>1a
  <2> QED
    BY <2>3, <2>2, <2>4
<1>20. CASE st = <<"unbox", "end">>
  <2>0. h = "unbox" /\ l = "end" /\ Len(st) = 2 /\ Head(st) = h /\ rest = <<"end">>
    <3>1. PICK a, b : a = "unbox" /\ b = "end"
      OBVIOUS
    <3>2. st = <<a, b>>
      BY <1>20, <3>1
    <3>3. h = a /\ l = b /\ rest = <<b>> /\ Len(st) = 2 /\ Head(st) = a
      BY <3>2, Osi2
    <3> QED
      BY <3>1, <3>3
  <2>1. rest = <<"end">>
    BY <2>0
  <2>1a. h = "unbox" /\ l = "end" /\ Len(st) = 2 /\ Head(st) = h
    BY <2>0, Zenon
  <2>2. NextOf(rest) = "end" /\ LastOf(rest) = "end"
    <3>1. PICK a : a = "end"
      OBVIOUS
    <3>2. rest = <<a>>
      BY <2>1, <3>1
    <3>3. NextOf(<<a>>) = a /\ LastOf(<<a>>) = a
      BY Osi1
    <3> QED
      BY <3>1, <3>2, <3>3
  <2>3. rest \in OsiLeft
    BY <2>1, Zenon DEF OsiLeft
  <2>4. h = "unbox" /\ l = "end" /\ Head(st) = h /\ (h = l <=> Len(st) = 1)
    BY <2>1a
  <2> QED
    BY <2>3, <2>2, <2>4
<1>21. CASE st = <<"end">>
  <2>0. h = "end" /\ l = "end" /\ Len(st) = 1 /\ Head(st) = h /\ rest = <<>>
    <3>1. PICK a : a = "end"
      OBVIOUS
    <3>2. st = <<a>>
      BY <1>21, <3>1
    <3>3. h = a /\ l = a /\ rest = <<>> /\ Len(st) = 1 /\ Head(st) = a
      BY <3>2, Osi1
    <3> QED
      BY <3>1, <3>3
  <2>1. rest = <<>>
    BY <2>0
  <2>1a. h = "end" /\ l = "end" /\ Len(st) = 1 /\ Head(st) = h
    BY <2>0, Zenon
  <2>3. rest \in OsiLeft
    BY <2>1, Zenon DEF OsiLeft
  <2>4. h = "end" /\ l = "end" /\ Head(st) = h /\ (h = l <=> Len(st) = 1)
    BY <2>1a
  <2> QED
    BY <2>3, <2>4
<1> QED
  BY <1>1, <1>2, <1>3, <1>4, <1>5, <1>6, <1>7, <1>8, <1>9, <1>10, <1>11, <1>12, <1>13, <1>14, <1>15, <1>16, <1>17, <1>18, <1>19, <1>20, <1>21, Zenon DEF OsiLeft

(* An entry holds the address a that nobody else knows; it refers to the   *)
(* box x; it is about to close the record of a.                            *)
GotLists == {<<>>} \cup {<<a>> : a \in HeapBlocks \cup {NoBlock}}
EntryRec == [steps : OsiLeft, got : GotLists, kind : BoxKinds \cup {"memory", "none"}, call : Nat,
             handle : HeapBlocks \cup {NoBlock}]
BoxRec == [kind : BoxKinds \cup {"wrapper"}, done : BOOLEAN, inner : HeapBlocks \cup {NoBlock}, life : Nat]
TraceRec == [at : HeapBlocks, call : Nat, freed : BOOLEAN]
RefSteps == {"name", "wrap", "store", "unbox", "unwrap"}
Holds(e, a) ==
  \/ NextOf(e.steps) \in {"note_alloc", "box", "drop_storage"} /\ e.got = <<a>>
  \/ NextOf(e.steps) \in {"note_free", "heap_free"} /\ e.handle = a
Refers(e, x) == NextOf(e.steps) \in RefSteps /\ e.handle = x
Frees(e, a) == NextOf(e.steps) = "note_free" /\ e.handle = a

(* What the step h of an entry that ends with l relies on.                 *)
FitsAt(h, l, t, e, bx, lv, ts) ==
  /\ h \in {"note_alloc", "drop_storage"} => \E a \in HeapBlocks : e.got = <<a>>
  /\ h \in {"note_free", "heap_free"} => e.handle \in HeapBlocks
  /\ h \in {"heap_alloc", "storage"} => e.got = <<>>
  /\ h \in {"storage", "box"} => e.kind \in BoxKinds
  /\ h = "storage" => e.kind = "queue"
  /\ h = "box" /\ e.kind = "queue" => \E a \in HeapBlocks : e.got = <<a>>
  /\ h = "box" /\ e.kind # "queue" => e.got = <<>>
  /\ l = "wrap" => e.kind = "queue"
  /\ l = "store" => e.kind = "semaphore"
  /\ h \in RefSteps => e.handle \in DOMAIN bx
  /\ h \in {"name", "wrap", "store"} => bx[e.handle].kind = e.kind /\ e.kind \in BoxKinds
  /\ h \in {"name", "wrap", "store"} /\ l = "store" => bx[e.handle].life = lv[t]
  /\ h = "unbox" /\ l = "drop_storage" => bx[e.handle].kind = "queue"
  /\ h = "unwrap" => bx[e.handle].kind = "wrapper"
  /\ l \in {"store", "end"} => \A s \in ts : s.task # t
Fits(t, e, bx, lv, ts) == FitsAt(NextOf(e.steps), LastOf(e.steps), t, e, bx, lv, ts)

OsiTyped ==
  /\ entry \in [BlobIds -> EntryRec] /\ lives \in [BlobIds -> Nat] /\ boxed \in [DOMAIN boxed -> BoxRec]
  /\ inHeap \subseteq HeapBlocks /\ osiCalls \in Nat /\ moved \in BOOLEAN
  /\ traceLog \in [records : Seq(TraceRec), overflow : Nat, unmatched : Nat]
  /\ threadSems \subseteq [task : BlobIds, handle : HeapBlocks]
EntriesFit == \A t \in BlobIds : Fits(t, entry[t], boxed, lives, threadSems)

(* An address in use is one thing: the blob's memory, a box, the storage   *)
(* of a boxed queue, or what one entry holds.                              *)
Places ==
  /\ \A a \in DOMAIN given : a \in inHeap /\ a \notin DOMAIN boxed
  /\ DOMAIN boxed \subseteq inHeap
  /\ \A t \in BlobIds : \A a \in HeapBlocks :
       Holds(entry[t], a) => a \in inHeap /\ a \notin DOMAIN given /\ a \notin DOMAIN boxed
  /\ \A t, u \in BlobIds : \A a \in HeapBlocks : Holds(entry[t], a) /\ Holds(entry[u], a) => t = u
  /\ \A h \in DOMAIN boxed : boxed[h].kind = "queue" =>
       /\ boxed[h].inner \in inHeap /\ boxed[h].inner \notin DOMAIN given /\ boxed[h].inner \notin DOMAIN boxed
       /\ \A t \in BlobIds : ~Holds(entry[t], boxed[h].inner)
  /\ \A h, k \in DOMAIN boxed :
       boxed[h].kind = "queue" /\ boxed[k].kind = "queue" /\ boxed[h].inner = boxed[k].inner => h = k

(* A box is referred to by one entry, one wrapper or one slot.             *)
RefsApart == \A t, u \in BlobIds : \A x \in DOMAIN boxed : Refers(entry[t], x) /\ Refers(entry[u], x) => t = u
WrapsFit ==
  /\ \A w \in DOMAIN boxed : boxed[w].kind = "wrapper" =>
       /\ boxed[w].inner \in DOMAIN boxed /\ boxed[boxed[w].inner].kind = "queue"
       /\ \A t \in BlobIds : ~Refers(entry[t], boxed[w].inner)
  /\ \A w, x \in DOMAIN boxed :
       boxed[w].kind = "wrapper" /\ boxed[x].kind = "wrapper" /\ boxed[w].inner = boxed[x].inner => w = x
SemsFit ==
  /\ \A s \in threadSems :
       /\ s.handle \in DOMAIN boxed /\ boxed[s.handle].kind = "semaphore"
       /\ boxed[s.handle].life = lives[s.task]
       /\ \A t \in BlobIds : ~Refers(entry[t], s.handle)
  /\ \A s, u \in threadSems : s.task = u.task \/ s.handle = u.handle => s = u

(* The open record of an address the blob holds, or is giving back.        *)
OpenIn(recs, a) == {i \in 1 .. Len(recs) : recs[i].at = a /\ ~recs[i].freed}
TraceFits ==
  traceLog.overflow = 0 /\ ~moved =>
    /\ traceLog.unmatched = 0
    /\ \A a \in HeapBlocks :
         /\ a \in DOMAIN given => \E i \in 1 .. Len(traceLog.records) :
                                    OpenIn(traceLog.records, a) = {i} /\ traceLog.records[i].call = given[a]
         /\ (\E t \in BlobIds : Frees(entry[t], a)) =>
              \E i \in 1 .. Len(traceLog.records) : OpenIn(traceLog.records, a) = {i}
         /\ a \notin DOMAIN given /\ (\A t \in BlobIds : ~Frees(entry[t], a)) => OpenIn(traceLog.records, a) = {}

OsiInv == OsiTyped /\ EntriesFit /\ Places /\ RefsApart /\ WrapsFit /\ SemsFit /\ TraceFits

LEMMA OsiFacts ==
  ASSUME OsiInv
  PROVE  /\ entry \in [BlobIds -> EntryRec] /\ lives \in [BlobIds -> Nat] /\ boxed \in [DOMAIN boxed -> BoxRec]
         /\ \A h \in DOMAIN boxed : boxed[h] \in BoxRec
         /\ inHeap \subseteq HeapBlocks /\ osiCalls \in Nat /\ moved \in BOOLEAN
         /\ traceLog \in [records : Seq(TraceRec), overflow : Nat, unmatched : Nat]
         /\ traceLog.records \in Seq(TraceRec) /\ traceLog.overflow \in Nat /\ traceLog.unmatched \in Nat
         /\ threadSems \subseteq [task : BlobIds, handle : HeapBlocks]
         /\ \A s \in threadSems : s.task \in BlobIds /\ s.handle \in HeapBlocks
         /\ DOMAIN boxed \subseteq HeapBlocks /\ DOMAIN given \subseteq HeapBlocks
         /\ \A t \in BlobIds : /\ entry[t] \in EntryRec /\ entry[t].steps \in OsiLeft /\ entry[t].got \in GotLists
                               /\ entry[t].call \in Nat /\ entry[t].handle \in HeapBlocks \cup {NoBlock}
                               /\ entry[t].kind \in BoxKinds \cup {"memory", "none"}
                               /\ Fits(t, entry[t], boxed, lives, threadSems)
<1>1. DOMAIN boxed \subseteq HeapBlocks /\ DOMAIN given \subseteq HeapBlocks
  BY DEF OsiInv, OsiTyped, Places
<1> QED
  BY <1>1 DEF OsiInv, OsiTyped, EntriesFit, EntryRec

(* An entry that has returned.                                             *)
LEMMA AwayIs ==
  /\ Away \in EntryRec /\ NextOf(Away.steps) = "none" /\ LastOf(Away.steps) = "none"
  /\ \A a : ~Holds(Away, a) /\ ~Refers(Away, a) /\ ~Frees(Away, a)
  /\ \A t, bx, lv, ts : Fits(t, Away, bx, lv, ts)
<1>1. Away.steps = <<>> /\ Away.got = <<>> /\ Away.kind = "none" /\ Away.call = 0 /\ Away.handle = NoBlock
  BY DEF Away
<1>2. NextOf(Away.steps) = "none" /\ LastOf(Away.steps) = "none"
  BY <1>1 DEF NextOf, LastOf
<1>3. Away \in EntryRec
  <2>1. <<>> \in OsiLeft
    BY Zenon DEF OsiLeft
  <2>2. <<>> \in GotLists
    BY DEF GotLists
  <2> QED
    BY <2>1, <2>2 DEF Away, EntryRec
<1> QED
  BY <1>2, <1>3 DEF Holds, Refers, Frees, Fits, FitsAt, RefSteps

LEMMA ObjectsBegin == ObjectsInit => OsiInv
<1> SUFFICES ASSUME ObjectsInit PROVE OsiInv
  OBVIOUS
<1> USE AwayIs DEF ObjectsInit
<1>0. \A t \in BlobIds : entry[t] = Away
  OBVIOUS
<1>1. DOMAIN boxed = {} /\ DOMAIN given = {} /\ threadSems = {}
  OBVIOUS
<1>2. boxed \in [DOMAIN boxed -> BoxRec]
  OBVIOUS
<1>3. traceLog.records = <<>> /\ traceLog.overflow = 0 /\ traceLog.unmatched = 0
      /\ traceLog \in [records : Seq(TraceRec), overflow : Nat, unmatched : Nat]
  OBVIOUS
<1>4. OsiTyped
  BY <1>1, <1>2, <1>3 DEF OsiTyped
<1>5. EntriesFit
  BY <1>0 DEF EntriesFit
<1>6. Places
  BY <1>0, <1>1 DEF Places
<1>7. RefsApart /\ WrapsFit /\ SemsFit
  BY <1>0, <1>1 DEF RefsApart, WrapsFit, SemsFit
<1>8. TraceFits
  <2>1. \A a : OpenIn(<<>>, a) = {}
    BY DEF OpenIn
  <2> QED
    BY <1>0, <1>1, <1>3, <2>1 DEF TraceFits
<1> QED
  BY <1>4, <1>5, <1>6, <1>7, <1>8 DEF OsiInv

(* One entry turns to e; what the others rely on.                          *)
LEMMA OsiTurn ==
  ASSUME OsiInv, NEW t \in BlobIds, NEW e \in EntryRec, entry' = [entry EXCEPT ![t] = e]
  PROVE  /\ entry' \in [BlobIds -> EntryRec] /\ entry'[t] = e
         /\ \A u \in BlobIds : u # t => entry'[u] = entry[u]
  BY OsiFacts

SameBoxes ==
  /\ DOMAIN boxed' = DOMAIN boxed
  /\ \A k \in DOMAIN boxed :
       boxed'[k].kind = boxed[k].kind /\ boxed'[k].inner = boxed[k].inner /\ boxed'[k].life = boxed[k].life

LEMMA FitsStill ==
  ASSUME NEW t, NEW e, NEW bx, NEW lv, NEW ts, NEW bx2, NEW lv2, NEW ts2, Fits(t, e, bx, lv, ts),
         lv2[t] = lv[t], \A s \in ts2 : s.task = t => s \in ts,
         \A x \in DOMAIN bx : Refers(e, x) => x \in DOMAIN bx2 /\ bx2[x].kind = bx[x].kind /\ bx2[x].life = bx[x].life
  PROVE  Fits(t, e, bx2, lv2, ts2)
<1>1. PICK h, l : h = NextOf(e.steps) /\ l = LastOf(e.steps)
  OBVIOUS
<1>2. FitsAt(h, l, t, e, bx, lv, ts)
  BY <1>1 DEF Fits
<1>3. h \in RefSteps => /\ e.handle \in DOMAIN bx /\ e.handle \in DOMAIN bx2
                        /\ bx2[e.handle].kind = bx[e.handle].kind /\ bx2[e.handle].life = bx[e.handle].life
  BY <1>1, <1>2 DEF FitsAt, Refers
<1>4. {"name", "wrap", "store", "unbox", "unwrap"} \subseteq RefSteps
  BY DEF RefSteps
<1>5. FitsAt(h, l, t, e, bx2, lv2, ts2)
  BY <1>2, <1>3, <1>4 DEF FitsAt
<1> QED
  BY <1>1, <1>5 DEF Fits

(* The others still fit while their boxes, lives and slots stay.           *)
LEMMA EntriesStill ==
  ASSUME OsiInv, NEW t \in BlobIds, NEW e \in EntryRec, entry' = [entry EXCEPT ![t] = e],
         Fits(t, e, boxed', lives', threadSems'),
         \A u \in BlobIds : u # t => lives'[u] = lives[u] /\ \A s \in threadSems' : s.task = u => s \in threadSems,
         \A u \in BlobIds : u # t => \A x \in DOMAIN boxed : Refers(entry[u], x) =>
           x \in DOMAIN boxed' /\ boxed'[x].kind = boxed[x].kind /\ boxed'[x].life = boxed[x].life
  PROVE  EntriesFit'
<1>1. entry'[t] = e /\ \A u \in BlobIds : u # t => entry'[u] = entry[u]
  BY OsiTurn
<1>2. ASSUME NEW u \in BlobIds, u # t PROVE Fits(u, entry'[u], boxed', lives', threadSems')
  <2>1. Fits(u, entry[u], boxed, lives, threadSems)
    BY OsiFacts
  <2>2. PICK f, bx, lv, ts, bx2, lv2, ts2 : /\ f = entry[u] /\ bx = boxed /\ lv = lives /\ ts = threadSems
                                            /\ bx2 = boxed' /\ lv2 = lives' /\ ts2 = threadSems'
    OBVIOUS
  <2>3. Fits(u, f, bx2, lv2, ts2)
    BY <1>2, <2>1, <2>2, FitsStill
  <2> QED
    BY <1>1, <1>2, <2>2, <2>3
<1> QED
  BY <1>1, <1>2 DEF EntriesFit

(* The places stay while the entry holds nothing new.                      *)
LEMMA PlacesStill ==
  ASSUME OsiInv, NEW t \in BlobIds, NEW e \in EntryRec, entry' = [entry EXCEPT ![t] = e],
         \A a \in HeapBlocks : Holds(e, a) => Holds(entry[t], a), UNCHANGED <<inHeap, given>>, SameBoxes
  PROVE  Places'
<1>1. entry'[t] = e /\ \A u \in BlobIds : u # t => entry'[u] = entry[u]
  BY OsiTurn
<1>2. \A u \in BlobIds : \A a \in HeapBlocks : Holds(entry'[u], a) => Holds(entry[u], a)
  BY <1>1
<1>3. Places /\ inHeap \subseteq HeapBlocks
  BY OsiFacts DEF OsiInv
<1> QED
  BY <1>2, <1>3 DEF Places, SameBoxes

(* The references stay while the entry makes no new one and no box goes.   *)
LEMMA RefsStill ==
  ASSUME OsiInv, NEW t \in BlobIds, NEW e \in EntryRec, entry' = [entry EXCEPT ![t] = e],
         \A x \in DOMAIN boxed : Refers(e, x) => Refers(entry[t], x), SameBoxes,
         threadSems' \subseteq threadSems, \A s \in threadSems' : lives'[s.task] = lives[s.task]
  PROVE  RefsApart' /\ WrapsFit' /\ SemsFit'
<1>1. entry'[t] = e /\ \A u \in BlobIds : u # t => entry'[u] = entry[u]
  BY OsiTurn
<1>2. \A u \in BlobIds : \A x \in DOMAIN boxed : Refers(entry'[u], x) => Refers(entry[u], x)
  BY <1>1
<1>3. RefsApart'
  BY <1>2 DEF OsiInv, RefsApart, SameBoxes
<1>4. WrapsFit'
  BY <1>2 DEF OsiInv, WrapsFit, SameBoxes
<1>5. SemsFit'
  BY <1>2 DEF OsiInv, SemsFit, SameBoxes
<1> QED
  BY <1>3, <1>4, <1>5

(* The trace stays while the entry begins and ends no free.                *)
LEMMA TraceStill ==
  ASSUME OsiInv, NEW t \in BlobIds, NEW e \in EntryRec, entry' = [entry EXCEPT ![t] = e],
         \A a \in HeapBlocks : Frees(e, a) <=> Frees(entry[t], a), UNCHANGED <<given, traceLog, moved>>
  PROVE  TraceFits'
<1>1. entry'[t] = e /\ \A u \in BlobIds : u # t => entry'[u] = entry[u]
  BY OsiTurn
<1>2. \A u \in BlobIds : \A a \in HeapBlocks : Frees(entry'[u], a) <=> Frees(entry[u], a)
  BY <1>1
<1> QED
  BY <1>2 DEF OsiInv, TraceFits

(* The step n that follows h in an entry that ends with l.                 *)
After(h, l, n) ==
  /\ h = l => n = "none"
  /\ h = "heap_alloc" => l = "note_alloc" /\ n = "note_alloc"
  /\ h = "note_free" => l = "heap_free" /\ n = "heap_free"
  /\ h = "storage" => l \in {"name", "wrap"} /\ n = "box"
  /\ h = "box" => l \in {"box", "name", "wrap", "store"} /\ (l # "box" => n = "name")
  /\ h = "name" => l \in {"name", "wrap", "store"} /\ (l # "name" => n = l)
  /\ h = "unbox" => l \in {"unbox", "drop_storage", "end"} /\ (l # "unbox" => n = l)
  /\ h = "unwrap" => l = "drop_storage" /\ n = "unbox"
  /\ h \in {"note_alloc", "heap_free", "wrap", "store", "drop_storage", "end"} => l = h

(* A step of an entry, once it has become f.                               *)
LEMMA StepsTo ==
  ASSUME OsiInv, NEW t \in BlobIds, NEW f \in EntryRec, f.steps = entry[t].steps, entry[t].steps # <<>>, Steps(t, f)
  PROVE  \E e, h, l, n :
           /\ e \in EntryRec /\ entry' = [entry EXCEPT ![t] = e] /\ h = NextOf(entry[t].steps) /\ l = LastOf(entry[t].steps)
           /\ h = Head(entry[t].steps) /\ (h = l <=> Len(entry[t].steps) = 1)
           /\ n = NextOf(e.steps) /\ After(h, l, n) /\ h # "none"
           /\ h = l => e = Away
           /\ h # l => LastOf(e.steps) = l /\ e.got = f.got /\ e.kind = f.kind /\ e.call = f.call /\ e.handle = f.handle
<1>1. PICK st, h, l, rest : st = entry[t].steps /\ h = NextOf(st) /\ l = LastOf(st) /\ rest = Tail(st)
  OBVIOUS
<1>2. st \in OsiLeft /\ st # <<>>
  BY <1>1, OsiFacts
<1>3. /\ rest \in OsiLeft /\ Head(st) = h /\ (h = l <=> Len(st) = 1) /\ (h # l => LastOf(rest) = l)
      /\ h \in {"heap_alloc", "note_alloc", "note_free", "heap_free", "storage", "box", "name", "wrap", "store",
                "unbox", "unwrap", "drop_storage", "end"}
      /\ (h # l => After(h, l, NextOf(rest))) /\ (h = l => After(h, l, "none"))
  <2>0. h = NextOf(st) /\ l = LastOf(st) /\ rest = Tail(st)
    BY <1>1
  <2>1. /\ rest \in OsiLeft /\ Head(st) = h /\ (h = l <=> Len(st) = 1) /\ (h # l => LastOf(rest) = l)
        /\ h \in {"heap_alloc", "note_alloc", "note_free", "heap_free", "storage", "box", "name", "wrap", "store",
                  "unbox", "unwrap", "drop_storage", "end"}
    BY ZenonT(60), <1>2, <2>0, OsiLists
  <2>2. PICK n : n = NextOf(rest)
    OBVIOUS
  <2>a0. h = "heap_alloc" => l = "note_alloc" /\ NextOf(rest) = "note_alloc"
    BY <1>2, <2>0, OsiLists
  <2>a1. h = "note_free" => l = "heap_free" /\ NextOf(rest) = "heap_free"
    BY <1>2, <2>0, OsiLists
  <2>a2. h = "storage" => l \in {"name", "wrap"} /\ NextOf(rest) = "box"
    BY <1>2, <2>0, OsiLists
  <2>a3. h = "box" => l \in {"box", "name", "wrap", "store"} /\ (l # "box" => NextOf(rest) = "name")
    BY <1>2, <2>0, OsiLists
  <2>a4. h = "name" => l \in {"name", "wrap", "store"} /\ (l # "name" => NextOf(rest) = l)
    BY ZenonT(60), <1>2, <2>0, OsiLists
  <2>a5. h = "unbox" => l \in {"unbox", "drop_storage", "end"} /\ (l # "unbox" => NextOf(rest) = l)
    BY <1>2, <2>0, OsiLists
  <2>a6. h = "unwrap" => l = "drop_storage" /\ NextOf(rest) = "unbox"
    BY <1>2, <2>0, OsiLists
  <2>a7. h \in {"note_alloc", "heap_free", "wrap", "store", "drop_storage", "end"} => l = h
    BY <1>2, <2>0, OsiLists
  <2>3. h # l => After(h, l, n)
    BY <2>2, <2>a0, <2>a1, <2>a2, <2>a3, <2>a4, <2>a5, <2>a6, <2>a7 DEF After
  <2>4. h = l => After(h, l, "none")
    BY <1>2, <2>0, OsiLists DEF After
  <2> QED
    BY <2>1, <2>2, <2>3, <2>4
<1>4. CASE h = l
  <2>1. entry' = [entry EXCEPT ![t] = Away]
    BY <1>1, <1>3, <1>4 DEF Steps
  <2> QED
    BY <1>1, <1>3, <1>4, <2>1, AwayIs
<1>5. CASE h # l
  <2>1. PICK e : e = [f EXCEPT !.steps = rest]
    OBVIOUS
  <2>2. e \in EntryRec /\ e.steps = rest /\ e.got = f.got /\ e.kind = f.kind /\ e.call = f.call /\ e.handle = f.handle
    BY <1>3, <2>1 DEF EntryRec
  <2>3. entry' = [entry EXCEPT ![t] = e]
    BY <1>1, <1>3, <1>5, <2>1 DEF Steps
  <2> QED
    BY <1>1, <1>3, <1>5, <2>2, <2>3
<1> QED
  BY <1>4, <1>5

(* An entry is called.                                                     *)
LEMMA EntersAs ==
  ASSUME OsiInv, NEW t \in BlobIds, NEW st \in OsiLeft, NEW kind \in BoxKinds \cup {"memory", "none"},
         NEW handle \in HeapBlocks \cup {NoBlock}, Enters(t, st, kind, handle)
  PROVE  /\ osiCalls' \in Nat /\ NextOf(entry[t].steps) = "none" /\ LastOf(entry[t].steps) = "none"
         /\ \A a : ~Holds(entry[t], a) /\ ~Refers(entry[t], a) /\ ~Frees(entry[t], a)
         /\ \E e \in EntryRec : /\ entry' = [entry EXCEPT ![t] = e] /\ e.steps = st /\ e.got = <<>>
                                /\ e.kind = kind /\ e.handle = handle
<1>1. entry[t].steps = <<>> /\ osiCalls' = osiCalls + 1 /\ osiCalls \in Nat
  BY OsiFacts DEF Enters
<1>2. NextOf(entry[t].steps) = "none" /\ LastOf(entry[t].steps) = "none"
  BY <1>1 DEF NextOf, LastOf
<1>3. PICK n : n = osiCalls + 1 /\ n \in Nat
  BY <1>1
<1>4. PICK e : e = [Away EXCEPT !.steps = st, !.kind = kind, !.handle = handle, !.call = n]
  OBVIOUS
<1>5. Away \in EntryRec /\ Away.got = <<>>
  BY AwayIs DEF Away
<1>6. e \in EntryRec /\ e.steps = st /\ e.got = <<>> /\ e.kind = kind /\ e.handle = handle
  BY <1>3, <1>4, <1>5 DEF EntryRec
<1>8. entry' = [entry EXCEPT ![t] = e]
  BY <1>3, <1>4 DEF Enters
<1>9. \A a : ~Holds(entry[t], a) /\ ~Refers(entry[t], a) /\ ~Frees(entry[t], a)
  BY <1>2 DEF Holds, Refers, Frees, RefSteps
<1> QED
  BY <1>1, <1>2, <1>3, <1>6, <1>8, <1>9

(* A step that touches nothing but its entry.                              *)
LEMMA OsiQuiet ==
  ASSUME OsiInv, NEW t \in BlobIds, NEW e \in EntryRec, entry' = [entry EXCEPT ![t] = e],
         Fits(t, e, boxed', lives', threadSems'), SameBoxes, boxed' \in [DOMAIN boxed' -> BoxRec],
         UNCHANGED <<inHeap, given, traceLog, moved>>, threadSems' \subseteq threadSems,
         lives' \in [BlobIds -> Nat], \A u \in BlobIds : u # t => lives'[u] = lives[u],
         \A s \in threadSems' : lives'[s.task] = lives[s.task], osiCalls' \in Nat,
         \A a \in HeapBlocks : Holds(e, a) => Holds(entry[t], a),
         \A a \in HeapBlocks : Refers(e, a) => Refers(entry[t], a),
         \A a \in HeapBlocks : Frees(e, a) <=> Frees(entry[t], a)
  PROVE  OsiInv'
<1>1. DOMAIN boxed \subseteq HeapBlocks
  BY OsiFacts
<1>2. EntriesFit'
  BY <1>1, EntriesStill DEF SameBoxes
<1>3. Places'
  BY PlacesStill
<1>4. RefsApart' /\ WrapsFit' /\ SemsFit'
  BY <1>1, RefsStill
<1>5. TraceFits'
  BY TraceStill
<1>6. entry' \in [BlobIds -> EntryRec]
  BY OsiTurn
<1>7. OsiTyped'
  BY <1>6, OsiFacts DEF OsiTyped
<1> QED
  BY <1>2, <1>3, <1>4, <1>5, <1>7 DEF OsiInv

(* The lists of the entries, as they are called.                           *)
LEMMA CatOne == ASSUME NEW a, NEW b PROVE <<a>> \o <<b>> = <<a, b>>
<1>1. PICK S, p, q, r, w : S = {a, b} /\ p = <<a>> /\ q = <<b>> /\ r = <<a, b>> /\ w = p \o q
  OBVIOUS
<1>2. p \in Seq(S) /\ q \in Seq(S) /\ r \in Seq(S) /\ Len(p) = 1 /\ Len(q) = 1 /\ Len(r) = 2
  BY <1>1
<1>3. p[1] = a /\ q[1] = b /\ r[1] = a /\ r[2] = b
  BY <1>1
<1>4. w \in Seq(S) /\ Len(w) = 2
      /\ \A i \in 1 .. 2 : w[i] = IF i <= 1 THEN p[i] ELSE q[i - 1]
  <2>1. p \o q \in Seq(S) /\ Len(p \o q) = Len(p) + Len(q)
        /\ \A i \in 1 .. Len(p) + Len(q) : (p \o q)[i] = IF i <= Len(p) THEN p[i] ELSE q[i - Len(p)]
    BY <1>2, ConcatProperties
  <2> QED
    BY <1>1, <1>2, <2>1
<1>5. \A i \in 1 .. 2 : w[i] = r[i]
  BY <1>3, <1>4
<1>6. w = r
  BY <1>2, <1>4, <1>5, SeqEqual
<1> QED
  BY <1>1, <1>6
LEMMA CatTwo == ASSUME NEW a, NEW b, NEW c PROVE <<a, b>> \o <<c>> = <<a, b, c>>
<1>1. PICK S, p, q, r, w : S = {a, b, c} /\ p = <<a, b>> /\ q = <<c>> /\ r = <<a, b, c>> /\ w = p \o q
  OBVIOUS
<1>2. p \in Seq(S) /\ q \in Seq(S) /\ r \in Seq(S) /\ Len(p) = 2 /\ Len(q) = 1 /\ Len(r) = 3
  BY <1>1
<1>3. p[1] = a /\ p[2] = b /\ q[1] = c /\ r[1] = a /\ r[2] = b /\ r[3] = c
  BY <1>1
<1>4. w \in Seq(S) /\ Len(w) = 3
      /\ \A i \in 1 .. 3 : w[i] = IF i <= 2 THEN p[i] ELSE q[i - 2]
  <2>1. p \o q \in Seq(S) /\ Len(p \o q) = Len(p) + Len(q)
        /\ \A i \in 1 .. Len(p) + Len(q) : (p \o q)[i] = IF i <= Len(p) THEN p[i] ELSE q[i - Len(p)]
    BY <1>2, ConcatProperties
  <2> QED
    BY <1>1, <1>2, <2>1
<1>5. \A i \in 1 .. 3 : w[i] = r[i]
  BY <1>3, <1>4
<1>6. w = r
  BY <1>2, <1>4, <1>5, SeqEqual
<1> QED
  BY <1>1, <1>6
LEMMA CatThree == ASSUME NEW a, NEW b, NEW c, NEW d PROVE <<a, b, c>> \o <<d>> = <<a, b, c, d>>
<1>1. PICK S, p, q, r, w : S = {a, b, c, d} /\ p = <<a, b, c>> /\ q = <<d>> /\ r = <<a, b, c, d>> /\ w = p \o q
  OBVIOUS
<1>2. p \in Seq(S) /\ q \in Seq(S) /\ r \in Seq(S) /\ Len(p) = 3 /\ Len(q) = 1 /\ Len(r) = 4
  BY <1>1
<1>3. p[1] = a /\ p[2] = b /\ p[3] = c /\ q[1] = d /\ r[1] = a /\ r[2] = b /\ r[3] = c /\ r[4] = d
  BY <1>1
<1>4. w \in Seq(S) /\ Len(w) = 4
      /\ \A i \in 1 .. 4 : w[i] = IF i <= 3 THEN p[i] ELSE q[i - 3]
  <2>1. p \o q \in Seq(S) /\ Len(p \o q) = Len(p) + Len(q)
        /\ \A i \in 1 .. Len(p) + Len(q) : (p \o q)[i] = IF i <= Len(p) THEN p[i] ELSE q[i - Len(p)]
    BY <1>2, ConcatProperties
  <2> QED
    BY <1>1, <1>2, <2>1
<1>5. \A i \in 1 .. 4 : w[i] = r[i]
  BY <1>3, <1>4
<1>6. w = r
  BY <1>2, <1>4, <1>5, SeqEqual
<1> QED
  BY <1>1, <1>6
LEMMA CatFirst == ASSUME NEW a, NEW b, NEW c PROVE <<a>> \o <<b, c>> = <<a, b, c>>
<1>1. PICK S, p, q, r, w : S = {a, b, c} /\ p = <<a>> /\ q = <<b, c>> /\ r = <<a, b, c>> /\ w = p \o q
  OBVIOUS
<1>2. p \in Seq(S) /\ q \in Seq(S) /\ r \in Seq(S) /\ Len(p) = 1 /\ Len(q) = 2 /\ Len(r) = 3
  BY <1>1
<1>3. p[1] = a /\ q[1] = b /\ q[2] = c /\ r[1] = a /\ r[2] = b /\ r[3] = c
  BY <1>1
<1>4. w \in Seq(S) /\ Len(w) = 3
      /\ \A i \in 1 .. 3 : w[i] = IF i <= 1 THEN p[i] ELSE q[i - 1]
  <2>1. p \o q \in Seq(S) /\ Len(p \o q) = Len(p) + Len(q)
        /\ \A i \in 1 .. Len(p) + Len(q) : (p \o q)[i] = IF i <= Len(p) THEN p[i] ELSE q[i - Len(p)]
    BY <1>2, ConcatProperties
  <2> QED
    BY <1>1, <1>2, <2>1
<1>5. \A i \in 1 .. 3 : w[i] = r[i]
  BY <1>3, <1>4
<1>6. w = r
  BY <1>2, <1>4, <1>5, SeqEqual
<1> QED
  BY <1>1, <1>6
LEMMA CatNone == ASSUME NEW a PROVE <<>> \o <<a>> = <<a>> /\ <<a>> \o <<>> = <<a>>
  OBVIOUS

LEMMA CreateLists ==
  /\ CreateEntry("queue") = <<"storage", "box", "name">>
  /\ \A kind \in {"semaphore", "mutex"} : CreateEntry(kind) = <<"box", "name">>
  /\ \A kind \in {"events", "spinlock"} : CreateEntry(kind) = <<"box">>
  /\ DeleteEntry("queue") = <<"unbox", "drop_storage">>
  /\ \A kind \in BoxKinds : kind # "queue" => DeleteEntry(kind) = <<"unbox">>
  /\ CreateEntry("queue") \o <<"wrap">> = <<"storage", "box", "name", "wrap">>
  /\ CreateEntry("semaphore") \o <<"store">> = <<"box", "name", "store">>
  /\ <<"unwrap">> \o DeleteEntry("queue") = <<"unwrap", "unbox", "drop_storage">>
<1>1. PICK a, b, c, d, f : a = "storage" /\ b = "box" /\ c = "name" /\ d = "wrap" /\ f = "store"
  OBVIOUS
<1>2. CreateEntry("queue") = <<"storage", "box", "name">>
  <2>1. CreateEntry("queue") = (<<a>> \o <<b>>) \o <<c>>
    BY <1>1 DEF CreateEntry, NamedKinds
  <2> QED
    BY <2>1, <1>1, CatOne, CatTwo
<1>3. ASSUME NEW kind \in {"semaphore", "mutex"} PROVE CreateEntry(kind) = <<"box", "name">>
  <2>1. CreateEntry(kind) = (<<>> \o <<b>>) \o <<c>>
    BY <1>1 DEF CreateEntry, NamedKinds
  <2> QED
    BY <2>1, <1>1, CatOne, CatNone
<1>4. ASSUME NEW kind \in {"events", "spinlock"} PROVE CreateEntry(kind) = <<"box">>
  <2>1. CreateEntry(kind) = (<<>> \o <<b>>) \o <<>>
    BY <1>1 DEF CreateEntry, NamedKinds
  <2> QED
    BY <2>1, <1>1, CatNone
<1>5. DeleteEntry("queue") = <<"unbox", "drop_storage">>
  BY DEF DeleteEntry
<1>6. \A kind \in BoxKinds : kind # "queue" => DeleteEntry(kind) = <<"unbox">>
  BY DEF DeleteEntry
<1>7. CreateEntry("queue") \o <<"wrap">> = <<"storage", "box", "name", "wrap">>
  <2>1. CreateEntry("queue") \o <<"wrap">> = <<a, b, c>> \o <<d>>
    BY <1>1, <1>2
  <2> QED
    BY <1>1, <2>1, CatThree
<1>8. CreateEntry("semaphore") \o <<"store">> = <<"box", "name", "store">>
  <2>1. CreateEntry("semaphore") \o <<"store">> = <<b, c>> \o <<f>>
    BY <1>1, <1>3
  <2> QED
    BY <1>1, <2>1, CatTwo
<1>9. <<"unwrap">> \o DeleteEntry("queue") = <<"unwrap", "unbox", "drop_storage">>
  <2>1. PICK x, y, z : x = "unwrap" /\ y = "unbox" /\ z = "drop_storage"
    OBVIOUS
  <2>2. <<"unwrap">> \o DeleteEntry("queue") = <<x>> \o <<y, z>>
    BY <1>5, <2>1
  <2> QED
    BY <2>1, <2>2, CatFirst
<1> QED
  BY <1>2, <1>3, <1>4, <1>5, <1>6, <1>7, <1>8, <1>9

LEMMA EntryLists ==
  /\ <<>> \in OsiLeft /\ NextOf(<<>>) = "none" /\ LastOf(<<>>) = "none"
  /\ \A st : st = <<"heap_alloc", "note_alloc">> =>
       st \in OsiLeft /\ NextOf(st) = "heap_alloc" /\ LastOf(st) = "note_alloc"
  /\ \A st : st = <<"note_free", "heap_free">> =>
       st \in OsiLeft /\ NextOf(st) = "note_free" /\ LastOf(st) = "heap_free"
  /\ \A st : st = <<"storage", "box", "name">> =>
       st \in OsiLeft /\ NextOf(st) = "storage" /\ LastOf(st) = "name"
  /\ \A st : st = <<"box", "name">> => st \in OsiLeft /\ NextOf(st) = "box" /\ LastOf(st) = "name"
  /\ \A st : st = <<"box">> => st \in OsiLeft /\ NextOf(st) = "box" /\ LastOf(st) = "box"
  /\ \A st : st = <<"storage", "box", "name", "wrap">> =>
       st \in OsiLeft /\ NextOf(st) = "storage" /\ LastOf(st) = "wrap"
  /\ \A st : st = <<"box", "name", "store">> => st \in OsiLeft /\ NextOf(st) = "box" /\ LastOf(st) = "store"
  /\ \A st : st = <<"unbox", "drop_storage">> =>
       st \in OsiLeft /\ NextOf(st) = "unbox" /\ LastOf(st) = "drop_storage"
  /\ \A st : st = <<"unbox">> => st \in OsiLeft /\ NextOf(st) = "unbox" /\ LastOf(st) = "unbox"
  /\ \A st : st = <<"unwrap", "unbox", "drop_storage">> =>
       st \in OsiLeft /\ NextOf(st) = "unwrap" /\ LastOf(st) = "drop_storage"
  /\ \A st : st = <<"unbox", "end">> => st \in OsiLeft /\ NextOf(st) = "unbox" /\ LastOf(st) = "end"
<1>1. <<>> \in OsiLeft /\ <<"heap_alloc", "note_alloc">> \in OsiLeft /\ <<"note_free", "heap_free">> \in OsiLeft
      /\ <<"storage", "box", "name">> \in OsiLeft /\ <<"box", "name">> \in OsiLeft /\ <<"box">> \in OsiLeft
  BY Zenon DEF OsiLeft
<1>2. <<"storage", "box", "name", "wrap">> \in OsiLeft /\ <<"box", "name", "store">> \in OsiLeft
      /\ <<"unbox", "drop_storage">> \in OsiLeft /\ <<"unbox">> \in OsiLeft
      /\ <<"unwrap", "unbox", "drop_storage">> \in OsiLeft /\ <<"unbox", "end">> \in OsiLeft
  BY Zenon DEF OsiLeft
<1>3. NextOf(<<>>) = "none" /\ LastOf(<<>>) = "none"
  BY DEF NextOf, LastOf
<1>4. /\ NextOf(<<"box">>) = "box" /\ LastOf(<<"box">>) = "box"
      /\ NextOf(<<"unbox">>) = "unbox" /\ LastOf(<<"unbox">>) = "unbox"
  BY Osi1, Zenon
<1>5. /\ NextOf(<<"heap_alloc", "note_alloc">>) = "heap_alloc" /\ LastOf(<<"heap_alloc", "note_alloc">>) = "note_alloc"
      /\ NextOf(<<"note_free", "heap_free">>) = "note_free" /\ LastOf(<<"note_free", "heap_free">>) = "heap_free"
      /\ NextOf(<<"box", "name">>) = "box" /\ LastOf(<<"box", "name">>) = "name"
      /\ NextOf(<<"unbox", "drop_storage">>) = "unbox" /\ LastOf(<<"unbox", "drop_storage">>) = "drop_storage"
      /\ NextOf(<<"unbox", "end">>) = "unbox" /\ LastOf(<<"unbox", "end">>) = "end"
  BY Osi2, Zenon
<1>6. /\ NextOf(<<"storage", "box", "name">>) = "storage" /\ LastOf(<<"storage", "box", "name">>) = "name"
      /\ NextOf(<<"box", "name", "store">>) = "box" /\ LastOf(<<"box", "name", "store">>) = "store"
      /\ NextOf(<<"unwrap", "unbox", "drop_storage">>) = "unwrap"
      /\ LastOf(<<"unwrap", "unbox", "drop_storage">>) = "drop_storage"
  <2>1. NextOf(<<"storage", "box", "name">>) = "storage" /\ LastOf(<<"storage", "box", "name">>) = "name"
    <3>1. PICK a, b, c : a = "storage" /\ b = "box" /\ c = "name"
      OBVIOUS
    <3>2. NextOf(<<a, b, c>>) = a /\ LastOf(<<a, b, c>>) = c
      BY ZenonT(60), Osi3
    <3> QED
      BY <3>1, <3>2
  <2>2. NextOf(<<"box", "name", "store">>) = "box" /\ LastOf(<<"box", "name", "store">>) = "store"
    <3>1. PICK a, b, c : a = "box" /\ b = "name" /\ c = "store"
      OBVIOUS
    <3>2. NextOf(<<a, b, c>>) = a /\ LastOf(<<a, b, c>>) = c
      BY ZenonT(60), Osi3
    <3> QED
      BY <3>1, <3>2
  <2>3. NextOf(<<"unwrap", "unbox", "drop_storage">>) = "unwrap" /\ LastOf(<<"unwrap", "unbox", "drop_storage">>) = "drop_storage"
    <3>1. PICK a, b, c : a = "unwrap" /\ b = "unbox" /\ c = "drop_storage"
      OBVIOUS
    <3>2. NextOf(<<a, b, c>>) = a /\ LastOf(<<a, b, c>>) = c
      BY ZenonT(60), Osi3
    <3> QED
      BY <3>1, <3>2
  <2> QED
    BY <2>1, <2>2, <2>3
<1>7. /\ NextOf(<<"storage", "box", "name", "wrap">>) = "storage"
      /\ LastOf(<<"storage", "box", "name", "wrap">>) = "wrap"
  <2>1. NextOf(<<"storage", "box", "name", "wrap">>) = "storage" /\ LastOf(<<"storage", "box", "name", "wrap">>) = "wrap"
    <3>1. PICK a, b, c, d : a = "storage" /\ b = "box" /\ c = "name" /\ d = "wrap"
      OBVIOUS
    <3>2. NextOf(<<a, b, c, d>>) = a /\ LastOf(<<a, b, c, d>>) = d
      BY DEF NextOf, LastOf
    <3> QED
      BY <3>1, <3>2
  <2> QED
    BY <2>1
<1> QED
  BY <1>1, <1>2, <1>3, <1>4, <1>5, <1>6, <1>7, Zenon

LEMMA SameIsSame == ASSUME boxed' = boxed PROVE SameBoxes
  BY DEF SameBoxes

(* A call that makes something.                                            *)
LEMMA OsiCalls ==
  ASSUME OsiInv, NEW t \in BlobIds, NEW st \in OsiLeft, NEW kind \in BoxKinds \cup {"memory"},
         Enters(t, st, kind, NoBlock), UNCHANGED <<inHeap, given, traceLog, names, boxed, threadSems, lives, moved>>,
         NEW h, NEW l, h = NextOf(st), l = LastOf(st), h \in {"none", "heap_alloc", "storage", "box"},
         h = "storage" => kind = "queue", h = "box" => kind \in BoxKinds \ {"queue"}, l = "wrap" => kind = "queue",
         l = "store" => kind = "semaphore" /\ \A s \in threadSems : s.task # t, l # "end"
  PROVE  OsiInv'
<1>1. PICK e \in EntryRec : /\ entry' = [entry EXCEPT ![t] = e] /\ e.steps = st /\ e.got = <<>>
                            /\ e.kind = kind /\ e.handle = NoBlock
  BY EntersAs
<1>2. osiCalls' \in Nat /\ \A a : ~Holds(entry[t], a) /\ ~Refers(entry[t], a) /\ ~Frees(entry[t], a)
  BY EntersAs
<1>3. NextOf(e.steps) = h /\ LastOf(e.steps) = l
  BY <1>1
<1>4. \A a : <<a>> # <<>>
  OBVIOUS
<1>5. \A a : ~Holds(e, a) /\ ~Refers(e, a) /\ ~Frees(e, a)
  BY <1>1, <1>3, <1>4 DEF Holds, Refers, Frees, RefSteps
<1>6. FitsAt(h, l, t, e, boxed, lives, threadSems)
  BY <1>1 DEF FitsAt, RefSteps
<1>7. Fits(t, e, boxed', lives', threadSems')
  BY <1>3, <1>6 DEF Fits
<1> QED
  BY <1>1, <1>2, <1>5, <1>7, OsiQuiet, OsiFacts, SameIsSame

LEMMA OsiMalloc == ASSUME OsiInv, NEW t \in BlobIds, Malloc(t) PROVE OsiInv'
<1>1. PICK st : st = <<"heap_alloc", "note_alloc">>
  OBVIOUS
<1>2. st \in OsiLeft /\ NextOf(st) = "heap_alloc" /\ LastOf(st) = "note_alloc"
  BY <1>1, EntryLists
<1>3. Enters(t, st, "memory", NoBlock) /\ UNCHANGED <<inHeap, given, traceLog, names, boxed, threadSems, lives, moved>>
  BY <1>1 DEF Malloc
<1> QED
  BY <1>2, <1>3, OsiCalls

LEMMA OsiCreate == ASSUME OsiInv, NEW t \in BlobIds, NEW kind \in BoxKinds, Create(t, kind) PROVE OsiInv'
<1>1. PICK st : st = CreateEntry(kind)
  OBVIOUS
<1>2. /\ st \in OsiLeft /\ NextOf(st) = (IF kind = "queue" THEN "storage" ELSE "box")
      /\ LastOf(st) \in {"box", "name"}
  <2>1. CASE kind = "queue"
    BY <1>1, <2>1, CreateLists, EntryLists
  <2>2. CASE kind \in {"semaphore", "mutex"}
    <3>1. st = <<"box", "name">>
      BY <1>1, <2>2, CreateLists
    <3> QED
      BY <2>2, <3>1, EntryLists
  <2>3. CASE kind \in {"events", "spinlock"}
    <3>1. st = <<"box">>
      BY <1>1, <2>3, CreateLists
    <3> QED
      BY <2>3, <3>1, EntryLists
  <2> QED
    BY <2>1, <2>2, <2>3 DEF BoxKinds, NamedKinds
<1>3. Enters(t, st, kind, NoBlock) /\ UNCHANGED <<inHeap, given, traceLog, names, boxed, threadSems, lives, moved>>
  BY <1>1 DEF Create
<1> QED
  BY <1>2, <1>3, OsiCalls

LEMMA OsiWifiCreate == ASSUME OsiInv, NEW t \in BlobIds, WifiCreateQueue(t) PROVE OsiInv'
<1>1. PICK st : st = CreateEntry("queue") \o <<"wrap">>
  OBVIOUS
<1>2. st \in OsiLeft /\ NextOf(st) = "storage" /\ LastOf(st) = "wrap"
  BY <1>1, CreateLists, EntryLists
<1>3. Enters(t, st, "queue", NoBlock) /\ UNCHANGED <<inHeap, given, traceLog, names, boxed, threadSems, lives, moved>>
  BY <1>1 DEF WifiCreateQueue
<1>4. "queue" \in BoxKinds
  BY DEF BoxKinds, NamedKinds
<1> QED
  BY <1>2, <1>3, <1>4, OsiCalls

LEMMA OsiSemphrGet == ASSUME OsiInv, NEW t \in BlobIds, ThreadSemphrGet(t) PROVE OsiInv'
<1>1. PICK st : st = IF \E s \in threadSems : s.task = t THEN <<>> ELSE CreateEntry("semaphore") \o <<"store">>
  OBVIOUS
<1>2. st \in OsiLeft /\ NextOf(st) \in {"none", "box"} /\ LastOf(st) \in {"none", "store"}
      /\ (LastOf(st) = "store" => \A s \in threadSems : s.task # t)
  <2>1. CASE \E s \in threadSems : s.task = t
    BY <1>1, <2>1, EntryLists
  <2>2. CASE ~\E s \in threadSems : s.task = t
    <3>1. st = <<"box", "name", "store">>
      BY <1>1, <2>2, CreateLists
    <3> QED
      BY <2>2, <3>1, EntryLists
  <2> QED
    BY <2>1, <2>2
<1>3. /\ Enters(t, st, "semaphore", NoBlock)
      /\ UNCHANGED <<inHeap, given, traceLog, names, boxed, threadSems, lives, moved>>
  BY <1>1 DEF ThreadSemphrGet
<1>4. "semaphore" \in BoxKinds \ {"queue"}
  BY DEF BoxKinds, NamedKinds
<1> QED
  BY <1>2, <1>3, <1>4, OsiCalls

LEMMA StepIsNext ==
  ASSUME NEW t, NEW s, StepIs(t, s)
  PROVE  entry[t].steps # <<>> /\ NextOf(entry[t].steps) = s /\ Head(entry[t].steps) = s
  BY DEF StepIs, NextOf

(* An entry that gives up holds nothing.                                   *)
LEMMA OsiFails ==
  ASSUME OsiInv, NEW t \in BlobIds, Fails(t), NextOf(entry[t].steps) # "note_free",
         UNCHANGED <<inHeap, boxed, given, traceLog, threadSems, lives, osiCalls, moved>>
  PROVE  OsiInv'
<1>1. entry' = [entry EXCEPT ![t] = Away] /\ Away \in EntryRec
  BY AwayIs DEF Fails
<1>2. \A a : ~Frees(entry[t], a)
  BY DEF Frees
<1>3. Fits(t, Away, boxed', lives', threadSems')
  BY AwayIs
<1>4. \A a : ~Holds(Away, a) /\ ~Refers(Away, a) /\ ~Frees(Away, a)
  BY AwayIs
<1> QED
  BY <1>1, <1>2, <1>3, <1>4, OsiQuiet, OsiFacts, SameIsSame

(* A box that is done is the same box.                                     *)
LEMMA DoneIs ==
  ASSUME OsiInv, NEW t \in BlobIds, entry[t].handle \in DOMAIN boxed, boxed' = Done(t)
  PROVE  SameBoxes /\ boxed' \in [DOMAIN boxed' -> BoxRec]
<1>1. PICK k, b, d : k = entry[t].handle /\ b = boxed /\ d = (Len(entry[t].steps) = 1)
  OBVIOUS
<1>2. k \in DOMAIN b /\ b \in [DOMAIN b -> BoxRec] /\ d \in BOOLEAN
  BY <1>1, OsiFacts
<1>3. PICK r : r = [b[k] EXCEPT !.done = d]
  OBVIOUS
<1>4. b[k] \in BoxRec
  BY <1>2
<1>5. r \in BoxRec /\ r.kind = b[k].kind /\ r.inner = b[k].inner /\ r.life = b[k].life
  BY <1>2, <1>3, <1>4 DEF BoxRec
<1>6. PICK b2 : b2 = [b EXCEPT ![k] = r]
  OBVIOUS
<1>7. /\ DOMAIN b2 = DOMAIN b /\ b2 \in [DOMAIN b -> BoxRec]
      /\ \A x \in DOMAIN b : b2[x].kind = b[x].kind /\ b2[x].inner = b[x].inner /\ b2[x].life = b[x].life
  BY <1>2, <1>5, <1>6
<1>8. boxed' = b2
  BY <1>1, <1>3, <1>6 DEF Done
<1> QED
  BY <1>1, <1>7, <1>8 DEF SameBoxes

LEMMA OsiNoteObject == ASSUME OsiInv, NEW t \in BlobIds, NoteObject(t) PROVE OsiInv'
<1>1. entry[t] \in EntryRec /\ entry[t].steps # <<>> /\ NextOf(entry[t].steps) = "name" /\ Steps(t, entry[t])
  BY OsiFacts, StepIsNext DEF NoteObject
<1>2. PICK e, h, l, n :
           /\ e \in EntryRec /\ entry' = [entry EXCEPT ![t] = e] /\ h = NextOf(entry[t].steps) /\ l = LastOf(entry[t].steps)
           /\ n = NextOf(e.steps) /\ After(h, l, n)
           /\ h = l => e = Away
           /\ h # l => LastOf(e.steps) = l /\ e.got = entry[t].got /\ e.kind = entry[t].kind /\ e.handle = entry[t].handle
  BY <1>1, StepsTo
<1>3. h = "name" /\ l \in {"name", "wrap", "store"} /\ (l # "name" => n = l)
  BY <1>1, <1>2 DEF After
<1>4. FitsAt(h, l, t, entry[t], boxed, lives, threadSems)
  BY <1>2, OsiFacts DEF Fits
<1>5. /\ entry[t].handle \in DOMAIN boxed /\ boxed[entry[t].handle].kind = entry[t].kind /\ entry[t].kind \in BoxKinds
      /\ (l = "wrap" => entry[t].kind = "queue") /\ (l = "store" => entry[t].kind = "semaphore")
      /\ (l = "store" => boxed[entry[t].handle].life = lives[t] /\ \A s \in threadSems : s.task # t)
  BY <1>3, <1>4 DEF FitsAt, RefSteps
<1>6. SameBoxes /\ boxed' \in [DOMAIN boxed' -> BoxRec]
  BY <1>5, DoneIs DEF NoteObject
<1>7. UNCHANGED <<inHeap, given, traceLog, moved, threadSems, lives, osiCalls>>
  BY DEF NoteObject
<1>8. CASE l = "name"
  <2>1. e = Away
    BY <1>2, <1>3, <1>8
  <2>2. \A a : ~Frees(entry[t], a)
    BY <1>1 DEF Frees
  <2> QED
    BY <1>2, <1>6, <1>7, <2>1, <2>2, AwayIs, OsiQuiet, OsiFacts
<1>9. CASE l # "name"
  <2>1. n = l /\ l \in {"wrap", "store"} /\ LastOf(e.steps) = l /\ NextOf(e.steps) = l
        /\ e.kind = entry[t].kind /\ e.handle = entry[t].handle
    BY <1>2, <1>3, <1>9
  <2>2. FitsAt(l, l, t, e, boxed', lives', threadSems')
    BY <1>5, <1>6, <1>7, <2>1 DEF FitsAt, RefSteps, SameBoxes
  <2>3. Fits(t, e, boxed', lives', threadSems')
    BY <2>1, <2>2 DEF Fits
  <2>4. \A a : ~Frees(entry[t], a) /\ ~Frees(e, a) /\ ~Holds(e, a)
    BY <1>1, <2>1 DEF Frees, Holds
  <2>5. \A a : Refers(e, a) => Refers(entry[t], a)
    BY <1>1, <2>1 DEF Refers, RefSteps
  <2> QED
    BY <1>2, <1>6, <1>7, <2>3, <2>4, <2>5, OsiQuiet, OsiFacts
<1> QED
  BY <1>8, <1>9

LEMMA OsiEndLife == ASSUME OsiInv, NEW t \in BlobIds, EndLife(t) PROVE OsiInv'
<1>1. entry[t] \in EntryRec /\ entry[t].steps # <<>> /\ NextOf(entry[t].steps) = "end" /\ Steps(t, entry[t])
  BY OsiFacts, StepIsNext DEF EndLife
<1>2. PICK e, h, l, n :
           /\ e \in EntryRec /\ entry' = [entry EXCEPT ![t] = e] /\ h = NextOf(entry[t].steps) /\ l = LastOf(entry[t].steps)
           /\ n = NextOf(e.steps) /\ After(h, l, n) /\ (h = l => e = Away)
  BY <1>1, StepsTo
<1>3. h = "end" /\ l = "end" /\ e = Away
  BY <1>1, <1>2 DEF After
<1>4. FitsAt(h, l, t, entry[t], boxed, lives, threadSems)
  BY <1>2, OsiFacts DEF Fits
<1>5. \A s \in threadSems : s.task # t
  BY <1>3, <1>4 DEF FitsAt
<1>6. lives' = [lives EXCEPT ![t] = @ + 1] /\ UNCHANGED <<inHeap, given, traceLog, names, boxed, threadSems, osiCalls, moved>>
  BY DEF EndLife
<1>7. lives' \in [BlobIds -> Nat] /\ \A u \in BlobIds : u # t => lives'[u] = lives[u]
  BY <1>6, OsiFacts
<1>8. \A s \in threadSems' : lives'[s.task] = lives[s.task]
  BY <1>5, <1>6, <1>7, OsiFacts
<1>9. \A a : ~Frees(entry[t], a)
  BY <1>1 DEF Frees
<1> QED
  BY <1>2, <1>3, <1>6, <1>7, <1>8, <1>9, AwayIs, OsiQuiet, OsiFacts, SameIsSame

LEMMA OsiStoreSem == ASSUME OsiInv, NEW t \in BlobIds, StoreSem(t) PROVE OsiInv'
<1>1. entry[t] \in EntryRec /\ entry[t].steps # <<>> /\ NextOf(entry[t].steps) = "store"
  BY OsiFacts, StepIsNext DEF StoreSem
<1>2. PICK f : f = [entry[t] EXCEPT !.handle = NoBlock]
  OBVIOUS
<1>3. f \in EntryRec /\ f.steps = entry[t].steps /\ Steps(t, f)
  BY <1>1, <1>2 DEF EntryRec, StoreSem
<1>4. PICK e, h, l, n :
           /\ e \in EntryRec /\ entry' = [entry EXCEPT ![t] = e] /\ h = NextOf(entry[t].steps) /\ l = LastOf(entry[t].steps)
           /\ n = NextOf(e.steps) /\ After(h, l, n) /\ (h = l => e = Away)
  BY <1>1, <1>3, StepsTo
<1>5. h = "store" /\ l = "store" /\ e = Away
  BY <1>1, <1>4 DEF After
<1>6. FitsAt(h, l, t, entry[t], boxed, lives, threadSems)
  BY <1>4, OsiFacts DEF Fits
<1>7. PICK k : k = entry[t].handle
  OBVIOUS
<1>8. k \in DOMAIN boxed /\ boxed[k].kind = "semaphore" /\ boxed[k].life = lives[t] /\ \A s \in threadSems : s.task # t
  BY <1>5, <1>6, <1>7 DEF FitsAt, RefSteps
<1>9. SameBoxes /\ boxed' \in [DOMAIN boxed' -> BoxRec]
  BY <1>7, <1>8, DoneIs DEF StoreSem
<1>10. UNCHANGED <<inHeap, given, traceLog, moved, lives, osiCalls>>
  BY DEF StoreSem
<1>11. PICK new : new = [task |-> t, handle |-> k]
  OBVIOUS
<1>12. new.task = t /\ new.handle = k /\ new \in [task : BlobIds, handle : HeapBlocks]
  BY <1>8, <1>11, OsiFacts
<1>13. threadSems' \subseteq threadSems \cup {new}
  BY <1>7, <1>11 DEF StoreSem
<1>14. \A a : ~Holds(Away, a) /\ ~Refers(Away, a) /\ ~Frees(Away, a)
  BY AwayIs
<1>15. Refers(entry[t], k) /\ \A a : ~Frees(entry[t], a)
  BY <1>1, <1>7 DEF Refers, RefSteps, Frees
<1>16. entry' \in [BlobIds -> EntryRec] /\ entry'[t] = Away /\ \A u \in BlobIds : u # t => entry'[u] = entry[u]
  BY <1>4, <1>5, OsiTurn
<1>17. \A u \in BlobIds : \A x : Refers(entry'[u], x) => u # t /\ Refers(entry[u], x)
  BY <1>14, <1>16
<1>18. OsiTyped'
  BY <1>9, <1>10, <1>12, <1>13, <1>16, OsiFacts DEF OsiTyped
<1>19. EntriesFit'
  <2>1. Fits(t, e, boxed', lives', threadSems')
    BY <1>5, AwayIs
  <2>2. \A u \in BlobIds : u # t => lives'[u] = lives[u] /\ \A s \in threadSems' : s.task = u => s \in threadSems
    BY <1>10, <1>12, <1>13
  <2>3. \A x \in DOMAIN boxed : x \in DOMAIN boxed' /\ boxed'[x].kind = boxed[x].kind /\ boxed'[x].life = boxed[x].life
    BY <1>9 DEF SameBoxes
  <2> QED
    BY <1>4, <2>1, <2>2, <2>3, EntriesStill
<1>20. Places'
  BY <1>4, <1>5, <1>9, <1>10, <1>14, PlacesStill
<1>21. RefsApart'
  BY <1>9, <1>17 DEF OsiInv, RefsApart, SameBoxes
<1>22. WrapsFit'
  BY SMTT(30), <1>9, <1>17 DEF OsiInv, WrapsFit, SameBoxes
<1>23. SemsFit'
  <2>1. \A s \in threadSems : s.handle # k
    BY <1>15 DEF OsiInv, SemsFit
  <2>2. \A u \in BlobIds : ~Refers(entry'[u], k)
    BY <1>8, <1>15, <1>17 DEF OsiInv, RefsApart
  <2>3. ASSUME NEW s \in threadSems'
        PROVE  /\ s.handle \in DOMAIN boxed' /\ boxed'[s.handle].kind = "semaphore"
               /\ boxed'[s.handle].life = lives'[s.task] /\ \A u \in BlobIds : ~Refers(entry'[u], s.handle)
    <3>1. CASE s \in threadSems
      BY <1>9, <1>10, <1>17, <3>1 DEF OsiInv, SemsFit, SameBoxes
    <3>2. CASE s = new
      BY <1>8, <1>9, <1>10, <1>12, <2>2, <3>2 DEF SameBoxes
    <3> QED
      BY <1>13, <3>1, <3>2
  <2>4. ASSUME NEW s \in threadSems', NEW u \in threadSems', s.task = u.task \/ s.handle = u.handle PROVE s = u
    <3>1. CASE s \in threadSems /\ u \in threadSems
      BY <2>4, <3>1 DEF OsiInv, SemsFit
    <3>2. CASE s \in threadSems /\ u = new
      BY <1>8, <1>12, <2>1, <2>4, <3>2
    <3>3. CASE s = new /\ u \in threadSems
      BY <1>8, <1>12, <2>1, <2>4, <3>3
    <3> QED
      BY <1>13, <3>1, <3>2, <3>3
  <2> QED
    BY <2>3, <2>4 DEF SemsFit
<1>24. TraceFits'
  BY <1>4, <1>5, <1>10, <1>14, <1>15, TraceStill
<1> QED
  BY <1>18, <1>19, <1>20, <1>21, <1>22, <1>23, <1>24 DEF OsiInv

(* A new box, at an address nobody had.                                    *)
LEMMA NewBox ==
  ASSUME OsiInv, NEW a \in HeapBlocks, a \notin inHeap, NEW r \in BoxRec,
         boxed' = [x \in DOMAIN boxed' |-> boxed'[x]], DOMAIN boxed' = DOMAIN boxed \cup {a}, boxed'[a] = r,
         \A x \in DOMAIN boxed : x # a => boxed'[x] = boxed[x]
  PROVE  /\ DOMAIN boxed' = DOMAIN boxed \cup {a} /\ boxed' \in [DOMAIN boxed' -> BoxRec] /\ boxed'[a] = r
         /\ \A x \in DOMAIN boxed : x # a /\ boxed'[x] = boxed[x]
         /\ a \notin DOMAIN boxed /\ a \notin DOMAIN given
         /\ \A u \in BlobIds : ~Holds(entry[u], a) /\ ~Refers(entry[u], a)
         /\ \A x \in DOMAIN boxed : boxed[x].kind \in {"queue", "wrapper"} => boxed[x].inner # a
<1>1. a \notin DOMAIN boxed /\ a \notin DOMAIN given /\ \A u \in BlobIds : ~Holds(entry[u], a)
  BY DEF OsiInv, Places
<1>2. \A x \in DOMAIN boxed : x # a /\ boxed'[x] = boxed[x]
  BY <1>1
<1>3. DOMAIN boxed' = DOMAIN boxed \cup {a} /\ boxed'[a] = r
  OBVIOUS
<1>4. boxed' \in [DOMAIN boxed' -> BoxRec]
  BY <1>2, <1>3, OsiFacts
<1>5. ASSUME NEW u \in BlobIds PROVE ~Refers(entry[u], a)
  <2>1. Fits(u, entry[u], boxed, lives, threadSems)
    BY OsiFacts
  <2>2. NextOf(entry[u].steps) \in RefSteps => entry[u].handle \in DOMAIN boxed
    BY <2>1 DEF Fits, FitsAt
  <2> QED
    BY <1>1, <2>2 DEF Refers
<1>6. \A x \in DOMAIN boxed : boxed[x].kind \in {"queue", "wrapper"} => boxed[x].inner # a
  BY <1>1 DEF OsiInv, Places, WrapsFit
<1> QED
  BY <1>1, <1>2, <1>3, <1>4, <1>5, <1>6

LEMMA OsiWrapFails ==
  ASSUME OsiInv, NEW t \in BlobIds, StepIs(t, "wrap"), entry' = [entry EXCEPT ![t].steps = DeleteEntry("queue")],
         UNCHANGED <<inHeap, boxed, given, traceLog, names, threadSems, lives, osiCalls, moved>>
  PROVE  OsiInv'
<1>1. entry[t] \in EntryRec /\ entry[t].steps # <<>> /\ NextOf(entry[t].steps) = "wrap"
  BY OsiFacts, StepIsNext
<1>2. PICK h, l, n : h = NextOf(entry[t].steps) /\ l = LastOf(entry[t].steps) /\ n = Tail(entry[t].steps)
  OBVIOUS
<1>3. h = "wrap" /\ l = "wrap"
  BY <1>1, <1>2, OsiLists, OsiFacts
<1>4. FitsAt(h, l, t, entry[t], boxed, lives, threadSems)
  BY <1>2, OsiFacts DEF Fits
<1>5. entry[t].handle \in DOMAIN boxed /\ boxed[entry[t].handle].kind = "queue"
  BY <1>3, <1>4 DEF FitsAt, RefSteps
<1>6. PICK st : st = DeleteEntry("queue")
  OBVIOUS
<1>7. st \in OsiLeft /\ NextOf(st) = "unbox" /\ LastOf(st) = "drop_storage"
  BY <1>6, CreateLists, EntryLists
<1>8. PICK e : e = [entry[t] EXCEPT !.steps = st]
  OBVIOUS
<1>9. e \in EntryRec /\ e.steps = st /\ e.handle = entry[t].handle /\ e.kind = entry[t].kind /\ e.got = entry[t].got
  BY <1>1, <1>7, <1>8 DEF EntryRec
<1>10. entry' = [entry EXCEPT ![t] = e]
  BY <1>6, <1>8
<1>11. FitsAt("unbox", "drop_storage", t, e, boxed', lives', threadSems')
  BY <1>5, <1>9 DEF FitsAt, RefSteps
<1>12. Fits(t, e, boxed', lives', threadSems')
  BY <1>7, <1>9, <1>11 DEF Fits
<1>13. \A a : ~Frees(entry[t], a) /\ ~Frees(e, a) /\ ~Holds(e, a)
  BY <1>1, <1>7, <1>9 DEF Frees, Holds
<1>14. \A a : Refers(e, a) => Refers(entry[t], a)
  BY <1>1, <1>9 DEF Refers, RefSteps
<1> QED
  BY <1>9, <1>10, <1>12, <1>13, <1>14, OsiQuiet, OsiFacts, SameIsSame

LEMMA OsiWraps ==
  ASSUME OsiInv, NEW t \in BlobIds, StepIs(t, "wrap"), NEW a \in HeapBlocks, a \notin inHeap,
         inHeap' = inHeap \cup {a},
         boxed' = [h \in DOMAIN boxed \cup {a} |->
                     IF h # a THEN boxed[h]
                     ELSE [kind |-> "wrapper", done |-> TRUE, inner |-> entry[t].handle, life |-> lives[t]]],
         Steps(t, [entry[t] EXCEPT !.handle = NoBlock]),
         UNCHANGED <<given, traceLog, names, threadSems, lives, osiCalls, moved>>
  PROVE  OsiInv'
<1>1. entry[t] \in EntryRec /\ entry[t].steps # <<>> /\ NextOf(entry[t].steps) = "wrap"
  BY OsiFacts, StepIsNext
<1>2. PICK f : f = [entry[t] EXCEPT !.handle = NoBlock]
  OBVIOUS
<1>3. f \in EntryRec /\ f.steps = entry[t].steps /\ Steps(t, f)
  BY <1>1, <1>2 DEF EntryRec
<1>4. PICK e, h, l, n :
           /\ e \in EntryRec /\ entry' = [entry EXCEPT ![t] = e] /\ h = NextOf(entry[t].steps) /\ l = LastOf(entry[t].steps)
           /\ n = NextOf(e.steps) /\ After(h, l, n) /\ (h = l => e = Away)
  BY <1>1, <1>3, StepsTo
<1>5. h = "wrap" /\ l = "wrap" /\ e = Away
  BY <1>1, <1>4 DEF After
<1>6. FitsAt(h, l, t, entry[t], boxed, lives, threadSems)
  BY <1>4, OsiFacts DEF Fits
<1>7. PICK q, r : q = entry[t].handle /\ r = [kind |-> "wrapper", done |-> TRUE, inner |-> q, life |-> lives[t]]
  OBVIOUS
<1>8. q \in DOMAIN boxed /\ boxed[q].kind = "queue"
  BY <1>5, <1>6, <1>7 DEF FitsAt, RefSteps
<1>9. r \in BoxRec /\ r.kind = "wrapper" /\ r.inner = q
  BY <1>7, <1>8, OsiFacts DEF BoxRec
<1>10. /\ boxed' = [x \in DOMAIN boxed' |-> boxed'[x]] /\ DOMAIN boxed' = DOMAIN boxed \cup {a} /\ boxed'[a] = r
       /\ \A x \in DOMAIN boxed : x # a => boxed'[x] = boxed[x]
  BY <1>7
<1>11. /\ DOMAIN boxed' = DOMAIN boxed \cup {a} /\ boxed' \in [DOMAIN boxed' -> BoxRec] /\ boxed'[a] = r
       /\ \A x \in DOMAIN boxed : x # a /\ boxed'[x] = boxed[x]
       /\ a \notin DOMAIN boxed /\ a \notin DOMAIN given
       /\ \A u \in BlobIds : ~Holds(entry[u], a) /\ ~Refers(entry[u], a)
       /\ \A x \in DOMAIN boxed : boxed[x].kind \in {"queue", "wrapper"} => boxed[x].inner # a
  BY <1>9, <1>10, NewBox
<1>14. \A b : ~Holds(Away, b) /\ ~Refers(Away, b) /\ ~Frees(Away, b)
  BY AwayIs
<1>15. Refers(entry[t], q) /\ \A b : ~Frees(entry[t], b)
  BY <1>1, <1>7 DEF Refers, RefSteps, Frees
<1>16. entry' \in [BlobIds -> EntryRec] /\ entry'[t] = Away /\ \A u \in BlobIds : u # t => entry'[u] = entry[u]
  BY <1>4, <1>5, OsiTurn
<1>17. \A u \in BlobIds : \A x : /\ Refers(entry'[u], x) => u # t /\ Refers(entry[u], x)
                                 /\ Holds(entry'[u], x) => u # t /\ Holds(entry[u], x)
  BY <1>14, <1>16
<1>18. OsiTyped'
  BY <1>11, <1>16, OsiFacts DEF OsiTyped
<1>19. EntriesFit'
  <2>1. Fits(t, e, boxed', lives', threadSems')
    BY <1>5, AwayIs
  <2>2. \A x \in DOMAIN boxed : x \in DOMAIN boxed' /\ boxed'[x].kind = boxed[x].kind /\ boxed'[x].life = boxed[x].life
    BY <1>11
  <2> QED
    BY <1>4, <2>1, <2>2, EntriesStill
<1>20. Places'
  <2>0. Places
    BY DEF OsiInv
  <2>1. /\ \A b \in DOMAIN given' : b \in inHeap' /\ b \notin DOMAIN boxed'
        /\ DOMAIN boxed' \subseteq inHeap'
    BY <1>11, <2>0 DEF Places
  <2>2. \A u \in BlobIds : \A b \in HeapBlocks :
          Holds(entry'[u], b) => b \in inHeap' /\ b \notin DOMAIN given' /\ b \notin DOMAIN boxed'
    BY SMTT(30), <1>11, <1>17, <2>0 DEF Places
  <2>3. \A u, v \in BlobIds : \A b \in HeapBlocks : Holds(entry'[u], b) /\ Holds(entry'[v], b) => u = v
    BY <1>17, <2>0 DEF Places
  <2>4. \A x \in DOMAIN boxed' : boxed'[x].kind = "queue" => x \in DOMAIN boxed /\ boxed'[x] = boxed[x]
    BY <1>9, <1>11
  <2>5. \A x \in DOMAIN boxed' : boxed'[x].kind = "queue" =>
          /\ boxed'[x].inner \in inHeap' /\ boxed'[x].inner \notin DOMAIN given' /\ boxed'[x].inner \notin DOMAIN boxed'
          /\ \A u \in BlobIds : ~Holds(entry'[u], boxed'[x].inner)
    BY <1>11, <1>17, <2>0, <2>4 DEF Places
  <2>6. \A x, k \in DOMAIN boxed' :
          boxed'[x].kind = "queue" /\ boxed'[k].kind = "queue" /\ boxed'[x].inner = boxed'[k].inner => x = k
    BY <2>0, <2>4 DEF Places
  <2> QED
    BY <2>1, <2>2, <2>3, <2>5, <2>6 DEF Places
<1>21. RefsApart'
  <2>0. \A u, v \in BlobIds : \A x \in DOMAIN boxed : Refers(entry[u], x) /\ Refers(entry[v], x) => u = v
    BY DEF OsiInv, RefsApart
  <2>1. ASSUME NEW u \in BlobIds, NEW v \in BlobIds, NEW x \in DOMAIN boxed', Refers(entry'[u], x), Refers(entry'[v], x)
        PROVE  u = v
    <3>1. CASE x = a
      BY <1>11, <1>17, <2>1, <3>1
    <3>2. CASE x \in DOMAIN boxed
      BY <1>11, <1>17, <2>0, <2>1, <3>2
    <3> QED
      BY <1>11, <3>1, <3>2
  <2> QED
    BY <2>1 DEF RefsApart
<1>22. WrapsFit'
  <2>1. \A x \in DOMAIN boxed : boxed[x].kind = "wrapper" => boxed[x].inner # q
    BY <1>15 DEF OsiInv, WrapsFit
  <2>2. \A u \in BlobIds : ~Refers(entry'[u], q)
    BY <1>8, <1>15, <1>17 DEF OsiInv, RefsApart
  <2>3. ASSUME NEW w \in DOMAIN boxed', boxed'[w].kind = "wrapper"
        PROVE  /\ boxed'[w].inner \in DOMAIN boxed' /\ boxed'[boxed'[w].inner].kind = "queue"
               /\ \A u \in BlobIds : ~Refers(entry'[u], boxed'[w].inner)
    <3>1. CASE w = a
      BY <1>8, <1>9, <1>11, <2>2, <3>1
    <3>2. CASE w \in DOMAIN boxed
      BY <1>11, <1>17, <2>3, <3>2 DEF OsiInv, WrapsFit
    <3> QED
      BY <1>11, <3>1, <3>2
  <2>4. \A w, x \in DOMAIN boxed' :
          boxed'[w].kind = "wrapper" /\ boxed'[x].kind = "wrapper" /\ boxed'[w].inner = boxed'[x].inner => w = x
    BY <1>9, <1>11, <2>1 DEF OsiInv, WrapsFit
  <2> QED
    BY <2>3, <2>4 DEF WrapsFit
<1>23. SemsFit'
  BY <1>11, <1>17 DEF OsiInv, SemsFit
<1>24. TraceFits'
  BY <1>4, <1>5, <1>14, <1>15, TraceStill
<1> QED
  BY <1>18, <1>19, <1>20, <1>21, <1>22, <1>23, <1>24 DEF OsiInv

LEMMA OsiWrap == ASSUME OsiInv, NEW t \in BlobIds, Wrap(t) PROVE OsiInv'
<1>1. CASE entry' = [entry EXCEPT ![t].steps = DeleteEntry("queue")] /\ UNCHANGED <<inHeap, boxed>>
  <2>1. StepIs(t, "wrap") /\ UNCHANGED <<inHeap, boxed, given, traceLog, names, threadSems, lives, osiCalls, moved>>
    BY <1>1 DEF Wrap
  <2> QED
    BY <1>1, <2>1, OsiWrapFails
<1>2. CASE ~(entry' = [entry EXCEPT ![t].steps = DeleteEntry("queue")] /\ UNCHANGED <<inHeap, boxed>>)
  BY <1>2, OsiWraps DEF Wrap
<1> QED
  BY <1>1, <1>2

(* An address nobody had.                                                  *)
LEMMA FreshBlock ==
  ASSUME OsiInv, NEW a \in HeapBlocks, a \notin inHeap
  PROVE  /\ a \notin DOMAIN boxed /\ a \notin DOMAIN given
         /\ \A u \in BlobIds : ~Holds(entry[u], a) /\ ~Refers(entry[u], a)
         /\ \A x \in DOMAIN boxed : boxed[x].kind \in {"queue", "wrapper"} => boxed[x].inner # a
<1>1. a \notin DOMAIN boxed /\ a \notin DOMAIN given /\ \A u \in BlobIds : ~Holds(entry[u], a)
  BY DEF OsiInv, Places
<1>5. ASSUME NEW u \in BlobIds PROVE ~Refers(entry[u], a)
  <2>1. Fits(u, entry[u], boxed, lives, threadSems)
    BY OsiFacts
  <2>2. NextOf(entry[u].steps) \in RefSteps => entry[u].handle \in DOMAIN boxed
    BY <2>1 DEF Fits, FitsAt
  <2> QED
    BY <1>1, <2>2 DEF Refers
<1>6. \A x \in DOMAIN boxed : boxed[x].kind \in {"queue", "wrapper"} => boxed[x].inner # a
  BY <1>1 DEF OsiInv, Places, WrapsFit
<1> QED
  BY <1>1, <1>5, <1>6

LEMMA OsiAllocs ==
  ASSUME OsiInv, NEW t \in BlobIds, entry[t].steps # <<>>, Head(entry[t].steps) \in {"heap_alloc", "storage"},
         NEW a \in HeapBlocks, a \notin inHeap, inHeap' = inHeap \cup {a},
         Steps(t, [entry[t] EXCEPT !.got = Append(@, a)]),
         UNCHANGED <<boxed, given, traceLog, names, threadSems, lives, osiCalls, moved>>
  PROVE  OsiInv'
<1>1. PICK h, l : h = NextOf(entry[t].steps) /\ l = LastOf(entry[t].steps)
  OBVIOUS
<1>2. entry[t] \in EntryRec /\ h \in {"heap_alloc", "storage"} /\ FitsAt(h, l, t, entry[t], boxed, lives, threadSems)
  BY <1>1, OsiFacts DEF Fits, NextOf
<1>3. entry[t].got = <<>> /\ (h = "storage" => entry[t].kind = "queue")
      /\ (l = "wrap" => entry[t].kind = "queue")
  BY <1>2 DEF FitsAt
<1>4. PICK f : f = [entry[t] EXCEPT !.got = <<a>>]
  OBVIOUS
<1>5. <<a>> \in GotLists
  BY DEF GotLists
<1>6. /\ f \in EntryRec /\ f.steps = entry[t].steps /\ f.got = <<a>> /\ f.kind = entry[t].kind
      /\ f.handle = entry[t].handle
  BY <1>2, <1>4, <1>5 DEF EntryRec
<1>7. Append(<<>>, a) = <<a>>
  OBVIOUS
<1>8. Steps(t, f)
  BY <1>3, <1>4, <1>7
<1>9. PICK e, n :
           /\ e \in EntryRec /\ entry' = [entry EXCEPT ![t] = e] /\ n = NextOf(e.steps) /\ After(h, l, n)
           /\ h # l => LastOf(e.steps) = l /\ e.got = f.got /\ e.kind = f.kind
  BY <1>1, <1>6, <1>8, StepsTo
<1>10. /\ n \in {"note_alloc", "box"} /\ LastOf(e.steps) = l /\ e.got = <<a>> /\ e.kind = entry[t].kind
       /\ l \in {"note_alloc", "name", "wrap"} /\ (n = "box" => e.kind = "queue") /\ NextOf(e.steps) = n
  BY <1>2, <1>3, <1>6, <1>9 DEF After
<1>11. FitsAt(n, l, t, e, boxed', lives', threadSems')
  <2>1. "queue" \in BoxKinds
    BY DEF BoxKinds, NamedKinds
  <2> QED
    BY <1>3, <1>10, <2>1 DEF FitsAt, RefSteps
<1>12. Fits(t, e, boxed', lives', threadSems')
  BY <1>10, <1>11 DEF Fits
<1>13. \A b : (Holds(e, b) => b = a) /\ ~Refers(e, b) /\ ~Frees(e, b) /\ ~Frees(entry[t], b)
  <2>1. \A b : <<a>> = <<b>> => a = b
    OBVIOUS
  <2> QED
    BY <1>1, <1>2, <1>10, <2>1 DEF Holds, Refers, Frees, RefSteps
<1>14. /\ a \notin DOMAIN boxed /\ a \notin DOMAIN given
       /\ \A u \in BlobIds : ~Holds(entry[u], a) /\ ~Refers(entry[u], a)
       /\ \A x \in DOMAIN boxed : boxed[x].kind \in {"queue", "wrapper"} => boxed[x].inner # a
  BY FreshBlock
<1>15. entry' \in [BlobIds -> EntryRec] /\ entry'[t] = e /\ \A u \in BlobIds : u # t => entry'[u] = entry[u]
  BY <1>9, OsiTurn
<1>16. OsiTyped'
  BY <1>15, OsiFacts DEF OsiTyped
<1>17. EntriesFit'
  BY <1>9, <1>12, EntriesStill
<1>18. RefsApart' /\ WrapsFit' /\ SemsFit'
  BY <1>9, <1>13, RefsStill, SameIsSame
<1>19. TraceFits'
  BY <1>9, <1>13, TraceStill
<1>20. Places'
  <2>0. Places
    BY DEF OsiInv
  <2>1. \A u \in BlobIds : \A b : Holds(entry'[u], b) => (u = t /\ b = a) \/ (u # t /\ Holds(entry[u], b))
    BY <1>13, <1>15
  <2>2. \A u \in BlobIds : \A b \in HeapBlocks :
          Holds(entry'[u], b) => b \in inHeap' /\ b \notin DOMAIN given' /\ b \notin DOMAIN boxed'
    BY <1>14, <2>0, <2>1 DEF Places
  <2>3. \A u, v \in BlobIds : \A b \in HeapBlocks : Holds(entry'[u], b) /\ Holds(entry'[v], b) => u = v
    BY ZenonT(60), <1>14, <2>0, <2>1 DEF Places
  <2>5. \A x \in DOMAIN boxed' : boxed'[x].kind = "queue" =>
          /\ boxed'[x].inner \in inHeap' /\ boxed'[x].inner \notin DOMAIN given' /\ boxed'[x].inner \notin DOMAIN boxed'
          /\ \A u \in BlobIds : ~Holds(entry'[u], boxed'[x].inner)
    BY <1>14, <2>0, <2>1 DEF Places
  <2> QED
    BY <2>0, <2>2, <2>3, <2>5 DEF Places
<1> QED
  BY <1>16, <1>17, <1>18, <1>19, <1>20 DEF OsiInv

(* No two wrappers hold one queue, before and after a wrapper goes away.   *)
WrapsApart(f) ==
  \A w, x \in DOMAIN f : f[w].kind = "wrapper" /\ f[x].kind = "wrapper" /\ f[w].inner = f[x].inner => w = x
SameWraps(f, g) ==
  \A x \in DOMAIN g : g[x].kind = "wrapper" => x \in DOMAIN f /\ g[x] = f[x]

LEMMA WrapsStayApart ==
  ASSUME NEW f, NEW g, WrapsApart(f), SameWraps(f, g)
  PROVE  WrapsApart(g)
BY DEF WrapsApart, SameWraps

LEMMA OsiBoxes ==
  ASSUME OsiInv, NEW t \in BlobIds, entry[t].steps # <<>>, Head(entry[t].steps) = "box",
         NEW a \in HeapBlocks, a \notin inHeap, inHeap' = inHeap \cup {a},
         boxed' = [h \in DOMAIN boxed \cup {a} |->
                     IF h # a THEN boxed[h]
                     ELSE [kind |-> entry[t].kind, done |-> Len(entry[t].steps) = 1,
                           inner |-> IF entry[t].got = <<>> THEN NoBlock ELSE entry[t].got[1], life |-> lives[t]]],
         Steps(t, [entry[t] EXCEPT !.handle = a]),
         UNCHANGED <<given, traceLog, names, threadSems, lives, osiCalls, moved>>
  PROVE  OsiInv'
<1>1. PICK h, l : h = NextOf(entry[t].steps) /\ l = LastOf(entry[t].steps)
  OBVIOUS
<1>2. entry[t] \in EntryRec /\ h = "box" /\ FitsAt(h, l, t, entry[t], boxed, lives, threadSems)
  BY <1>1, OsiFacts DEF Fits, NextOf
<1>3. /\ entry[t].kind \in BoxKinds
      /\ entry[t].kind = "queue" => \E b \in HeapBlocks : entry[t].got = <<b>>
      /\ entry[t].kind # "queue" => entry[t].got = <<>>
      /\ (l = "wrap" => entry[t].kind = "queue") /\ (l = "store" => entry[t].kind = "semaphore")
      /\ (l = "store" => \A s \in threadSems : s.task # t)
  BY <1>2 DEF FitsAt
<1>4. PICK f : f = [entry[t] EXCEPT !.handle = a]
  OBVIOUS
<1>5. f \in EntryRec /\ f.steps = entry[t].steps /\ f.got = entry[t].got /\ f.kind = entry[t].kind /\ f.handle = a
      /\ Steps(t, f)
  BY <1>2, <1>4 DEF EntryRec
<1>6. PICK e, n :
           /\ e \in EntryRec /\ entry' = [entry EXCEPT ![t] = e] /\ n = NextOf(e.steps) /\ After(h, l, n)
           /\ h = l => e = Away
           /\ h # l => LastOf(e.steps) = l /\ e.got = f.got /\ e.kind = f.kind /\ e.handle = f.handle
  BY <1>1, <1>5, StepsTo
<1>7. PICK g, d, r : /\ g = (IF entry[t].got = <<>> THEN NoBlock ELSE entry[t].got[1]) /\ d = (Len(entry[t].steps) = 1)
                     /\ r = [kind |-> entry[t].kind, done |-> d, inner |-> g, life |-> lives[t]]
  OBVIOUS
<1>8. /\ g \in HeapBlocks \cup {NoBlock} /\ d \in BOOLEAN
      /\ entry[t].kind = "queue" => g \in HeapBlocks /\ entry[t].got = <<g>> /\ Holds(entry[t], g)
  <2>1. \A b : <<b>> # <<>> /\ <<b>>[1] = b
    OBVIOUS
  <2>2. CASE entry[t].kind = "queue"
    BY <1>1, <1>2, <1>3, <1>7, <2>1, <2>2 DEF Holds
  <2>3. CASE entry[t].kind # "queue"
    BY <1>3, <1>7, <2>3
  <2> QED
    BY <2>2, <2>3
<1>9. r \in BoxRec /\ r.kind = entry[t].kind /\ r.inner = g /\ r.life = lives[t] /\ r.kind # "wrapper"
  <2>1. lives[t] \in Nat /\ "wrapper" \notin BoxKinds
    BY OsiFacts DEF BoxKinds, NamedKinds
  <2> QED
    BY <1>3, <1>7, <1>8, <2>1 DEF BoxRec
<1>10. /\ boxed' = [x \in DOMAIN boxed' |-> boxed'[x]] /\ DOMAIN boxed' = DOMAIN boxed \cup {a} /\ boxed'[a] = r
       /\ \A x \in DOMAIN boxed : x # a => boxed'[x] = boxed[x]
  BY <1>7
<1>11. /\ DOMAIN boxed' = DOMAIN boxed \cup {a} /\ boxed' \in [DOMAIN boxed' -> BoxRec] /\ boxed'[a] = r
       /\ \A x \in DOMAIN boxed : x # a /\ boxed'[x] = boxed[x]
       /\ a \notin DOMAIN boxed /\ a \notin DOMAIN given
       /\ \A u \in BlobIds : ~Holds(entry[u], a) /\ ~Refers(entry[u], a)
       /\ \A x \in DOMAIN boxed : boxed[x].kind \in {"queue", "wrapper"} => boxed[x].inner # a
  <2>1. /\ a \notin DOMAIN boxed /\ a \notin DOMAIN given
        /\ \A u \in BlobIds : ~Holds(entry[u], a) /\ ~Refers(entry[u], a)
        /\ \A x \in DOMAIN boxed : boxed[x].kind \in {"queue", "wrapper"} => boxed[x].inner # a
    BY FreshBlock
  <2>2. \A x \in DOMAIN boxed : x # a /\ boxed'[x] = boxed[x] /\ boxed[x] \in BoxRec
    BY <1>10, <2>1, OsiFacts
  <2>3. boxed' \in [DOMAIN boxed' -> BoxRec]
    <3>1. \A x \in DOMAIN boxed' : boxed'[x] \in BoxRec
      BY <1>9, <1>10, <2>2
    <3> QED
      BY <1>10, <3>1
  <2> QED
    BY <1>10, <2>1, <2>2, <2>3
<1>12. /\ \A b : ~Holds(e, b) /\ ~Frees(e, b) /\ ~Frees(entry[t], b) /\ (Refers(e, b) => b = a)
       /\ Fits(t, e, boxed', lives', threadSems')
  <2>0. \A b : ~Frees(entry[t], b)
    BY <1>1, <1>2 DEF Frees
  <2>1. CASE l = "box"
    <3>1. e = Away
      BY <1>2, <1>6, <2>1
    <3> QED
      BY <2>0, <3>1, AwayIs
  <2>2. CASE l # "box"
    <3>1. /\ n = "name" /\ l \in {"name", "wrap", "store"} /\ LastOf(e.steps) = l /\ NextOf(e.steps) = "name"
          /\ e.kind = entry[t].kind /\ e.handle = a
      BY <1>2, <1>5, <1>6, <2>2 DEF After
    <3>2. \A b : ~Holds(e, b) /\ ~Frees(e, b) /\ (Refers(e, b) => b = a)
      BY <3>1 DEF Holds, Frees, Refers
    <3>3. FitsAt("name", l, t, e, boxed', lives', threadSems')
      BY <1>3, <1>9, <1>11, <3>1 DEF FitsAt, RefSteps
    <3> QED
      BY <2>0, <3>1, <3>2, <3>3 DEF Fits
  <2> QED
    BY <2>1, <2>2
<1>15. entry' \in [BlobIds -> EntryRec] /\ entry'[t] = e /\ \A u \in BlobIds : u # t => entry'[u] = entry[u]
  BY <1>6, OsiTurn
<1>16. OsiTyped'
  BY <1>11, <1>15, OsiFacts DEF OsiTyped
<1>17. EntriesFit'
  <2>1. \A x \in DOMAIN boxed : x \in DOMAIN boxed' /\ boxed'[x].kind = boxed[x].kind /\ boxed'[x].life = boxed[x].life
    BY <1>11
  <2> QED
    BY <1>6, <1>12, <2>1, EntriesStill
<1>18. \A u \in BlobIds : \A x : /\ Refers(entry'[u], x) => (u = t /\ x = a) \/ (u # t /\ Refers(entry[u], x))
                                 /\ Holds(entry'[u], x) => u # t /\ Holds(entry[u], x)
  BY <1>12, <1>15
<1>19. RefsApart'
  <2>0. \A u, v \in BlobIds : \A x \in DOMAIN boxed : Refers(entry[u], x) /\ Refers(entry[v], x) => u = v
    BY DEF OsiInv, RefsApart
  <2>1. ASSUME NEW u \in BlobIds, NEW v \in BlobIds, NEW x \in DOMAIN boxed', Refers(entry'[u], x), Refers(entry'[v], x)
        PROVE  u = v
    <3>1. CASE x = a
      BY <1>11, <1>18, <2>1, <3>1
    <3>2. CASE x \in DOMAIN boxed
      BY <1>11, <1>18, <2>0, <2>1, <3>2
    <3> QED
      BY <1>11, <3>1, <3>2
  <2> QED
    BY <2>1 DEF RefsApart
<1>20. WrapsFit'
  <2>1. \A x \in DOMAIN boxed' : boxed'[x].kind = "wrapper" => x \in DOMAIN boxed /\ boxed'[x] = boxed[x]
    BY <1>9, <1>11
  <2>2. WrapsFit
    BY DEF OsiInv
  <2>3. \A x \in DOMAIN boxed' : boxed'[x].kind = "wrapper" =>
       /\ boxed'[x].inner \in DOMAIN boxed' /\ boxed'[boxed'[x].inner].kind = "queue"
       /\ \A u \in BlobIds : ~Refers(entry'[u], boxed'[x].inner)
    BY ZenonT(60), <1>11, <1>18, <2>1, <2>2 DEF WrapsFit
  <2>4. \A w, x \in DOMAIN boxed' :
       boxed'[w].kind = "wrapper" /\ boxed'[x].kind = "wrapper" /\ boxed'[w].inner = boxed'[x].inner => w = x
    <3>1. WrapsApart(boxed)
      BY <2>2 DEF WrapsFit, WrapsApart
    <3>2. SameWraps(boxed, boxed')
      BY <2>1 DEF SameWraps
    <3>3. WrapsApart(boxed')
      BY <3>1, <3>2, WrapsStayApart
    <3> QED
      BY <3>3, Zenon DEF WrapsApart
  <2> QED
    BY <2>3, <2>4 DEF WrapsFit
<1>21. SemsFit'
  BY ZenonT(60), <1>11, <1>18 DEF OsiInv, SemsFit
<1>22. TraceFits'
  BY <1>6, <1>12, TraceStill
<1>23. Places'
  <2>0. Places
    BY DEF OsiInv
  <2>1. /\ \A b \in DOMAIN given' : b \in inHeap' /\ b \notin DOMAIN boxed'
        /\ DOMAIN boxed' \subseteq inHeap'
    BY <1>11, <2>0 DEF Places
  <2>2. \A u \in BlobIds : \A b \in HeapBlocks :
          Holds(entry'[u], b) => b \in inHeap' /\ b \notin DOMAIN given' /\ b \notin DOMAIN boxed'
    BY ZenonT(60), <1>11, <1>18, <2>0 DEF Places
  <2>3. \A u, v \in BlobIds : \A b \in HeapBlocks : Holds(entry'[u], b) /\ Holds(entry'[v], b) => u = v
    BY <1>18, <2>0 DEF Places
  <2>4. \A x \in DOMAIN boxed : boxed'[x] = boxed[x] /\ (boxed[x].kind = "queue" =>
          /\ boxed[x].inner \in inHeap' /\ boxed[x].inner \notin DOMAIN given' /\ boxed[x].inner \notin DOMAIN boxed'
          /\ \A u \in BlobIds : ~Holds(entry'[u], boxed[x].inner))
    BY <1>11, <1>18, <2>0 DEF Places
  <2>5. r.kind = "queue" => /\ g \in inHeap' /\ g \notin DOMAIN given' /\ g \notin DOMAIN boxed'
                            /\ \A u \in BlobIds : ~Holds(entry'[u], g)
                            /\ \A x \in DOMAIN boxed : boxed[x].kind = "queue" => boxed[x].inner # g
    <3>1. SUFFICES ASSUME r.kind = "queue"
                   PROVE  /\ g \in inHeap' /\ g \notin DOMAIN given' /\ g \notin DOMAIN boxed'
                          /\ \A u \in BlobIds : ~Holds(entry'[u], g)
                          /\ \A x \in DOMAIN boxed : boxed[x].kind = "queue" => boxed[x].inner # g
      OBVIOUS
    <3>2. g \in HeapBlocks /\ Holds(entry[t], g)
      BY <1>8, <1>9, <3>1
    <3>3. g \in inHeap /\ g \notin DOMAIN given /\ g \notin DOMAIN boxed
      BY <2>0, <3>2 DEF Places
    <3>4. \A u \in BlobIds : ~Holds(entry'[u], g)
      BY <1>18, <2>0, <3>2 DEF Places
    <3>5. \A x \in DOMAIN boxed : boxed[x].kind = "queue" => boxed[x].inner # g
      BY <2>0, <3>2 DEF Places
    <3> QED
      BY <1>11, <3>3, <3>4, <3>5
  <2>6. \A x \in DOMAIN boxed' : boxed'[x].kind = "queue" =>
          /\ boxed'[x].inner \in inHeap' /\ boxed'[x].inner \notin DOMAIN given' /\ boxed'[x].inner \notin DOMAIN boxed'
          /\ \A u \in BlobIds : ~Holds(entry'[u], boxed'[x].inner)
    BY <1>9, <1>11, <2>4, <2>5
  <2>7. \A x, k \in DOMAIN boxed' :
          boxed'[x].kind = "queue" /\ boxed'[k].kind = "queue" /\ boxed'[x].inner = boxed'[k].inner => x = k
    BY <1>9, <1>11, <2>0, <2>5 DEF Places
  <2> QED
    BY <2>1, <2>2, <2>3, <2>6, <2>7 DEF Places
<1> QED
  BY <1>16, <1>17, <1>19, <1>20, <1>21, <1>22, <1>23 DEF OsiInv

LEMMA OsiHeapAlloc == ASSUME OsiInv, NEW t \in BlobIds, HeapAlloc(t) PROVE OsiInv'
<1>1. /\ entry[t].steps # <<>> /\ Head(entry[t].steps) \in {"heap_alloc", "storage", "box"}
      /\ UNCHANGED <<given, traceLog, names, threadSems, lives, osiCalls, moved>>
  BY DEF HeapAlloc
<1>2. CASE Fails(t) /\ UNCHANGED <<inHeap, boxed>>
  <2>1. NextOf(entry[t].steps) # "note_free"
    BY <1>1 DEF NextOf
  <2> QED
    BY <1>1, <1>2, <2>1, OsiFails
<1>3. CASE ~(Fails(t) /\ UNCHANGED <<inHeap, boxed>>)
  <2>1. PICK a \in HeapBlocks \ inHeap :
              /\ inHeap' = inHeap \cup {a}
              /\ IF Head(entry[t].steps) = "box"
                 THEN /\ boxed' = [h \in DOMAIN boxed \cup {a} |->
                                     IF h # a THEN boxed[h]
                                     ELSE [kind |-> entry[t].kind, done |-> Len(entry[t].steps) = 1,
                                           inner |-> IF entry[t].got = <<>> THEN NoBlock
                                                     ELSE entry[t].got[1], life |-> lives[t]]]
                      /\ Steps(t, [entry[t] EXCEPT !.handle = a])
                 ELSE /\ Steps(t, [entry[t] EXCEPT !.got = Append(@, a)])
                      /\ UNCHANGED boxed
    BY <1>3, Zenon DEF HeapAlloc
  <2>2. CASE Head(entry[t].steps) = "box"
    BY <1>1, <2>1, <2>2, OsiBoxes, Zenon
  <2>3. CASE Head(entry[t].steps) # "box"
    <3>1. /\ Head(entry[t].steps) \in {"heap_alloc", "storage"} /\ UNCHANGED boxed
          /\ Steps(t, [entry[t] EXCEPT !.got = Append(@, a)])
      BY <1>1, <2>1, <2>3
    <3>2. UNCHANGED <<boxed, given, traceLog, names, threadSems, lives, osiCalls, moved>>
      BY <1>1, <3>1
    <3> QED
      BY <1>1, <2>1, <3>1, <3>2, OsiAllocs, Zenon
  <2> QED
    BY <2>2, <2>3
<1> QED
  BY <1>2, <1>3

(* The entry returns, and what it held is free.                            *)
LEMMA OsiGivesUp ==
  ASSUME OsiInv, NEW t \in BlobIds, NEW a \in HeapBlocks, Holds(entry[t], a), inHeap' = inHeap \ {a},
         entry' = [entry EXCEPT ![t] = Away], NextOf(entry[t].steps) # "note_free",
         UNCHANGED <<given, traceLog, names, boxed, threadSems, lives, osiCalls, moved>>
  PROVE  OsiInv'
<1>1. Away \in EntryRec /\ \A b : ~Holds(Away, b) /\ ~Refers(Away, b) /\ ~Frees(Away, b)
  BY AwayIs
<1>2. \A b : ~Frees(entry[t], b)
  BY DEF Frees
<1>3. entry' \in [BlobIds -> EntryRec] /\ entry'[t] = Away /\ \A u \in BlobIds : u # t => entry'[u] = entry[u]
  BY <1>1, OsiTurn
<1>4. OsiTyped'
  BY <1>3, OsiFacts DEF OsiTyped
<1>5. EntriesFit'
  <2>1. Fits(t, Away, boxed', lives', threadSems')
    BY AwayIs
  <2> QED
    BY <1>1, <2>1, EntriesStill
<1>6. RefsApart' /\ WrapsFit' /\ SemsFit'
  BY <1>1, RefsStill, SameIsSame
<1>7. TraceFits'
  BY <1>1, <1>2, TraceStill
<1>8. Places'
  <2>0. Places
    BY DEF OsiInv
  <2>1. \A u \in BlobIds : \A b \in HeapBlocks : Holds(entry'[u], b) => u # t /\ Holds(entry[u], b) /\ b # a
    BY <1>1, <1>3, <2>0 DEF Places
  <2>2. a \notin DOMAIN given /\ a \notin DOMAIN boxed
    BY <2>0 DEF Places
  <2>3. \A x \in DOMAIN boxed : boxed[x].kind = "queue" => boxed[x].inner \in inHeap /\ boxed[x].inner # a
    BY <2>0 DEF Places
  <2>4. \A x \in DOMAIN boxed : boxed[x].kind = "queue" =>
          \A u \in BlobIds : ~Holds(entry'[u], boxed[x].inner)
    BY <1>1, <1>3, <2>0 DEF Places
  <2> QED
    BY <2>0, <2>1, <2>2, <2>3, <2>4 DEF Places
<1> QED
  BY <1>4, <1>5, <1>6, <1>7, <1>8 DEF OsiInv

LEMMA OsiHeapFree == ASSUME OsiInv, NEW t \in BlobIds, HeapFree(t) PROVE OsiInv'
<1>1. entry[t] \in EntryRec /\ entry[t].steps # <<>> /\ NextOf(entry[t].steps) = "heap_free" /\ Steps(t, entry[t])
  BY OsiFacts, StepIsNext DEF HeapFree
<1>2. PICK e, h, l, n :
           /\ e \in EntryRec /\ entry' = [entry EXCEPT ![t] = e] /\ h = NextOf(entry[t].steps) /\ l = LastOf(entry[t].steps)
           /\ n = NextOf(e.steps) /\ After(h, l, n) /\ (h = l => e = Away)
  BY <1>1, StepsTo
<1>3. h = "heap_free" /\ l = "heap_free" /\ e = Away
  BY <1>1, <1>2 DEF After
<1>4. FitsAt(h, l, t, entry[t], boxed, lives, threadSems)
  BY <1>2, OsiFacts DEF Fits
<1>5. PICK a : a = entry[t].handle
  OBVIOUS
<1>6. a \in HeapBlocks /\ Holds(entry[t], a)
  BY <1>1, <1>3, <1>4, <1>5 DEF FitsAt, Holds
<1>7. inHeap' = inHeap \ {a} /\ UNCHANGED <<given, traceLog, names, boxed, threadSems, lives, osiCalls, moved>>
  BY <1>5 DEF HeapFree
<1> QED
  BY <1>1, <1>2, <1>3, <1>6, <1>7, OsiGivesUp

LEMMA OsiDropStorage == ASSUME OsiInv, NEW t \in BlobIds, DropStorage(t) PROVE OsiInv'
<1>1. entry[t] \in EntryRec /\ entry[t].steps # <<>> /\ NextOf(entry[t].steps) = "drop_storage" /\ Steps(t, entry[t])
  BY OsiFacts, StepIsNext DEF DropStorage
<1>2. PICK e, h, l, n :
           /\ e \in EntryRec /\ entry' = [entry EXCEPT ![t] = e] /\ h = NextOf(entry[t].steps) /\ l = LastOf(entry[t].steps)
           /\ n = NextOf(e.steps) /\ After(h, l, n) /\ (h = l => e = Away)
  BY <1>1, StepsTo
<1>3. h = "drop_storage" /\ l = "drop_storage" /\ e = Away
  BY <1>1, <1>2 DEF After
<1>4. FitsAt(h, l, t, entry[t], boxed, lives, threadSems)
  BY <1>2, OsiFacts DEF Fits
<1>5. PICK a \in HeapBlocks : entry[t].got = <<a>>
  BY <1>3, <1>4 DEF FitsAt
<1>6. Holds(entry[t], a) /\ entry[t].got[1] = a
  BY <1>1, <1>5 DEF Holds
<1>7. inHeap' = inHeap \ {a} /\ UNCHANGED <<given, traceLog, names, boxed, threadSems, lives, osiCalls, moved>>
  BY <1>6 DEF DropStorage
<1> QED
  BY <1>1, <1>2, <1>3, <1>6, <1>7, OsiGivesUp

LEMMA OsiUnbox == ASSUME OsiInv, NEW t \in BlobIds, Unbox(t) PROVE OsiInv'
<1>1. PICK h, l, k, next : /\ h = NextOf(entry[t].steps) /\ l = LastOf(entry[t].steps) /\ k = entry[t].handle
                           /\ next = boxed[k].inner
  OBVIOUS
<1>2. entry[t] \in EntryRec /\ entry[t].steps # <<>> /\ h \in {"unbox", "unwrap"}
      /\ FitsAt(h, l, t, entry[t], boxed, lives, threadSems)
  BY <1>1, OsiFacts, StepIsNext DEF Unbox, Fits
<1>3. /\ k \in DOMAIN boxed /\ (h = "unwrap" => boxed[k].kind = "wrapper")
      /\ (h = "unbox" /\ l = "drop_storage" => boxed[k].kind = "queue")
      /\ (l = "end" => \A s \in threadSems : s.task # t)
  BY <1>1, <1>2 DEF FitsAt, RefSteps
<1>4. next \in HeapBlocks \cup {NoBlock}
  BY <1>1, <1>3, OsiFacts DEF BoxRec
<1>5. PICK f : f = [entry[t] EXCEPT !.handle = next, !.got = <<next>>]
  OBVIOUS
<1>6. <<next>> \in GotLists
  BY <1>4 DEF GotLists
<1>7. /\ f \in EntryRec /\ f.steps = entry[t].steps /\ f.got = <<next>> /\ f.handle = next
      /\ Steps(t, f)
  BY <1>1, <1>2, <1>4, <1>5, <1>6 DEF EntryRec, Unbox
<1>8. PICK e, n :
           /\ e \in EntryRec /\ entry' = [entry EXCEPT ![t] = e] /\ n = NextOf(e.steps) /\ After(h, l, n)
           /\ h = l => e = Away
           /\ h # l => LastOf(e.steps) = l /\ e.got = f.got /\ e.handle = f.handle
  BY <1>1, <1>2, <1>7, StepsTo
<1>9. /\ DOMAIN boxed' = DOMAIN boxed \ {k} /\ \A x \in DOMAIN boxed' : boxed'[x] = boxed[x]
      /\ boxed' \in [DOMAIN boxed' -> BoxRec] /\ inHeap' = inHeap \ {k}
      /\ UNCHANGED <<given, traceLog, names, threadSems, lives, osiCalls, moved>>
  <2>1. boxed' = [x \in DOMAIN boxed \ {k} |-> boxed[x]]
    BY <1>1 DEF Unbox
  <2>2. inHeap' = inHeap \ {k} /\ UNCHANGED <<given, traceLog, names, threadSems, lives, osiCalls, moved>>
    BY <1>1 DEF Unbox
  <2> QED
    BY <2>1, <2>2, OsiFacts
<1>10. Refers(entry[t], k) /\ \A b : ~Frees(entry[t], b)
  BY <1>1, <1>2 DEF Refers, RefSteps, Frees
<1>11. /\ h = "unwrap" => next \in DOMAIN boxed /\ boxed[next].kind = "queue" /\ next # k
                          /\ \A u \in BlobIds : ~Refers(entry[u], next)
       /\ \A w \in DOMAIN boxed : boxed[w].kind = "wrapper" =>
            boxed[w].inner # k /\ (h = "unwrap" /\ w # k => boxed[w].inner # next)
       /\ \A s \in threadSems : s.handle # k
  <2>1. WrapsFit /\ SemsFit
    BY DEF OsiInv
  <2>2. h = "unwrap" => next \in DOMAIN boxed /\ boxed[next].kind = "queue" /\ \A u \in BlobIds : ~Refers(entry[u], next)
    BY <1>1, <1>3, <2>1 DEF WrapsFit
  <2>3. \A w \in DOMAIN boxed : boxed[w].kind = "wrapper" =>
            boxed[w].inner # k /\ (h = "unwrap" /\ w # k => boxed[w].inner # next)
    BY <1>1, <1>3, <1>10, <2>1 DEF WrapsFit
  <2>4. \A s \in threadSems : s.handle # k
    BY <1>10, <2>1 DEF SemsFit
  <2> QED
    BY <1>10, <2>2, <2>3, <2>4
<1>12. /\ \A b : ~Frees(e, b)
       /\ \A b : Refers(e, b) => h = "unwrap" /\ b = next
       /\ \A b : Holds(e, b) => h = "unbox" /\ l = "drop_storage" /\ b = next
       /\ Fits(t, e, boxed', lives', threadSems')
  <2>1. CASE h = "unwrap"
    <3>1. /\ n = "unbox" /\ l = "drop_storage" /\ NextOf(e.steps) = "unbox" /\ LastOf(e.steps) = "drop_storage"
          /\ e.handle = next
      BY <1>7, <1>8, <2>1 DEF After
    <3>2. \A b : ~Frees(e, b) /\ ~Holds(e, b) /\ (Refers(e, b) => b = next)
      BY <3>1 DEF Frees, Holds, Refers
    <3>3. FitsAt("unbox", "drop_storage", t, e, boxed', lives', threadSems')
      BY <1>9, <1>11, <2>1, <3>1 DEF FitsAt, RefSteps
    <3> QED
      BY <2>1, <3>1, <3>2, <3>3 DEF Fits
  <2>2. CASE h = "unbox" /\ l = "unbox"
    <3>1. e = Away
      BY <1>8, <2>2
    <3> QED
      BY <3>1, AwayIs
  <2>3. CASE h = "unbox" /\ l = "drop_storage"
    <3>1. /\ NextOf(e.steps) = "drop_storage" /\ LastOf(e.steps) = "drop_storage"
          /\ e.got = <<next>>
      BY <1>7, <1>8, <2>3 DEF After
    <3>2. next \in HeapBlocks
      <4>1. boxed[k].kind = "queue"
        BY <1>3, <2>3
      <4> QED
        BY <1>1, <1>3, <4>1, OsiFacts DEF OsiInv, Places
    <3>3. \A b : <<next>> = <<b>> => b = next
      OBVIOUS
    <3>4. \A b : ~Frees(e, b) /\ ~Refers(e, b) /\ (Holds(e, b) => b = next)
      BY <3>1, <3>3 DEF Frees, Holds, Refers, RefSteps
    <3>5. FitsAt("drop_storage", "drop_storage", t, e, boxed', lives', threadSems')
      BY <3>1, <3>2 DEF FitsAt, RefSteps
    <3> QED
      BY <2>3, <3>1, <3>4, <3>5 DEF Fits
  <2>4. CASE h = "unbox" /\ l = "end"
    <3>1. NextOf(e.steps) = "end" /\ LastOf(e.steps) = "end"
      BY <1>8, <2>4 DEF After
    <3>2. \A b : ~Frees(e, b) /\ ~Refers(e, b) /\ ~Holds(e, b)
      BY <3>1 DEF Frees, Holds, Refers, RefSteps
    <3>3. FitsAt("end", "end", t, e, boxed', lives', threadSems')
      BY <1>3, <1>9, <2>4 DEF FitsAt, RefSteps
    <3> QED
      BY <3>1, <3>2, <3>3 DEF Fits
  <2> QED
    BY <1>2, <1>8, <2>1, <2>2, <2>3, <2>4 DEF After
<1>15. entry' \in [BlobIds -> EntryRec] /\ entry'[t] = e /\ \A u \in BlobIds : u # t => entry'[u] = entry[u]
  BY <1>8, OsiTurn
<1>16. OsiTyped'
  BY <1>9, <1>15, OsiFacts DEF OsiTyped
<1>17. EntriesFit'
  <2>1. \A u \in BlobIds : u # t => \A x \in DOMAIN boxed : Refers(entry[u], x) =>
           x \in DOMAIN boxed' /\ boxed'[x].kind = boxed[x].kind /\ boxed'[x].life = boxed[x].life
    BY <1>3, <1>9, <1>10 DEF OsiInv, RefsApart
  <2> QED
    BY <1>8, <1>9, <1>12, <2>1, EntriesStill
<1>18. \A u \in BlobIds : \A x :
         /\ Refers(entry'[u], x) => (u = t /\ x = next /\ h = "unwrap") \/ (u # t /\ Refers(entry[u], x))
         /\ Holds(entry'[u], x) => (u = t /\ x = next /\ h = "unbox" /\ l = "drop_storage") \/ (u # t /\ Holds(entry[u], x))
  BY <1>12, <1>15
<1>19. RefsApart'
  <2>0. RefsApart
    BY DEF OsiInv
  <2> QED
    BY <1>9, <1>11, <1>18, <2>0 DEF RefsApart
<1>20. WrapsFit'
  <2>0. WrapsFit
    BY DEF OsiInv
  <2>1. \A x \in DOMAIN boxed' : boxed'[x].kind = "wrapper" =>
       /\ boxed'[x].inner \in DOMAIN boxed' /\ boxed'[boxed'[x].inner].kind = "queue"
       /\ \A u \in BlobIds : ~Refers(entry'[u], boxed'[x].inner)
    <3>1. \A x \in DOMAIN boxed : boxed[x].kind = "wrapper" =>
            /\ boxed[x].inner \in DOMAIN boxed /\ boxed[boxed[x].inner].kind = "queue"
            /\ \A u \in BlobIds : ~Refers(entry[u], boxed[x].inner)
      BY <2>0 DEF WrapsFit
    <3>2. ASSUME NEW x \in DOMAIN boxed', boxed'[x].kind = "wrapper"
          PROVE  /\ boxed'[x].inner \in DOMAIN boxed' /\ boxed'[boxed'[x].inner].kind = "queue"
                 /\ \A u \in BlobIds : ~Refers(entry'[u], boxed'[x].inner)
      <4>1. PICK q : q = boxed[x].inner
        OBVIOUS
      <4>2. x \in DOMAIN boxed /\ x # k /\ boxed'[x].inner = q /\ boxed[x].kind = "wrapper"
        BY <1>9, <3>2, <4>1
      <4>3. q \in DOMAIN boxed /\ boxed[q].kind = "queue" /\ \A u \in BlobIds : ~Refers(entry[u], q)
        BY <3>1, <4>1, <4>2
      <4>4. q # k /\ (h = "unwrap" => q # next)
        BY <1>11, <4>1, <4>2
      <4>5. \A u \in BlobIds : ~Refers(entry'[u], q)
        BY <1>18, <4>3, <4>4
      <4> QED
        BY <1>9, <4>2, <4>3, <4>4, <4>5
    <3> QED
      BY <3>2
  <2>2. \A w, x \in DOMAIN boxed' :
       boxed'[w].kind = "wrapper" /\ boxed'[x].kind = "wrapper" /\ boxed'[w].inner = boxed'[x].inner => w = x
    BY <1>9, <2>0 DEF WrapsFit
  <2> QED
    BY <2>1, <2>2 DEF WrapsFit
<1>21. SemsFit'
  <2>0. SemsFit
    BY DEF OsiInv
  <2>1. h = "unwrap" => \A s \in threadSems : s.handle # next
    BY <1>11, <2>0 DEF SemsFit
  <2> QED
    BY <1>9, <1>11, <1>18, <2>0, <2>1 DEF SemsFit
<1>22. TraceFits'
  BY <1>8, <1>9, <1>10, <1>12, TraceStill
<1>23. Places'
  <2>0. Places
    BY DEF OsiInv
  <2>1. /\ \A b \in DOMAIN given' : b \in inHeap' /\ b \notin DOMAIN boxed'
        /\ DOMAIN boxed' \subseteq inHeap'
    BY <1>3, <1>9, <2>0 DEF Places
  <2>2. h = "unbox" /\ l = "drop_storage" =>
          /\ next \in inHeap' /\ next \notin DOMAIN given' /\ next \notin DOMAIN boxed'
          /\ \A u \in BlobIds : ~Holds(entry[u], next)
          /\ \A x \in DOMAIN boxed' : boxed'[x].kind = "queue" => boxed'[x].inner # next
    BY <1>1, <1>3, <1>9, <2>0 DEF Places
  <2>3. \A u \in BlobIds : \A b \in HeapBlocks :
          Holds(entry'[u], b) => b \in inHeap' /\ b \notin DOMAIN given' /\ b \notin DOMAIN boxed'
    BY <1>3, <1>9, <1>18, <2>0, <2>2 DEF Places
  <2>4. \A u, v \in BlobIds : \A b \in HeapBlocks : Holds(entry'[u], b) /\ Holds(entry'[v], b) => u = v
    BY <1>18, <2>0, <2>2 DEF Places
  <2>5. \A x \in DOMAIN boxed' : boxed'[x].kind = "queue" =>
          /\ boxed'[x].inner \in inHeap' /\ boxed'[x].inner \notin DOMAIN given' /\ boxed'[x].inner \notin DOMAIN boxed'
          /\ \A u \in BlobIds : ~Holds(entry'[u], boxed'[x].inner)
    <3>1. \A x \in DOMAIN boxed : boxed[x].kind = "queue" =>
            /\ boxed[x].inner \in inHeap /\ boxed[x].inner \notin DOMAIN given /\ boxed[x].inner \notin DOMAIN boxed
            /\ \A u \in BlobIds : ~Holds(entry[u], boxed[x].inner)
      BY <2>0 DEF Places
    <3>2. ASSUME NEW x \in DOMAIN boxed', boxed'[x].kind = "queue"
          PROVE  /\ boxed'[x].inner \in inHeap' /\ boxed'[x].inner \notin DOMAIN given'
                 /\ boxed'[x].inner \notin DOMAIN boxed'
                 /\ \A u \in BlobIds : ~Holds(entry'[u], boxed'[x].inner)
      <4>1. PICK b : b = boxed[x].inner
        OBVIOUS
      <4>2. x \in DOMAIN boxed /\ boxed[x].kind = "queue" /\ boxed'[x].inner = b
        BY <1>9, <3>2, <4>1
      <4>3. b \in inHeap /\ b \notin DOMAIN given /\ b \notin DOMAIN boxed /\ \A u \in BlobIds : ~Holds(entry[u], b)
        BY <3>1, <4>1, <4>2
      <4>4. h = "unbox" /\ l = "drop_storage" => b # next
        BY <2>2, <3>2, <4>2
      <4>5. \A u \in BlobIds : ~Holds(entry'[u], b)
        BY <1>18, <4>3, <4>4
      <4> QED
        BY <1>3, <1>9, <4>2, <4>3, <4>5
    <3> QED
      BY <3>2
  <2>6. \A x, y \in DOMAIN boxed' :
          boxed'[x].kind = "queue" /\ boxed'[y].kind = "queue" /\ boxed'[x].inner = boxed'[y].inner => x = y
    BY <1>9, <2>0 DEF Places
  <2> QED
    BY <2>1, <2>3, <2>4, <2>5, <2>6 DEF Places
<1> QED
  BY <1>16, <1>17, <1>19, <1>20, <1>21, <1>22, <1>23 DEF OsiInv

(* A call that deletes the box x, which nobody else can name.              *)
LEMMA OsiDeletes ==
  ASSUME OsiInv, NEW t \in BlobIds, NEW st \in OsiLeft, NEW kind \in BoxKinds, NEW x \in DOMAIN boxed,
         Enters(t, st, kind, x), NEW h, NEW l, h = NextOf(st), l = LastOf(st), h \in {"unbox", "unwrap"},
         l \in {"unbox", "drop_storage", "end"}, h = "unwrap" => boxed[x].kind = "wrapper",
         h = "unbox" /\ l = "drop_storage" => boxed[x].kind = "queue",
         l = "end" => \A s \in threadSems' : s.task # t, \A u \in BlobIds : ~Refers(entry[u], x),
         \A w \in DOMAIN boxed : boxed[w].kind = "wrapper" => boxed[w].inner # x,
         \A s \in threadSems' : s.handle # x, threadSems' \subseteq threadSems,
         UNCHANGED <<inHeap, given, traceLog, names, boxed, lives, moved>>
  PROVE  OsiInv'
<1>0. x \in HeapBlocks
  BY OsiFacts
<1>1. PICK e \in EntryRec : entry' = [entry EXCEPT ![t] = e] /\ e.steps = st /\ e.got = <<>> /\ e.kind = kind /\ e.handle = x
  BY <1>0, EntersAs
<1>2. osiCalls' \in Nat /\ \A a : ~Holds(entry[t], a) /\ ~Refers(entry[t], a) /\ ~Frees(entry[t], a)
  BY <1>0, EntersAs
<1>3. NextOf(e.steps) = h /\ LastOf(e.steps) = l
  BY <1>1
<1>4. \A a : ~Holds(e, a) /\ ~Frees(e, a) /\ (Refers(e, a) => a = x)
  BY <1>1, <1>3 DEF Holds, Refers, Frees
<1>5. FitsAt(h, l, t, e, boxed', lives', threadSems')
  BY <1>1 DEF FitsAt, RefSteps
<1>6. Fits(t, e, boxed', lives', threadSems')
  BY <1>3, <1>5 DEF Fits
<1>7. entry' \in [BlobIds -> EntryRec] /\ entry'[t] = e /\ \A u \in BlobIds : u # t => entry'[u] = entry[u]
  BY <1>1, OsiTurn
<1>8. OsiTyped'
  BY <1>2, <1>7, OsiFacts DEF OsiTyped
<1>9. EntriesFit'
  BY <1>1, <1>6, EntriesStill
<1>10. Places'
  BY <1>1, <1>4, PlacesStill, SameIsSame
<1>11. TraceFits'
  BY <1>1, <1>2, <1>4, TraceStill
<1>12. \A u \in BlobIds : \A a : Refers(entry'[u], a) => (u = t /\ a = x) \/ (a # x /\ Refers(entry[u], a))
  BY <1>4, <1>7
<1>13. RefsApart'
  BY <1>12 DEF OsiInv, RefsApart
<1>14. WrapsFit'
  BY <1>12 DEF OsiInv, WrapsFit
<1>15. SemsFit'
  BY <1>12 DEF OsiInv, SemsFit
<1> QED
  BY <1>8, <1>9, <1>10, <1>11, <1>13, <1>14, <1>15 DEF OsiInv

LEMMA OsiDelete == ASSUME OsiInv, NEW t \in BlobIds, NEW x \in HeapBlocks, Delete(t, x) PROVE OsiInv'
<1>1. PICK kind : kind = boxed[x].kind
  OBVIOUS
<1>2. /\ x \in DOMAIN boxed /\ kind \in BoxKinds /\ \A s \in threadSems : s.handle # x
      /\ \A u \in BlobIds : entry[u].handle # x
      /\ \A w \in DOMAIN boxed : boxed[w].kind = "wrapper" => boxed[w].inner # x
  BY <1>1 DEF Delete, Deletable
<1>3. \A u \in BlobIds : ~Refers(entry[u], x)
  BY <1>2 DEF Refers
<1>4. PICK st : st = DeleteEntry(kind)
  OBVIOUS
<1>5. st \in OsiLeft /\ NextOf(st) = "unbox" /\ LastOf(st) = (IF kind = "queue" THEN "drop_storage" ELSE "unbox")
  <2>1. CASE kind = "queue"
    BY <1>4, <2>1, CreateLists, EntryLists
  <2>2. CASE kind # "queue"
    <3>1. st = <<"unbox">>
      BY <1>2, <1>4, <2>2, CreateLists
    <3> QED
      BY <2>2, <3>1, EntryLists
  <2> QED
    BY <2>1, <2>2
<1>6. Enters(t, st, kind, x) /\ UNCHANGED <<inHeap, given, traceLog, names, boxed, threadSems, lives, moved>>
  BY <1>1, <1>4 DEF Delete
<1> QED
  BY <1>1, <1>2, <1>3, <1>5, <1>6, OsiDeletes

LEMMA OsiWifiDelete == ASSUME OsiInv, NEW t \in BlobIds, NEW x \in HeapBlocks, WifiDeleteQueue(t, x) PROVE OsiInv'
<1>2. x \in DOMAIN boxed /\ boxed[x].kind = "wrapper" /\ \A u \in BlobIds : entry[u].handle # x
  BY DEF WifiDeleteQueue
<1>3. \A u \in BlobIds : ~Refers(entry[u], x)
  BY <1>2 DEF Refers
<1>4. /\ \A w \in DOMAIN boxed : boxed[w].kind = "wrapper" => boxed[w].inner # x
      /\ \A s \in threadSems : s.handle # x
  BY <1>2 DEF OsiInv, WrapsFit, SemsFit
<1>5. PICK st : st = <<"unwrap">> \o DeleteEntry("queue")
  OBVIOUS
<1>6. st \in OsiLeft /\ NextOf(st) = "unwrap" /\ LastOf(st) = "drop_storage"
  BY <1>5, CreateLists, EntryLists
<1>7. Enters(t, st, "queue", x) /\ UNCHANGED <<inHeap, given, traceLog, names, boxed, threadSems, lives, moved>>
  BY <1>5 DEF WifiDeleteQueue
<1>8. "queue" \in BoxKinds
  BY DEF BoxKinds, NamedKinds
<1> QED
  BY <1>2, <1>3, <1>4, <1>6, <1>7, <1>8, OsiDeletes

LEMMA OsiTaskEnds == ASSUME OsiInv, NEW t \in BlobIds, TaskEnds(t) PROVE OsiInv'
<1>1. PICK mine : mine = {s \in threadSems : s.task = t}
  OBVIOUS
<1>2. threadSems' = threadSems \ mine /\ UNCHANGED <<inHeap, given, traceLog, names, boxed, moved>>
  BY <1>1 DEF TaskEnds
<1>3. \A s \in threadSems' : s.task # t
  BY <1>1, <1>2
<1>4. CASE /\ entry[t].steps = <<>> /\ osiCalls' = osiCalls + 1 /\ lives' = [lives EXCEPT ![t] = @ + 1]
           /\ UNCHANGED entry
  <2>1. PICK e : e = entry[t]
    OBVIOUS
  <2>2. e \in EntryRec /\ e.steps = <<>> /\ entry' = [entry EXCEPT ![t] = e]
    BY <1>4, <2>1, OsiFacts
  <2>3. NextOf(e.steps) = "none" /\ LastOf(e.steps) = "none"
    BY <2>2, EntryLists
  <2>4. FitsAt("none", "none", t, e, boxed', lives', threadSems')
    BY DEF FitsAt, RefSteps
  <2>5. Fits(t, e, boxed', lives', threadSems')
    BY <2>3, <2>4 DEF Fits
  <2>6. lives' \in [BlobIds -> Nat] /\ \A u \in BlobIds : u # t => lives'[u] = lives[u]
    BY <1>4, OsiFacts
  <2>7. \A s \in threadSems' : lives'[s.task] = lives[s.task]
    BY <1>2, <1>3, <2>6, OsiFacts
  <2>8. osiCalls' \in Nat
    BY <1>4, OsiFacts
  <2> QED
    BY <1>2, <2>1, <2>2, <2>5, <2>6, <2>7, <2>8, OsiQuiet, OsiFacts, SameIsSame
<1>5. ASSUME NEW s \in mine, Enters(t, <<"unbox", "end">>, "semaphore", s.handle), UNCHANGED lives
      PROVE  OsiInv'
  <2>1. PICK x, st : x = s.handle /\ st = <<"unbox", "end">>
    OBVIOUS
  <2>2. st \in OsiLeft /\ NextOf(st) = "unbox" /\ LastOf(st) = "end"
    BY <2>1, EntryLists
  <2>3. s \in threadSems /\ s.task = t
    BY <1>1
  <2>4. x \in DOMAIN boxed /\ boxed[x].kind = "semaphore" /\ \A u \in BlobIds : ~Refers(entry[u], x)
    BY <2>1, <2>3 DEF OsiInv, SemsFit
  <2>5. \A w \in DOMAIN boxed : boxed[w].kind = "wrapper" => boxed[w].inner # x
    BY <2>4 DEF OsiInv, WrapsFit
  <2>6. \A u \in threadSems' : u.handle # x
    BY <1>2, <1>3, <2>1, <2>3 DEF OsiInv, SemsFit
  <2>7. "semaphore" \in BoxKinds
    BY DEF BoxKinds, NamedKinds
  <2>8. Enters(t, st, "semaphore", x)
    BY <1>5, <2>1
  <2> QED
    BY <1>2, <1>3, <1>5, <2>2, <2>4, <2>5, <2>6, <2>7, <2>8, OsiDeletes
<1> QED
  BY <1>1, <1>4, <1>5 DEF TaskEnds

(* The open records when one is added, and when one is closed.             *)
Grows(recs, recs2, a) ==
  /\ recs \in Seq(TraceRec) /\ recs2 \in Seq(TraceRec) /\ Len(recs2) = Len(recs) + 1
  /\ recs2[Len(recs2)].at = a /\ recs2[Len(recs2)].freed = FALSE
  /\ \A i \in 1 .. Len(recs) : recs2[i] = recs[i]
LEMMA OpenAppend ==
  ASSUME NEW recs, NEW recs2, NEW a, Grows(recs, recs2, a)
  PROVE  /\ \A b : b # a => OpenIn(recs2, b) = OpenIn(recs, b)
         /\ OpenIn(recs, a) = {} => OpenIn(recs2, a) = {Len(recs2)}
<1>1. PICK m, n : m = Len(recs) /\ m \in Nat /\ n = Len(recs2) /\ n = m + 1
  BY DEF Grows
<1>3. 1 .. n = (1 .. m) \cup {n} /\ n \notin 1 .. m
  BY <1>1
<1>4. \A b : b # a => OpenIn(recs2, b) = OpenIn(recs, b)
  BY <1>1, <1>3 DEF OpenIn, Grows
<1>5. OpenIn(recs, a) = {} => OpenIn(recs2, a) = {n}
  BY <1>1, <1>3 DEF OpenIn, Grows
<1> QED
  BY <1>1, <1>4, <1>5

CloseRec(recs, i) == [recs EXCEPT ![i].freed = TRUE]
LEMMA OpenClose ==
  ASSUME NEW recs \in Seq(TraceRec), NEW i, NEW recs2, recs2 = CloseRec(recs, i)
  PROVE  /\ recs2 \in Seq(TraceRec) /\ Len(recs2) = Len(recs)
         /\ \A j \in 1 .. Len(recs) : recs2[j].at = recs[j].at /\ recs2[j].call = recs[j].call
         /\ \A a : OpenIn(recs, a) = {i} =>
              OpenIn(recs2, a) = {} /\ \A b : b # a => OpenIn(recs2, b) = OpenIn(recs, b)
<1>1. PICK n : n = Len(recs) /\ n \in Nat /\ DOMAIN recs = 1 .. n
  OBVIOUS
<1>2. \A j \in 1 .. n : recs[j] \in TraceRec
  BY <1>1
<1>3. PICK r : r = [recs[i] EXCEPT !.freed = TRUE]
  OBVIOUS
<1>4. recs2 = [recs EXCEPT ![i] = r]
  BY <1>3 DEF CloseRec
<1>5. i \in 1 .. n => r \in TraceRec /\ r.at = recs[i].at /\ r.call = recs[i].call /\ r.freed = TRUE
  BY <1>2, <1>3 DEF TraceRec
<1>6. recs2 \in Seq(TraceRec) /\ Len(recs2) = n
  <2>1. CASE i \in 1 .. n
    <3>1. r \in TraceRec /\ i \in 1 .. Len(recs)
      BY <1>1, <1>5, <2>1
    <3>2. [recs EXCEPT ![i] = r] \in Seq(TraceRec) /\ Len([recs EXCEPT ![i] = r]) = Len(recs)
      BY <3>1, ExceptSeq, SMT
    <3> QED
      BY <1>1, <1>4, <3>2, Zenon
  <2>2. CASE i \notin 1 .. n
    <3>1. recs2 = recs
      BY <1>1, <1>4, <2>2
    <3> QED
      BY <1>1, <3>1
  <2> QED
    BY <2>1, <2>2
<1>7. \A j \in 1 .. n : IF j = i THEN recs2[j] = r ELSE recs2[j] = recs[j]
  BY <1>1, <1>4
<1>8. \A j \in 1 .. n : recs2[j].at = recs[j].at /\ recs2[j].call = recs[j].call
  BY <1>5, <1>7
<1>9. ASSUME NEW a, OpenIn(recs, a) = {i}
      PROVE  OpenIn(recs2, a) = {} /\ \A b : b # a => OpenIn(recs2, b) = OpenIn(recs, b)
  <2>1. i \in 1 .. n /\ recs[i].at = a
    BY <1>1, <1>9 DEF OpenIn
  <2>2. \A j \in 1 .. n : j # i => recs2[j] = recs[j]
    BY <1>7
  <2>3. recs2[i].freed = TRUE /\ recs2[i].at = a
    BY <1>5, <1>7, <2>1
  <2>4. OpenIn(recs2, a) = {}
    BY <1>1, <1>6, <1>9, <2>2, <2>3 DEF OpenIn
  <2>5. \A b : b # a => OpenIn(recs2, b) = OpenIn(recs, b)
    BY <1>1, <1>6, <2>1, <2>2, <2>3 DEF OpenIn
  <2> QED
    BY <2>4, <2>5
<1> QED
  BY <1>1, <1>6, <1>8, <1>9

LEMMA OsiFreeIs == ASSUME OsiInv, NEW t \in BlobIds, NEW a \in HeapBlocks, OsiFree(t, a) PROVE OsiInv'
<1>0. PICK st : st = FreeEntry
  OBVIOUS
<1>1. st \in OsiLeft /\ NextOf(st) = "note_free" /\ LastOf(st) = "heap_free"
  BY <1>0, EntryLists DEF FreeEntry
<1>2. /\ a \in DOMAIN given /\ Enters(t, st, "memory", a)
      /\ UNCHANGED <<inHeap, traceLog, names, boxed, threadSems, lives, moved>>
  BY <1>0 DEF OsiFree
<1>3. PICK e \in EntryRec : entry' = [entry EXCEPT ![t] = e] /\ e.steps = st /\ e.got = <<>> /\ e.kind = "memory" /\ e.handle = a
  BY <1>1, <1>2, EntersAs
<1>4. osiCalls' \in Nat /\ \A b : ~Holds(entry[t], b) /\ ~Refers(entry[t], b) /\ ~Frees(entry[t], b)
  BY <1>1, <1>2, EntersAs
<1>5. NextOf(e.steps) = "note_free" /\ LastOf(e.steps) = "heap_free"
  BY <1>1, <1>3
<1>6. DOMAIN given' = DOMAIN given \ {a} /\ \A b \in DOMAIN given' : given'[b] = given[b]
  BY DEF OsiFree
<1>7. \A b : (Holds(e, b) => b = a) /\ (Frees(e, b) <=> b = a) /\ ~Refers(e, b)
  BY <1>3, <1>5 DEF Holds, Refers, Frees, RefSteps
<1>8. FitsAt("note_free", "heap_free", t, e, boxed', lives', threadSems')
  BY <1>3 DEF FitsAt, RefSteps
<1>9. Fits(t, e, boxed', lives', threadSems')
  BY <1>5, <1>8 DEF Fits
<1>10. entry' \in [BlobIds -> EntryRec] /\ entry'[t] = e /\ \A u \in BlobIds : u # t => entry'[u] = entry[u]
  BY <1>3, OsiTurn
<1>11. OsiTyped'
  BY <1>2, <1>4, <1>10, OsiFacts DEF OsiTyped
<1>12. EntriesFit'
  BY <1>2, <1>3, <1>9, EntriesStill
<1>13. RefsApart' /\ WrapsFit' /\ SemsFit'
  BY <1>2, <1>3, <1>7, RefsStill, SameIsSame
<1>14. Places'
  <2>0. Places
    BY DEF OsiInv
  <2>1. \A u \in BlobIds : \A b : Holds(entry'[u], b) => (u = t /\ b = a) \/ (u # t /\ Holds(entry[u], b))
    BY <1>7, <1>10
  <2>2. \A u \in BlobIds : ~Holds(entry[u], a)
    BY <1>2, <2>0 DEF Places
  <2>3. \A x \in DOMAIN boxed : boxed[x].kind = "queue" => boxed[x].inner # a
    BY <1>2, <2>0 DEF Places
  <2>4. \A u \in BlobIds : \A b \in HeapBlocks :
          Holds(entry'[u], b) => b \in inHeap' /\ b \notin DOMAIN given' /\ b \notin DOMAIN boxed'
    BY <1>2, <1>6, <2>0, <2>1 DEF Places
  <2>5. \A u, v \in BlobIds : \A b \in HeapBlocks : Holds(entry'[u], b) /\ Holds(entry'[v], b) => u = v
    BY <2>0, <2>1, <2>2 DEF Places
  <2>6. \A x \in DOMAIN boxed' : boxed'[x].kind = "queue" =>
          /\ boxed'[x].inner \in inHeap' /\ boxed'[x].inner \notin DOMAIN given' /\ boxed'[x].inner \notin DOMAIN boxed'
          /\ \A u \in BlobIds : ~Holds(entry'[u], boxed'[x].inner)
    BY <1>2, <1>6, <2>0, <2>1, <2>3 DEF Places
  <2> QED
    BY <1>2, <1>6, <2>0, <2>4, <2>5, <2>6 DEF Places
<1>15. TraceFits'
  <2>0. TraceFits
    BY DEF OsiInv
  <2>1. \A u \in BlobIds : \A b : Frees(entry'[u], b) <=> (u = t /\ b = a) \/ (u # t /\ Frees(entry[u], b))
    BY <1>7, <1>10
  <2>2. SUFFICES ASSUME traceLog.overflow = 0, ~moved, NEW b \in HeapBlocks
                 PROVE  /\ traceLog.unmatched = 0
                        /\ b \in DOMAIN given' => \E i \in 1 .. Len(traceLog.records) :
                              OpenIn(traceLog.records, b) = {i} /\ traceLog.records[i].call = given'[b]
                        /\ (\E u \in BlobIds : Frees(entry'[u], b)) =>
                              \E i \in 1 .. Len(traceLog.records) : OpenIn(traceLog.records, b) = {i}
                        /\ b \notin DOMAIN given' /\ (\A u \in BlobIds : ~Frees(entry'[u], b)) =>
                              OpenIn(traceLog.records, b) = {}
    BY <1>2, <2>0 DEF TraceFits
  <2>3. /\ traceLog.unmatched = 0
        /\ b \in DOMAIN given => \E i \in 1 .. Len(traceLog.records) :
             OpenIn(traceLog.records, b) = {i} /\ traceLog.records[i].call = given[b]
        /\ (\E u \in BlobIds : Frees(entry[u], b)) =>
             \E i \in 1 .. Len(traceLog.records) : OpenIn(traceLog.records, b) = {i}
        /\ b \notin DOMAIN given /\ (\A u \in BlobIds : ~Frees(entry[u], b)) => OpenIn(traceLog.records, b) = {}
    BY <2>0, <2>2 DEF TraceFits
  <2>4. b \in DOMAIN given' => b \in DOMAIN given /\ given'[b] = given[b]
    BY <1>6
  <2>5. (\E u \in BlobIds : Frees(entry'[u], b)) => b \in DOMAIN given \/ \E u \in BlobIds : Frees(entry[u], b)
    BY <1>2, <2>1
  <2>6. b \notin DOMAIN given' /\ (\A u \in BlobIds : ~Frees(entry'[u], b)) =>
          b \notin DOMAIN given /\ \A u \in BlobIds : ~Frees(entry[u], b)
    BY <1>4, <1>6, <2>1
  <2> QED
    BY <2>3, <2>4, <2>5, <2>6
<1> QED
  BY <1>11, <1>12, <1>13, <1>14, <1>15 DEF OsiInv

LEMMA OsiReallocIs ==
  ASSUME OsiInv, NEW t \in BlobIds, NEW a \in HeapBlocks, NEW b \in HeapBlocks, OsiRealloc(t, a, b) PROVE OsiInv'
<1>1. /\ a \in DOMAIN given /\ b \notin inHeap /\ osiCalls' = osiCalls + 1 /\ inHeap' = (inHeap \ {a}) \cup {b}
      /\ DOMAIN given' = (DOMAIN given \ {a}) \cup {b} /\ moved' = TRUE
      /\ UNCHANGED <<traceLog, names, boxed, threadSems, entry, lives>>
  BY DEF OsiRealloc
<1>2. /\ b \notin DOMAIN boxed /\ b \notin DOMAIN given
      /\ \A u \in BlobIds : ~Holds(entry[u], b) /\ ~Refers(entry[u], b)
      /\ \A x \in DOMAIN boxed : boxed[x].kind \in {"queue", "wrapper"} => boxed[x].inner # b
  BY <1>1, FreshBlock
<1>3. OsiTyped'
  BY <1>1, OsiFacts DEF OsiTyped
<1>4. EntriesFit' /\ RefsApart' /\ WrapsFit' /\ SemsFit'
  BY <1>1 DEF OsiInv, EntriesFit, RefsApart, WrapsFit, SemsFit
<1>5. TraceFits'
  BY <1>1 DEF TraceFits
<1>6. Places'
  <2>0. Places
    BY DEF OsiInv
  <2>1. /\ \A c \in DOMAIN given' : c \in inHeap' /\ c \notin DOMAIN boxed'
        /\ DOMAIN boxed' \subseteq inHeap'
    BY <1>1, <1>2, <2>0 DEF Places
  <2>2. \A u \in BlobIds : \A c \in HeapBlocks :
          Holds(entry'[u], c) => c \in inHeap' /\ c \notin DOMAIN given' /\ c \notin DOMAIN boxed'
    BY <1>1, <1>2, <2>0 DEF Places
  <2>3. \A x \in DOMAIN boxed' : boxed'[x].kind = "queue" =>
          /\ boxed'[x].inner \in inHeap' /\ boxed'[x].inner \notin DOMAIN given' /\ boxed'[x].inner \notin DOMAIN boxed'
          /\ \A u \in BlobIds : ~Holds(entry'[u], boxed'[x].inner)
    BY <1>1, <1>2, <2>0 DEF Places
  <2> QED
    BY <1>1, <2>0, <2>1, <2>2, <2>3 DEF Places
<1> QED
  BY <1>3, <1>4, <1>5, <1>6 DEF OsiInv

LEMMA OsiNoteAlloc == ASSUME OsiInv, NEW t \in BlobIds, NoteAlloc(t) PROVE OsiInv'
<1>1. entry[t] \in EntryRec /\ entry[t].steps # <<>> /\ NextOf(entry[t].steps) = "note_alloc" /\ Steps(t, entry[t])
  BY OsiFacts, StepIsNext DEF NoteAlloc
<1>2. PICK e, h, l, n :
           /\ e \in EntryRec /\ entry' = [entry EXCEPT ![t] = e] /\ h = NextOf(entry[t].steps) /\ l = LastOf(entry[t].steps)
           /\ n = NextOf(e.steps) /\ After(h, l, n) /\ (h = l => e = Away)
  BY <1>1, StepsTo
<1>3. h = "note_alloc" /\ l = "note_alloc" /\ e = Away
  BY <1>1, <1>2 DEF After
<1>4. FitsAt(h, l, t, entry[t], boxed, lives, threadSems)
  BY <1>2, OsiFacts DEF Fits
<1>5. PICK a \in HeapBlocks : entry[t].got = <<a>>
  BY <1>3, <1>4 DEF FitsAt
<1>6. Holds(entry[t], a) /\ entry[t].got[1] = a /\ \A b : ~Frees(entry[t], b)
  BY <1>1, <1>5 DEF Holds, Frees
<1>7. PICK c, recs : c = entry[t].call /\ recs = traceLog.records
  OBVIOUS
<1>8. c \in Nat /\ recs \in Seq(TraceRec)
  BY <1>7, OsiFacts
<1>9. PICK r : r = [at |-> a, call |-> c, freed |-> FALSE]
  OBVIOUS
<1>10. r \in TraceRec /\ r.at = a /\ r.call = c /\ ~r.freed
  BY <1>8, <1>9 DEF TraceRec
<1>11. PICK recs2 : recs2 = Append(recs, r)
  OBVIOUS
<1>12. /\ recs2 \in Seq(TraceRec) /\ Len(recs2) = Len(recs) + 1
       /\ \A i \in 1 .. Len(recs) : recs2[i] = recs[i]
       /\ recs2[Len(recs) + 1] = r
       /\ \A b : b # a => OpenIn(recs2, b) = OpenIn(recs, b)
       /\ OpenIn(recs, a) = {} => OpenIn(recs2, a) = {Len(recs) + 1}
  <2>1. recs \in Seq(TraceRec) /\ r \in TraceRec /\ r.freed = FALSE /\ recs2 = Append(recs, r) /\ a = r.at
    BY <1>8, <1>10, <1>11
  <2>2. PICK m : m = Len(recs) + 1 /\ m \in Nat
    BY <2>1
  <2>3. recs2 \in Seq(TraceRec) /\ Len(recs2) = m /\ recs2[m] = r /\ \A i \in 1 .. Len(recs) : recs2[i] = recs[i]
    BY <2>1, <2>2
  <2>4. Grows(recs, recs2, a)
    BY <2>1, <2>2, <2>3 DEF Grows
  <2>5. /\ \A b : b # a => OpenIn(recs2, b) = OpenIn(recs, b)
        /\ OpenIn(recs, a) = {} => OpenIn(recs2, a) = {Len(recs2)}
    BY <2>4, OpenAppend
  <2> QED
    BY <2>2, <2>3, <2>5
<1>13. \/ traceLog' = [traceLog EXCEPT !.overflow = @ + 1]
       \/ traceLog' = [traceLog EXCEPT !.records = recs2]
  BY <1>6, <1>7, <1>9, <1>11 DEF NoteAlloc
<1>14. /\ traceLog' \in [records : Seq(TraceRec), overflow : Nat, unmatched : Nat]
       /\ traceLog'.overflow = 0 =>
            traceLog'.records = recs2 /\ traceLog.overflow = 0 /\ traceLog'.unmatched = traceLog.unmatched
  <2>1. CASE traceLog' = [traceLog EXCEPT !.overflow = @ + 1]
    <3>1. PICK o : o = traceLog.overflow + 1 /\ o \in Nat /\ o # 0
      BY OsiFacts
    <3>2. traceLog' = [traceLog EXCEPT !.overflow = o]
      BY <2>1, <3>1
    <3> QED
      BY <3>1, <3>2, OsiFacts
  <2>2. CASE traceLog' = [traceLog EXCEPT !.records = recs2]
    BY <1>12, <2>2, OsiFacts
  <2> QED
    BY <1>13, <2>1, <2>2
<1>15. /\ DOMAIN given' = DOMAIN given \cup {a} /\ given'[a] = c /\ \A b \in DOMAIN given : b # a => given'[b] = given[b]
       /\ UNCHANGED <<inHeap, names, boxed, threadSems, lives, osiCalls, moved>>
  BY <1>6, <1>7 DEF NoteAlloc
<1>16. Away \in EntryRec /\ \A b : ~Holds(Away, b) /\ ~Refers(Away, b) /\ ~Frees(Away, b)
  BY AwayIs
<1>17. entry' \in [BlobIds -> EntryRec] /\ entry'[t] = Away /\ \A u \in BlobIds : u # t => entry'[u] = entry[u]
  BY <1>2, <1>3, OsiTurn
<1>18. OsiTyped'
  BY <1>14, <1>15, <1>17, OsiFacts DEF OsiTyped
<1>19. EntriesFit'
  <2>1. Fits(t, Away, boxed', lives', threadSems')
    BY AwayIs
  <2> QED
    BY <1>2, <1>3, <1>15, <2>1, EntriesStill
<1>20. RefsApart' /\ WrapsFit' /\ SemsFit'
  BY <1>2, <1>3, <1>15, <1>16, RefsStill, SameIsSame
<1>21. Places
  BY DEF OsiInv
<1>22. a \in inHeap /\ a \notin DOMAIN given /\ a \notin DOMAIN boxed /\ \A u \in BlobIds : u # t => ~Holds(entry[u], a)
  BY <1>6, <1>21 DEF Places
<1>23. Places'
  <2>1. \A u \in BlobIds : \A b : Holds(entry'[u], b) => u # t /\ Holds(entry[u], b)
    BY <1>16, <1>17
  <2>3. \A x \in DOMAIN boxed : boxed[x].kind = "queue" => boxed[x].inner # a
    BY <1>6, <1>21 DEF Places
  <2>4. \A u \in BlobIds : \A b \in HeapBlocks :
          Holds(entry'[u], b) => b \in inHeap' /\ b \notin DOMAIN given' /\ b \notin DOMAIN boxed'
    BY <1>15, <1>21, <1>22, <2>1 DEF Places
  <2>5. \A u, v \in BlobIds : \A b \in HeapBlocks : Holds(entry'[u], b) /\ Holds(entry'[v], b) => u = v
    BY <1>21, <2>1 DEF Places
  <2>6. \A x \in DOMAIN boxed' : boxed'[x].kind = "queue" =>
          /\ boxed'[x].inner \in inHeap' /\ boxed'[x].inner \notin DOMAIN given' /\ boxed'[x].inner \notin DOMAIN boxed'
          /\ \A u \in BlobIds : ~Holds(entry'[u], boxed'[x].inner)
    BY <1>15, <1>21, <2>1, <2>3 DEF Places
  <2> QED
    BY <1>15, <1>21, <1>22, <2>4, <2>5, <2>6 DEF Places
<1>24. TraceFits'
  <2>0. TraceFits
    BY DEF OsiInv
  <2>1. \A u \in BlobIds : \A b : Frees(entry'[u], b) <=> Frees(entry[u], b)
    BY <1>6, <1>16, <1>17
  <2>2. SUFFICES ASSUME traceLog'.overflow = 0, ~moved, NEW b \in HeapBlocks
                 PROVE  /\ traceLog'.unmatched = 0
                        /\ b \in DOMAIN given' => \E i \in 1 .. Len(recs2) :
                              OpenIn(recs2, b) = {i} /\ recs2[i].call = given'[b]
                        /\ (\E u \in BlobIds : Frees(entry[u], b)) =>
                              \E i \in 1 .. Len(recs2) : OpenIn(recs2, b) = {i}
                        /\ b \notin DOMAIN given' /\ (\A u \in BlobIds : ~Frees(entry[u], b)) =>
                              OpenIn(recs2, b) = {}
    <3>1. traceLog'.overflow = 0 => traceLog'.records = recs2
      BY <1>14
    <3>2. moved' = moved
      BY <1>15
    <3>3. traceLog'.overflow = 0 /\ ~moved' => traceLog'.unmatched = 0
      BY <1>14, <1>15, <2>0 DEF TraceFits
    <3> QED
      BY <2>1, <3>1, <3>2, <3>3 DEF TraceFits
  <2>3. /\ traceLog'.unmatched = 0
        /\ b \in DOMAIN given => \E i \in 1 .. Len(recs) : OpenIn(recs, b) = {i} /\ recs[i].call = given[b]
        /\ (\E u \in BlobIds : Frees(entry[u], b)) => \E i \in 1 .. Len(recs) : OpenIn(recs, b) = {i}
        /\ b \notin DOMAIN given /\ (\A u \in BlobIds : ~Frees(entry[u], b)) => OpenIn(recs, b) = {}
    BY <1>7, <1>14, <2>0, <2>2 DEF TraceFits
  <2>4. \A u \in BlobIds : ~Frees(entry[u], a)
    BY <1>6, <1>22 DEF Holds, Frees
  <2>5. CASE b = a
    <3>1. OpenIn(recs, a) = {}
      BY <1>22, <2>3, <2>4, <2>5
    <3>2. OpenIn(recs2, a) = {Len(recs) + 1} /\ Len(recs) + 1 \in 1 .. Len(recs2) /\ recs2[Len(recs) + 1].call = c
      BY <1>8, <1>10, <1>12, <3>1
    <3> QED
      BY <1>15, <2>3, <2>4, <2>5, <3>2
  <2>6. CASE b # a
    <3>1. OpenIn(recs2, b) = OpenIn(recs, b) /\ (b \in DOMAIN given' <=> b \in DOMAIN given)
      BY <1>12, <1>15, <2>6
    <3>2. b \in DOMAIN given => given'[b] = given[b]
      BY <1>15, <2>6
    <3>3. \A i \in 1 .. Len(recs) : i \in 1 .. Len(recs2) /\ recs2[i] = recs[i]
      BY <1>8, <1>12
    <3> QED
      BY <2>3, <3>1, <3>2, <3>3
  <2> QED
    BY <2>5, <2>6
<1> QED
  BY <1>18, <1>19, <1>20, <1>23, <1>24 DEF OsiInv

LEMMA OsiNoteFree == ASSUME OsiInv, NEW t \in BlobIds, NoteFree(t) PROVE OsiInv'
<1>1. entry[t] \in EntryRec /\ entry[t].steps # <<>> /\ NextOf(entry[t].steps) = "note_free" /\ Steps(t, entry[t])
  BY OsiFacts, StepIsNext DEF NoteFree
<1>2. PICK e, h, l, n :
           /\ e \in EntryRec /\ entry' = [entry EXCEPT ![t] = e] /\ h = NextOf(entry[t].steps) /\ l = LastOf(entry[t].steps)
           /\ n = NextOf(e.steps) /\ After(h, l, n)
           /\ h # l => LastOf(e.steps) = l /\ e.handle = entry[t].handle
  BY <1>1, StepsTo
<1>3. h = "note_free" /\ l = "heap_free" /\ NextOf(e.steps) = "heap_free" /\ LastOf(e.steps) = "heap_free"
      /\ e.handle = entry[t].handle
  BY <1>1, <1>2 DEF After
<1>4. FitsAt(h, l, t, entry[t], boxed, lives, threadSems)
  BY <1>2, OsiFacts DEF Fits
<1>5. PICK a, recs : a = entry[t].handle /\ recs = traceLog.records
  OBVIOUS
<1>6. a \in HeapBlocks /\ Holds(entry[t], a) /\ Frees(entry[t], a) /\ recs \in Seq(TraceRec)
      /\ \A b : Frees(entry[t], b) => b = a
  BY <1>1, <1>3, <1>4, <1>5, OsiFacts DEF FitsAt, Holds, Frees
<1>7. PICK i : i = CHOOSE j \in Open(a) : \A k \in Open(a) : k <= j
  OBVIOUS
<1>8. Open(a) = OpenIn(recs, a)
  BY <1>5 DEF Open, OpenIn
<1>9. traceLog' = IF Open(a) = {} THEN [traceLog EXCEPT !.unmatched = @ + 1]
                  ELSE [traceLog EXCEPT !.records[i].freed = TRUE]
  BY <1>5, <1>7 DEF NoteFree
<1>10. PICK recs2 : recs2 = CloseRec(recs, i)
  OBVIOUS
<1>11. /\ recs2 \in Seq(TraceRec) /\ Len(recs2) = Len(recs)
       /\ \A j \in 1 .. Len(recs) : recs2[j].at = recs[j].at /\ recs2[j].call = recs[j].call
       /\ OpenIn(recs, a) = {i} =>
            OpenIn(recs2, a) = {} /\ \A b : b # a => OpenIn(recs2, b) = OpenIn(recs, b)
  <2>1. recs \in Seq(TraceRec) /\ recs2 = CloseRec(recs, i)
    BY <1>6, <1>10
  <2>2. recs2 \in Seq(TraceRec) /\ Len(recs2) = Len(recs)
    BY <2>1, OpenClose
  <2>3. \A j \in 1 .. Len(recs) : recs2[j].at = recs[j].at /\ recs2[j].call = recs[j].call
    BY <2>1, OpenClose
  <2>4. OpenIn(recs, a) = {i} => OpenIn(recs2, a) = {} /\ \A b : b # a => OpenIn(recs2, b) = OpenIn(recs, b)
    BY <2>1, OpenClose
  <2> QED
    BY <2>2, <2>3, <2>4
<1>12. /\ traceLog' \in [records : Seq(TraceRec), overflow : Nat, unmatched : Nat] /\ traceLog'.overflow = traceLog.overflow
       /\ Open(a) # {} => traceLog'.records = recs2 /\ traceLog'.unmatched = traceLog.unmatched
  <2>1. CASE Open(a) = {}
    <3>1. PICK o : o = traceLog.unmatched + 1 /\ o \in Nat
      BY OsiFacts
    <3>2. traceLog' = [traceLog EXCEPT !.unmatched = o]
      BY <1>9, <2>1, <3>1
    <3> QED
      BY <2>1, <3>1, <3>2, OsiFacts
  <2>2. CASE Open(a) # {}
    <3>1. traceLog' = [traceLog EXCEPT !.records = recs2]
      BY <1>5, <1>9, <1>10, <2>2 DEF CloseRec
    <3> QED
      BY <1>11, <3>1, OsiFacts
  <2> QED
    BY <2>1, <2>2
<1>13. UNCHANGED <<inHeap, given, names, boxed, threadSems, lives, osiCalls, moved>>
  BY DEF NoteFree
<1>14. \A b : (Holds(e, b) => b = a) /\ ~Refers(e, b) /\ ~Frees(e, b)
  BY <1>3, <1>5 DEF Holds, Refers, Frees, RefSteps
<1>15. FitsAt("heap_free", "heap_free", t, e, boxed', lives', threadSems')
  BY <1>3, <1>5, <1>6 DEF FitsAt, RefSteps
<1>16. Fits(t, e, boxed', lives', threadSems')
  BY <1>3, <1>15 DEF Fits
<1>17. entry' \in [BlobIds -> EntryRec] /\ entry'[t] = e /\ \A u \in BlobIds : u # t => entry'[u] = entry[u]
  BY <1>2, OsiTurn
<1>18. OsiTyped'
  BY <1>12, <1>13, <1>17, OsiFacts DEF OsiTyped
<1>19. EntriesFit'
  BY <1>2, <1>13, <1>16, EntriesStill
<1>20. RefsApart' /\ WrapsFit' /\ SemsFit'
  BY <1>2, <1>13, <1>14, RefsStill, SameIsSame
<1>21. Places'
  BY <1>2, <1>6, <1>13, <1>14, PlacesStill, SameIsSame
<1>22. TraceFits'
  <2>0. TraceFits /\ Places
    BY DEF OsiInv
  <2>1. \A u \in BlobIds : \A b : Frees(entry'[u], b) <=> u # t /\ Frees(entry[u], b)
    BY <1>14, <1>17
  <2>2. a \notin DOMAIN given /\ \A u \in BlobIds : u # t => ~Frees(entry[u], a)
    <3>1. a \notin DOMAIN given /\ \A u \in BlobIds : u # t => ~Holds(entry[u], a)
      BY <1>6, <2>0 DEF Places
    <3> QED
      BY <3>1 DEF Holds, Frees
  <2>3. CASE ~(traceLog.overflow = 0 /\ ~moved)
    BY <1>12, <1>13, <2>3 DEF TraceFits
  <2>4. CASE traceLog.overflow = 0 /\ ~moved
    <3>1. /\ traceLog.unmatched = 0
          /\ \A b \in HeapBlocks :
               /\ b \in DOMAIN given => \E j \in 1 .. Len(recs) : OpenIn(recs, b) = {j} /\ recs[j].call = given[b]
               /\ (\E u \in BlobIds : Frees(entry[u], b)) => \E j \in 1 .. Len(recs) : OpenIn(recs, b) = {j}
               /\ b \notin DOMAIN given /\ (\A u \in BlobIds : ~Frees(entry[u], b)) => OpenIn(recs, b) = {}
      BY <1>5, <2>0, <2>4 DEF TraceFits
    <3>2. PICK j \in 1 .. Len(recs) : OpenIn(recs, a) = {j}
      BY <1>6, <3>1
    <3>3. i = j
      <4>1. Open(a) = {j} /\ j \in Int /\ j <= j
        BY <1>8, <3>2, <1>6
      <4>2. \E m \in Open(a) : \A k \in Open(a) : k <= m
        BY <4>1
      <4>3. i \in Open(a)
        BY <1>7, <4>2, Zenon
      <4> QED
        BY <4>1, <4>3
    <3>4. /\ traceLog'.records = recs2 /\ traceLog'.unmatched = 0 /\ OpenIn(recs2, a) = {}
          /\ \A b : b # a => OpenIn(recs2, b) = OpenIn(recs, b)
      BY <1>8, <1>11, <1>12, <3>1, <3>2, <3>3
    <3>5. ASSUME NEW b \in HeapBlocks
          PROVE  /\ b \in DOMAIN given => \E k \in 1 .. Len(recs2) : OpenIn(recs2, b) = {k} /\ recs2[k].call = given[b]
                 /\ (\E u \in BlobIds : Frees(entry'[u], b)) => \E k \in 1 .. Len(recs2) : OpenIn(recs2, b) = {k}
                 /\ b \notin DOMAIN given /\ (\A u \in BlobIds : ~Frees(entry'[u], b)) => OpenIn(recs2, b) = {}
      <4>1. CASE b = a
        BY <2>1, <2>2, <3>4, <4>1
      <4>2. CASE b # a
        <5>1. OpenIn(recs2, b) = OpenIn(recs, b)
          BY <3>4, <4>2
        <5>2. \A u \in BlobIds : Frees(entry'[u], b) <=> Frees(entry[u], b)
          BY <1>6, <2>1, <4>2
        <5> QED
          BY <1>11, <3>1, <5>1, <5>2
      <4> QED
        BY <4>1, <4>2
    <3> QED
      BY <1>13, <3>4, <3>5 DEF TraceFits
  <2> QED
    BY <2>3, <2>4
<1> QED
  BY <1>18, <1>19, <1>20, <1>21, <1>22 DEF OsiInv

LEMMA OsiStep == ASSUME OsiInv, ObjectsNext PROVE OsiInv'
<1>1. PICK t \in BlobIds :
    \/ Malloc(t) \/ (\E a \in HeapBlocks : OsiFree(t, a))
    \/ (\E a, b \in HeapBlocks : OsiRealloc(t, a, b))
    \/ (\E kind \in BoxKinds : Create(t, kind)) \/ WifiCreateQueue(t)
    \/ (\E h \in HeapBlocks : Delete(t, h)) \/ (\E w \in HeapBlocks : WifiDeleteQueue(t, w))
    \/ ThreadSemphrGet(t) \/ TaskEnds(t)
    \/ HeapAlloc(t) \/ NoteAlloc(t) \/ NoteFree(t) \/ HeapFree(t) \/ NoteObject(t) \/ Wrap(t)
    \/ Unbox(t) \/ DropStorage(t) \/ StoreSem(t) \/ EndLife(t)
  BY DEF ObjectsNext
<1> QED
  BY <1>1, OsiMalloc, OsiFreeIs, OsiReallocIs, OsiCreate, OsiWifiCreate, OsiDelete, OsiWifiDelete, OsiSemphrGet,
     OsiTaskEnds, OsiHeapAlloc, OsiNoteAlloc, OsiNoteFree, OsiHeapFree, OsiNoteObject, OsiWrap, OsiUnbox,
     OsiDropStorage, OsiStoreSem, OsiEndLife

LEMMA OsiGivesRight == ASSUME OsiInv PROVE RadioObjectsRight
<1>1. HandlesLive
  <2>1. \A h \in DOMAIN boxed : h \in inHeap /\ h \notin DOMAIN given
    BY DEF OsiInv, Places
  <2>2. \A w \in DOMAIN boxed : boxed[w].kind = "wrapper" => boxed[w].inner \in DOMAIN boxed
    BY DEF OsiInv, WrapsFit
  <2> QED
    BY <2>1, <2>2 DEF HandlesLive
<1>2. ThreadSemsOwn
  BY DEF OsiInv, SemsFit, ThreadSemsOwn
<1>3. TraceExact
  <2>1. SUFFICES ASSUME \A t \in BlobIds : Idle(t), traceLog.overflow = 0, ~moved
                 PROVE  /\ {<<traceLog.records[i].at, traceLog.records[i].call>> : i \in UNION {Open(a) : a \in HeapBlocks}}
                           = {<<a, given[a]>> : a \in DOMAIN given}
                        /\ traceLog.unmatched = 0
    BY DEF TraceExact
  <2>2. PICK recs : recs = traceLog.records
    OBVIOUS
  <2>3. \A t \in BlobIds : \A a : ~Frees(entry[t], a)
    <3>1. \A t \in BlobIds : NextOf(entry[t].steps) = "none"
      BY <2>1 DEF Idle, NextOf
    <3> QED
      BY <3>1 DEF Frees
  <2>4. /\ traceLog.unmatched = 0
        /\ \A a \in HeapBlocks :
             /\ a \in DOMAIN given => \E i \in 1 .. Len(recs) : OpenIn(recs, a) = {i} /\ recs[i].call = given[a]
             /\ a \notin DOMAIN given => OpenIn(recs, a) = {}
    BY <2>1, <2>2, <2>3 DEF OsiInv, TraceFits
  <2>5. \A a : Open(a) = OpenIn(recs, a)
    BY <2>2 DEF Open, OpenIn
  <2>6. \A a : \A i \in OpenIn(recs, a) : recs[i].at = a
    BY DEF OpenIn
  <2>7. DOMAIN given \subseteq HeapBlocks
    BY OsiFacts
  <2>8. ASSUME NEW i \in UNION {Open(a) : a \in HeapBlocks}
        PROVE  \E a \in DOMAIN given : <<recs[i].at, recs[i].call>> = <<a, given[a]>>
    <3>1. PICK a \in HeapBlocks : i \in OpenIn(recs, a)
      BY <2>5
    <3>2. a \in DOMAIN given
      BY <2>4, <3>1
    <3>3. recs[i].at = a /\ recs[i].call = given[a]
      BY <2>4, <2>6, <3>1, <3>2
    <3> QED
      BY <3>2, <3>3
  <2>9. ASSUME NEW a \in DOMAIN given
        PROVE  \E i \in UNION {Open(b) : b \in HeapBlocks} : <<recs[i].at, recs[i].call>> = <<a, given[a]>>
    <3>1. PICK i \in 1 .. Len(recs) : OpenIn(recs, a) = {i} /\ recs[i].call = given[a]
      BY <2>4, <2>7
    <3>2. i \in UNION {Open(b) : b \in HeapBlocks} /\ recs[i].at = a
      BY <2>5, <2>6, <2>7, <3>1
    <3> QED
      BY <3>1, <3>2
  <2>10. {<<recs[i].at, recs[i].call>> : i \in UNION {Open(a) : a \in HeapBlocks}} = {<<a, given[a]>> : a \in DOMAIN given}
    BY <2>8, <2>9
  <2> QED
    BY <2>2, <2>4, <2>10
<1> QED
  BY <1>1, <1>2, <1>3 DEF RadioObjectsRight

(* What the operating-system table made: while no record was lost and no   *)
(* block moved the trace is exact, a thread's semaphore is its own, and no *)
(* handle names freed memory, with any number of tasks and of blocks.      *)
THEOREM RadioObjectsAreRight == ObjectsSpec => []RadioObjectsRight
<1>1. ObjectsInit => OsiInv
  BY ObjectsBegin
<1>2. OsiInv /\ [ObjectsNext]_objectVars => OsiInv'
  <2>1. ASSUME OsiInv, ObjectsNext PROVE OsiInv'
    BY <2>1, OsiStep
  <2>2. ASSUME OsiInv, UNCHANGED objectVars PROVE OsiInv'
    BY <2>2 DEF objectVars, OsiInv, OsiTyped, EntriesFit, Places, RefsApart, WrapsFit, SemsFit, TraceFits
  <2> QED
    BY <2>1, <2>2
<1>3. OsiInv => RadioObjectsRight
  BY OsiGivesRight
<1> QED
  BY <1>1, <1>2, <1>3, PTL DEF ObjectsSpec

(***************************************************************************)
(* The Wi-Fi station.                                                      *)
(***************************************************************************)

(* What of the link is on its way in the ring, between ends of scans.      *)
Reports == [kind : {"up", "down", "scan"}, channel : StaChannels \cup {0}]
Silent(ev) == \A i \in 1 .. Len(ev) : ev[i].kind = "scan"
OneReport(ev, k, c) ==
  \E i \in 1 .. Len(ev) :
    /\ ev[i].kind = k /\ ev[i].channel = c
    /\ \A j \in 1 .. Len(ev) : j # i => ev[j].kind = "scan"
UpThenDown(ev) ==
  \E i, j \in 1 .. Len(ev) :
    /\ i < j /\ ev[i].kind = "up" /\ ev[j].kind = "down" /\ ev[j].channel = 0
    /\ \A k \in 1 .. Len(ev) : k # i /\ k # j => ev[k].kind = "scan"

(* The link, what is on its way and what status says fit together.         *)
LinkFits(link, ch, st, ev, shown) ==
  \/ link = "down" /\ Silent(ev) /\ st = "disconnected"
  \/ link = "trying" /\ Silent(ev) /\ st = "connecting"
  \/ link = "up" /\ OneReport(ev, "up", ch) /\ st = "connecting"
  \/ link = "up" /\ Silent(ev) /\ st = "connected" /\ shown = ch
  \/ link = "down" /\ OneReport(ev, "down", 0) /\ st \in {"connecting", "connected"}
  \/ link = "down" /\ UpThenDown(ev) /\ st = "connecting"

(* The channel that status shows, or is about to.                          *)
Shown == IF staTask.pc = "channel" THEN staTask.event.channel ELSE sta.channel

AppPcs == {"off", "up", "idle", "connect", "accepted", "refused", "status"}
UpSteps == {<<"stores", "handler", "init", "mode", "start">>, <<"handler", "init", "mode", "start">>,
            <<"init", "mode", "start">>, <<"mode", "start">>, <<"start">>}
AfterHandler == {<<"init", "mode", "start">>, <<"mode", "start">>, <<"start">>}
StaRec == [state : StaStates, channel : StaChannels \cup {0}, bridge : BOOLEAN, handler : BOOLEAN]
StaAppRec == [pc : AppPcs, steps : UpSteps \cup {<<>>}, told : StaStates \cup {"nothing"},
              read : {"none", "no channel", "channel"}]
StaLibRec == [up : BOOLEAN, link : {"down", "trying", "up"}, channel : StaChannels \cup {0}, scanning : BOOLEAN,
              found : Nat]
StaRingRec == [events : Seq(Reports), dropped : Nat]
StaTaskRec == [event : Reports \cup {NoEvent}, pc : {"pop", "channel", "tell"}, tasks : Nat]
StaTyped ==
  /\ sta \in StaRec /\ staApp \in StaAppRec /\ lib \in StaLibRec /\ staRing \in StaRingRec /\ staTask \in StaTaskRec
  /\ staTask.pc = "channel" => staTask.event \in Reports

(* bridge is set before the library can be asked to connect.               *)
StaUp ==
  /\ staApp.pc = "up" => staApp.steps \in UpSteps
  /\ staApp.pc = "up" /\ staApp.steps \in AfterHandler => sta.bridge
  /\ staApp.pc \notin {"off", "up"} => sta.bridge
  /\ staApp.pc \in {"off", "up"} =>
       /\ ~lib.up /\ lib.link = "down" /\ Silent(staRing.events)
       /\ sta.state = "disconnected" /\ staTask.pc # "channel"

StaFits ==
  staRing.dropped = 0 =>
    /\ staTask.pc = "channel" => sta.state = "connected"
    /\ IF staApp.pc \in {"connect", "refused"}
       THEN lib.link = "down" /\ Silent(staRing.events) /\ sta.state = "connecting"
       ELSE LinkFits(lib.link, lib.channel, sta.state, staRing.events, Shown)

StaInv == StaTyped /\ StaUp /\ StaFits

LEMMA Posted ==
  ASSUME NEW ev \in Seq(Reports), NEW e \in Reports, NEW w, w = Append(ev, e)
  PROVE  /\ w \in Seq(Reports)
         /\ e.kind = "scan" => /\ Silent(ev) => Silent(w)
                               /\ \A k \in {"up", "down"} : \A c : OneReport(ev, k, c) => OneReport(w, k, c)
                               /\ UpThenDown(ev) => UpThenDown(w)
         /\ Silent(ev) => OneReport(w, e.kind, e.channel)
         /\ e.kind = "down" /\ e.channel = 0 => \A c : OneReport(ev, "up", c) => UpThenDown(w)
<1>1. PICK n \in Nat : n = Len(ev)
  OBVIOUS
<1>2. w \in Seq(Reports) /\ Len(w) = n + 1 /\ w[n + 1] = e /\ \A i \in 1 .. n : w[i] = ev[i]
  BY <1>1
<1>3. (\A i \in 1 .. n + 1 : i \in 1 .. n \/ i = n + 1) /\ n + 1 \in 1 .. n + 1 /\ \A i \in 1 .. n : i \in 1 .. n + 1 /\ i < n + 1
  OBVIOUS
<1>4. ASSUME e.kind = "scan" PROVE Silent(ev) => Silent(w)
  BY <1>1, <1>2, <1>3, <1>4 DEF Silent
<1>5. ASSUME e.kind = "scan", NEW k \in {"up", "down"}, NEW c, OneReport(ev, k, c) PROVE OneReport(w, k, c)
  <2>1. PICK i \in 1 .. n : /\ ev[i].kind = k /\ ev[i].channel = c
                            /\ \A j \in 1 .. n : j # i => ev[j].kind = "scan"
    BY <1>1, <1>5 DEF OneReport
  <2>2. i \in 1 .. n + 1 /\ w[i].kind = k /\ w[i].channel = c
    BY <1>2, <1>3, <2>1
  <2>3. \A j \in 1 .. n + 1 : j # i => w[j].kind = "scan"
    BY <1>2, <1>3, <1>5, <2>1
  <2> QED
    BY <1>2, <2>2, <2>3 DEF OneReport
<1>6. ASSUME e.kind = "scan", UpThenDown(ev) PROVE UpThenDown(w)
  <2>1. PICK i \in 1 .. n, j \in 1 .. n :
          /\ i < j /\ ev[i].kind = "up" /\ ev[j].kind = "down" /\ ev[j].channel = 0
          /\ \A k \in 1 .. n : k # i /\ k # j => ev[k].kind = "scan"
    BY <1>1, <1>6 DEF UpThenDown
  <2>2. i \in 1 .. n + 1 /\ j \in 1 .. n + 1 /\ w[i].kind = "up" /\ w[j].kind = "down" /\ w[j].channel = 0
    BY <1>2, <1>3, <2>1
  <2>3. \A k \in 1 .. n + 1 : k # i /\ k # j => w[k].kind = "scan"
    BY <1>2, <1>3, <1>6, <2>1
  <2> QED
    <3>1. \A k \in 1 .. Len(w) : k # i /\ k # j => w[k].kind = "scan"
      BY <1>2, <2>3
    <3>2. i \in 1 .. Len(w) /\ j \in 1 .. Len(w) /\ i < j
      BY <1>2, <2>1, <2>2
    <3>3. \E i1 \in 1 .. Len(w) : \E j1 \in 1 .. Len(w) :
            /\ i1 < j1 /\ w[i1].kind = "up" /\ w[j1].kind = "down" /\ w[j1].channel = 0
            /\ \A k \in 1 .. Len(w) : k # i1 /\ k # j1 => w[k].kind = "scan"
      BY <2>2, <3>1, <3>2
    <3> QED
      BY <3>3 DEF UpThenDown
<1>7. ASSUME Silent(ev) PROVE OneReport(w, e.kind, e.channel)
  <2>1. \A j \in 1 .. n + 1 : j # n + 1 => w[j].kind = "scan"
    BY <1>1, <1>2, <1>3, <1>7 DEF Silent
  <2> QED
    BY <1>2, <1>3, <2>1 DEF OneReport
<1>8. ASSUME e.kind = "down", e.channel = 0, NEW c, OneReport(ev, "up", c) PROVE UpThenDown(w)
  <2>1. PICK i \in 1 .. n : /\ ev[i].kind = "up" /\ \A j \in 1 .. n : j # i => ev[j].kind = "scan"
    BY <1>1, <1>8 DEF OneReport
  <2>2. i \in 1 .. n + 1 /\ i < n + 1 /\ w[i].kind = "up" /\ w[n + 1].kind = "down" /\ w[n + 1].channel = 0
    BY <1>2, <1>3, <1>8, <2>1
  <2>3. \A k \in 1 .. n + 1 : k # i /\ k # n + 1 => w[k].kind = "scan"
    BY <1>2, <1>3, <2>1
  <2> QED
    BY <1>2, <1>3, <2>2, <2>3 DEF UpThenDown
<1> QED
  BY <1>2, <1>4, <1>5, <1>6, <1>7, <1>8

LEMMA Popped ==
  ASSUME NEW ev \in Seq(Reports), ev # <<>>, NEW h, NEW w, h = Head(ev), w = Tail(ev)
  PROVE  /\ w \in Seq(Reports) /\ h \in Reports
         /\ Silent(ev) => h.kind = "scan" /\ Silent(w)
         /\ \A k \in {"up", "down"} : \A c : OneReport(ev, k, c) =>
              \/ h.kind = "scan" /\ OneReport(w, k, c)
              \/ h.kind = k /\ h.channel = c /\ Silent(w)
         /\ UpThenDown(ev) => \/ h.kind = "scan" /\ UpThenDown(w)
                              \/ h.kind = "up" /\ OneReport(w, "down", 0)
<1>1. PICK n \in Nat : n + 1 = Len(ev)
  <2>1. Len(ev) \in Nat /\ Len(ev) # 0
    OBVIOUS
  <2>2. Len(ev) - 1 \in Nat /\ (Len(ev) - 1) + 1 = Len(ev)
    BY <2>1
  <2> QED
    BY <2>2
<1>2. w \in Seq(Reports) /\ Len(w) = n /\ h = ev[1] /\ h \in Reports /\ \A i \in 1 .. n : w[i] = ev[i + 1]
  BY <1>1
<1>3. /\ 1 \in 1 .. n + 1 /\ \A i \in 1 .. n : i + 1 \in 1 .. n + 1 /\ i + 1 # 1
      /\ \A i \in 1 .. n + 1 : i # 1 => i - 1 \in 1 .. n /\ (i - 1) + 1 = i
  OBVIOUS
<1>4. ASSUME Silent(ev) PROVE h.kind = "scan" /\ Silent(w)
  BY <1>1, <1>2, <1>3, <1>4 DEF Silent
<1>5. ASSUME NEW k \in {"up", "down"}, NEW c, OneReport(ev, k, c)
      PROVE  (h.kind = "scan" /\ OneReport(w, k, c)) \/ (h.kind = k /\ h.channel = c /\ Silent(w))
  <2>1. PICK i \in 1 .. n + 1 : /\ ev[i].kind = k /\ ev[i].channel = c
                                /\ \A j \in 1 .. n + 1 : j # i => ev[j].kind = "scan"
    BY <1>1, <1>5 DEF OneReport
  <2>2. CASE i = 1
    <3>1. \A j \in 1 .. n : w[j].kind = "scan"
      BY <1>2, <1>3, <2>1, <2>2
    <3> QED
      BY <1>2, <2>1, <2>2, <3>1 DEF Silent
  <2>3. CASE i # 1
    <3>1. PICK m \in 1 .. n : m + 1 = i
      BY <1>3, <2>3
    <3>2. w[m].kind = k /\ w[m].channel = c /\ h.kind = "scan"
      BY <1>2, <1>3, <2>1, <2>3, <3>1
    <3>3. \A j \in 1 .. n : j # m => w[j].kind = "scan"
      <4> SUFFICES ASSUME NEW j \in 1 .. n, j # m PROVE w[j].kind = "scan"
        OBVIOUS
      <4>1. j + 1 # i
        BY <3>1
      <4> QED
        BY <1>2, <1>3, <2>1, <4>1
    <3> QED
      BY <1>2, <3>2, <3>3 DEF OneReport
  <2> QED
    BY <2>2, <2>3
<1>6. ASSUME UpThenDown(ev)
      PROVE  (h.kind = "scan" /\ UpThenDown(w)) \/ (h.kind = "up" /\ OneReport(w, "down", 0))
  <2>1. PICK i \in 1 .. n + 1, j \in 1 .. n + 1 :
          /\ i < j /\ ev[i].kind = "up" /\ ev[j].kind = "down" /\ ev[j].channel = 0
          /\ \A k \in 1 .. n + 1 : k # i /\ k # j => ev[k].kind = "scan"
    BY <1>1, <1>6 DEF UpThenDown
  <2>2. j # 1
    BY <2>1
  <2>3. PICK m \in 1 .. n : m + 1 = j
    BY <1>3, <2>2
  <2>4. w[m].kind = "down" /\ w[m].channel = 0
    BY <1>2, <2>1, <2>3
  <2>5. CASE i = 1
    <3>1. \A k \in 1 .. n : k # m => w[k].kind = "scan"
      <4> SUFFICES ASSUME NEW k \in 1 .. n, k # m PROVE w[k].kind = "scan"
        OBVIOUS
      <4>1. k + 1 # j /\ k + 1 # i
        BY <2>3, <2>5
      <4> QED
        BY <1>2, <1>3, <2>1, <4>1
    <3> QED
      BY <1>2, <2>1, <2>4, <2>5, <3>1 DEF OneReport
  <2>6. CASE i # 1
    <3>1. PICK l \in 1 .. n : l + 1 = i
      BY <1>3, <2>6
    <3>2. w[l].kind = "up" /\ h.kind = "scan" /\ l < m
      BY <1>2, <1>3, <2>1, <2>2, <2>3, <2>6, <3>1
    <3>3. \A k \in 1 .. n : k # l /\ k # m => w[k].kind = "scan"
      <4> SUFFICES ASSUME NEW k \in 1 .. n, k # m, k # l PROVE w[k].kind = "scan"
        OBVIOUS
      <4>1. k + 1 # j /\ k + 1 # i
        BY <2>3, <3>1
      <4> QED
        BY <1>2, <1>3, <2>1, <4>1
    <3> QED
      <4>1. Len(w) = n
        BY <1>2
      <4> DEFINE Shape(x, y) == /\ x < y /\ w[x].kind = "up" /\ w[y].kind = "down" /\ w[y].channel = 0
                                /\ \A k \in 1 .. Len(w) : k # x /\ k # y => w[k].kind = "scan"
      <4>2. Shape(l, m)
        BY <2>4, <3>2, <3>3, <4>1
      <4>3. UpThenDown(w) <=> \E x, y \in 1 .. Len(w) : Shape(x, y)
        BY Zenon DEF UpThenDown
      <4>4. l \in 1 .. Len(w) /\ m \in 1 .. Len(w)
        BY <4>1
      <4> HIDE DEF Shape
      <4> QED
        BY <3>2, <4>2, <4>3, <4>4
  <2> QED
    BY <2>5, <2>6
<1> QED
  BY <1>2, <1>4, <1>5, <1>6

(* What a report does to the fit, as it is posted and as it is handed on.  *)
LEMMA FitPosted ==
  ASSUME NEW ev \in Seq(Reports), NEW e \in Reports, NEW w, w = Append(ev, e),
         NEW l, NEW ch, NEW st, NEW s, LinkFits(l, ch, st, ev, s)
  PROVE  /\ e.kind = "scan" => LinkFits(l, ch, st, w, s)
         /\ e.kind = "down" /\ e.channel = 0 /\ l \in {"trying", "up"} => \A x : LinkFits("down", x, st, w, s)
         /\ e.kind = "up" /\ l = "trying" => LinkFits("up", e.channel, st, w, s)
<1>1. ASSUME e.kind = "scan" PROVE LinkFits(l, ch, st, w, s)
  BY <1>1, Posted DEF LinkFits
<1>2. ASSUME e.kind = "down", e.channel = 0, l \in {"trying", "up"}, NEW x PROVE LinkFits("down", x, st, w, s)
  <2>1. CASE Silent(ev) /\ st \in {"connecting", "connected"}
    <3>1. OneReport(w, e.kind, e.channel)
      BY <2>1, Posted
    <3>2. OneReport(w, "down", 0)
      BY <1>2, <3>1
    <3> QED
      BY <2>1, <3>2 DEF LinkFits
  <2>2. CASE OneReport(ev, "up", ch) /\ st = "connecting"
    BY <1>2, <2>2, Posted DEF LinkFits
  <2> QED
    BY <1>2, <2>1, <2>2 DEF LinkFits
<1>3. ASSUME e.kind = "up", l = "trying" PROVE LinkFits("up", e.channel, st, w, s)
  <2>1. Silent(ev) /\ st = "connecting"
    BY <1>3 DEF LinkFits
  <2>2. OneReport(w, "up", e.channel)
    <3>1. OneReport(w, e.kind, e.channel)
      BY <2>1, Posted
    <3> QED
      BY <1>3, <3>1
  <2> QED
    BY <2>1, <2>2 DEF LinkFits
<1> QED
  BY <1>1, <1>2, <1>3

LEMMA FitPopped ==
  ASSUME NEW ev \in Seq(Reports), ev # <<>>, NEW h, NEW w, h = Head(ev), w = Tail(ev),
         NEW l, NEW ch, NEW st, NEW s, LinkFits(l, ch, st, ev, s)
  PROVE  /\ h.kind = "scan" => LinkFits(l, ch, st, w, s)
         /\ h.kind = "up" => LinkFits(l, ch, "connected", w, h.channel)
         /\ h.kind = "down" => LinkFits(l, ch, "disconnected", w, s)
<1>1. CASE Silent(ev)
  BY <1>1, Popped DEF LinkFits
<1>2. CASE l = "up" /\ OneReport(ev, "up", ch) /\ st = "connecting"
  <2>1. CASE h.kind = "scan" /\ OneReport(w, "up", ch)
    BY <1>2, <2>1 DEF LinkFits
  <2>2. CASE h.kind = "up" /\ h.channel = ch /\ Silent(w)
    BY <1>2, <2>2 DEF LinkFits
  <2> QED
    BY <1>2, <2>1, <2>2, Popped
<1>3. CASE l = "down" /\ OneReport(ev, "down", 0) /\ st \in {"connecting", "connected"}
  <2>1. CASE h.kind = "scan" /\ OneReport(w, "down", 0)
    BY <1>3, <2>1 DEF LinkFits
  <2>2. CASE h.kind = "down" /\ Silent(w)
    BY <1>3, <2>2 DEF LinkFits
  <2> QED
    BY <1>3, <2>1, <2>2, Popped
<1>4. CASE l = "down" /\ UpThenDown(ev) /\ st = "connecting"
  <2>1. CASE h.kind = "scan" /\ UpThenDown(w)
    BY <1>4, <2>1 DEF LinkFits
  <2>2. CASE h.kind = "up" /\ OneReport(w, "down", 0)
    BY <1>4, <2>2 DEF LinkFits
  <2> QED
    BY <1>4, <2>1, <2>2, Popped
<1> QED
  BY <1>1, <1>2, <1>3, <1>4 DEF LinkFits

LEMMA StaFacts ==
  ASSUME StaInv
  PROVE  /\ sta \in StaRec /\ staApp \in StaAppRec /\ lib \in StaLibRec /\ staRing \in StaRingRec /\ staTask \in StaTaskRec
         /\ staApp.pc \in AppPcs /\ staRing.events \in Seq(Reports) /\ staRing.dropped \in Nat
         /\ sta.channel \in StaChannels \cup {0} /\ lib.channel \in StaChannels \cup {0}
  BY DEF StaInv, StaTyped, StaRec, StaAppRec, StaLibRec, StaRingRec, StaTaskRec

LEMMA StaBegins == StaInit => StaInv
<1> SUFFICES ASSUME StaInit PROVE StaInv
  OBVIOUS
<1>1. NoEvent \in Reports \cup {NoEvent} /\ <<>> \in Seq(Reports) /\ <<>> \in UpSteps \cup {<<>>} /\ 0 \in StaChannels \cup {0}
  OBVIOUS
<1>2. StaTyped
  BY <1>1 DEF StaInit, StaTyped, StaRec, StaAppRec, StaLibRec, StaRingRec, StaTaskRec, StaStates, AppPcs
<1>3. Silent(staRing.events)
  BY DEF StaInit, Silent
<1>4. StaUp
  BY <1>3 DEF StaInit, StaUp
<1>5. StaFits
  BY <1>3 DEF StaInit, StaFits, LinkFits
<1> QED
  BY <1>2, <1>4, <1>5 DEF StaInv

(* The application moves to a, the state to st: what the library and the   *)
(* ring hold stays.                                                        *)
LEMMA AppMoves ==
  ASSUME StaInv, UNCHANGED <<sta, lib, staRing, staTask>>, staApp' \in StaAppRec,
         {staApp.pc, staApp'.pc} \subseteq {"idle", "status", "accepted"} \/ staApp'.pc = staApp.pc,
         staApp'.pc = "up" => staApp'.steps = staApp.steps
  PROVE  StaInv'
<1>1. StaTyped'
  BY DEF StaInv, StaTyped
<1>2. StaUp'
  BY DEF StaInv, StaUp
<1>3. StaFits'
  BY DEF StaInv, StaFits, Shown
<1> QED
  BY <1>1, <1>2, <1>3 DEF StaInv

(* The library changes what no one is told.                                *)
LEMMA LibMoves ==
  ASSUME StaInv, UNCHANGED <<sta, staApp, staRing, staTask>>, lib' \in StaLibRec,
         lib'.up = lib.up, lib'.link = lib.link, lib'.channel = lib.channel
  PROVE  StaInv'
  BY DEF StaInv, StaTyped, StaUp, StaFits, Shown

(* Bringing the library up: nothing is on its way yet.                     *)
LEMMA UpMoves ==
  ASSUME StaInv, staApp.pc \in {"off", "up"}, staApp' \in StaAppRec, staApp'.pc \in {"off", "up", "idle"},
         sta' \in StaRec, sta'.state = sta.state, lib' \in StaLibRec, lib'.link = lib.link, staRing' = staRing,
         staTask' \in StaTaskRec, staTask'.pc = staTask.pc,
         staApp'.pc = "up" => staApp'.steps \in UpSteps /\ (staApp'.steps \in AfterHandler => sta'.bridge),
         staApp'.pc = "idle" => sta'.bridge, staApp'.pc # "idle" => lib'.up = lib.up
  PROVE  StaInv'
<1>1. lib.link = "down" /\ Silent(staRing.events) /\ sta.state = "disconnected" /\ staTask.pc # "channel"
  BY DEF StaInv, StaUp, StaTyped
<1>2. StaTyped'
  BY <1>1 DEF StaInv, StaTyped
<1>3. StaUp'
  BY <1>1 DEF StaInv, StaUp
<1>4. StaFits'
  <2>1. staApp'.pc \notin {"connect", "refused"}
    OBVIOUS
  <2>2. LinkFits(lib.link, lib.channel, sta.state, staRing.events, Shown)'
    BY <1>1 DEF LinkFits
  <2> QED
    BY <1>1, <2>1, <2>2 DEF StaFits
<1> QED
  BY <1>2, <1>3, <1>4 DEF StaInv

(* The ends of short lists.                                                *)
LEMMA ListOf1 ==
  ASSUME NEW a
  PROVE  Head(<<a>>) = a /\ Tail(<<a>>) = <<>> /\ <<a>> # <<>>
  OBVIOUS
LEMMA ListOf2 ==
  ASSUME NEW a, NEW b
  PROVE  Head(<<a, b>>) = a /\ Tail(<<a, b>>) = <<b>> /\ <<a, b>> # <<>>
  OBVIOUS
LEMMA ListOf3 ==
  ASSUME NEW a, NEW b, NEW c
  PROVE  Head(<<a, b, c>>) = a /\ Tail(<<a, b, c>>) = <<b, c>> /\ <<a, b, c>> # <<>>
  OBVIOUS
LEMMA ListOf4 ==
  ASSUME NEW a, NEW b, NEW c, NEW d
  PROVE  Head(<<a, b, c, d>>) = a /\ Tail(<<a, b, c, d>>) = <<b, c, d>> /\ <<a, b, c, d>> # <<>>
  OBVIOUS
LEMMA ListOf5 ==
  ASSUME NEW a, NEW b, NEW c, NEW d, NEW e
  PROVE  Head(<<a, b, c, d, e>>) = a /\ Tail(<<a, b, c, d, e>>) = <<b, c, d, e>> /\ <<a, b, c, d, e>> # <<>>
  OBVIOUS

(* What each step of bring_up leaves.                                      *)
LEMMA UpTails ==
  ASSUME NEW st \in UpSteps
  PROVE  /\ st # <<>> /\ Head(st) \in {"stores", "handler", "init", "mode", "start"}
         /\ Head(st) = "stores" => Tail(st) \in UpSteps /\ Tail(st) \notin AfterHandler
         /\ Head(st) \in {"handler", "init", "mode"} => Tail(st) \in AfterHandler
         /\ Head(st) \in {"init", "mode", "start"} => st \in AfterHandler
         /\ Head(st) = "start" => Tail(st) = <<>>
         /\ Head(st) # "start" => Tail(st) # <<>>
         /\ AfterHandler \subseteq UpSteps
<1>0. AfterHandler \subseteq UpSteps
  BY Zenon DEF AfterHandler, UpSteps
<1>1. CASE st = <<"stores", "handler", "init", "mode", "start">>
  <2>1. Head(st) = "stores" /\ Tail(st) = <<"handler", "init", "mode", "start">> /\ st # <<>>
    <3>1. PICK a, b, c, d, e : a = "stores" /\ b = "handler" /\ c = "init" /\ d = "mode" /\ e = "start"
      OBVIOUS
    <3>2. st = <<a, b, c, d, e>>
      BY <1>1, <3>1
    <3>3. Head(st) = a /\ Tail(st) = <<b, c, d, e>> /\ st # <<>>
      BY <3>2, ListOf5
    <3> QED
      BY <3>1, <3>3
  <2>2. <<"handler", "init", "mode", "start">> \in UpSteps /\ <<"handler", "init", "mode", "start">> # <<>>
    BY ListOf1, ListOf2, ListOf3, ListOf4, ListOf5, Zenon DEF UpSteps
  <2>3. <<"handler", "init", "mode", "start">> \notin AfterHandler
    BY DEF AfterHandler
  <2> QED
    BY <1>0, <2>1, <2>2, <2>3
<1>2. CASE st = <<"handler", "init", "mode", "start">>
  <2>1. Head(st) = "handler" /\ Tail(st) = <<"init", "mode", "start">> /\ st # <<>>
    <3>1. PICK a, b, c, d : a = "handler" /\ b = "init" /\ c = "mode" /\ d = "start"
      OBVIOUS
    <3>2. st = <<a, b, c, d>>
      BY <1>2, <3>1
    <3>3. Head(st) = a /\ Tail(st) = <<b, c, d>> /\ st # <<>>
      BY <3>2, ListOf4
    <3> QED
      BY <3>1, <3>3
  <2>2. <<"init", "mode", "start">> \in AfterHandler /\ <<"init", "mode", "start">> # <<>>
    BY ListOf1, ListOf2, ListOf3, ListOf4, ListOf5, Zenon DEF AfterHandler
  <2> QED
    BY <1>0, <2>1, <2>2
<1>3. CASE st = <<"init", "mode", "start">>
  <2>1. Head(st) = "init" /\ Tail(st) = <<"mode", "start">> /\ st # <<>>
    BY <1>3, ListOf3, Zenon
  <2>2. <<"mode", "start">> \in AfterHandler /\ <<"mode", "start">> # <<>> /\ st \in AfterHandler
    BY <1>3, ListOf1, ListOf2, ListOf3, ListOf4, ListOf5, Zenon DEF AfterHandler
  <2> QED
    BY <1>0, <2>1, <2>2
<1>4. CASE st = <<"mode", "start">>
  <2>1. Head(st) = "mode" /\ Tail(st) = <<"start">> /\ st # <<>>
    BY <1>4, ListOf2, Zenon
  <2>2. <<"start">> \in AfterHandler /\ <<"start">> # <<>> /\ st \in AfterHandler
    BY <1>4, ListOf1, ListOf2, ListOf3, ListOf4, ListOf5, Zenon DEF AfterHandler
  <2> QED
    BY <1>0, <2>1, <2>2
<1>5. CASE st = <<"start">>
  <2>1. Head(st) = "start" /\ Tail(st) = <<>> /\ st # <<>> /\ st \in AfterHandler
    BY <1>5, ListOf1, Zenon DEF AfterHandler
  <2> QED
    BY <1>0, <2>1
<1> QED
  BY <1>1, <1>2, <1>3, <1>4, <1>5, Zenon DEF UpSteps

LEMMA BringUpKeeps == ASSUME StaInv, BringUp PROVE StaInv'
<1> USE StaFacts
<1>1. BringUpSteps \in UpSteps /\ BringUpSteps \notin AfterHandler
  <2>1. BringUpSteps \in UpSteps
    BY Zenon DEF BringUpSteps, UpSteps
  <2>2. BringUpSteps \notin AfterHandler
    BY DEF BringUpSteps, AfterHandler
  <2> QED
    BY <2>1, <2>2
<1>2. PICK a : a = [staApp EXCEPT !.pc = "up", !.steps = BringUpSteps]
  OBVIOUS
<1>3. a \in StaAppRec /\ a.pc = "up" /\ a.steps = BringUpSteps
  <2>1. "up" \in AppPcs /\ BringUpSteps \in UpSteps \cup {<<>>}
    BY <1>1 DEF AppPcs
  <2> QED
    BY <1>2, <2>1 DEF StaAppRec
<1>4. staApp' = a /\ staApp.pc = "off" /\ UNCHANGED <<sta, lib, staRing, staTask>>
  BY <1>2 DEF BringUp, AppAt
<1> QED
  BY <1>1, <1>3, <1>4, UpMoves

LEMMA BringUpStepKeeps == ASSUME StaInv, BringUpStep PROVE StaInv'
<1> USE StaFacts
<1>0. PICK st, s, rest : st = staApp.steps /\ s = Head(st) /\ rest = Tail(st)
  OBVIOUS
<1>1. staApp.pc = "up" /\ st \in UpSteps /\ staRing' = staRing
  BY <1>0 DEF BringUpStep, AppAt, StaInv, StaUp
<1>2. PICK a, b, pc : /\ pc = (IF rest = <<>> THEN "idle" ELSE "up")
                      /\ a = [staApp EXCEPT !.steps = rest, !.pc = pc]
                      /\ b = [staApp EXCEPT !.steps = <<>>, !.pc = "off"]
  OBVIOUS
<1>3. rest \in UpSteps \cup {<<>>} /\ "off" \in AppPcs /\ "up" \in AppPcs /\ "idle" \in AppPcs
  BY <1>0, <1>1, UpTails DEF AppPcs
<1>4. /\ a \in StaAppRec /\ a.steps = rest /\ a.pc \in {"up", "idle"} /\ (a.pc = "idle" <=> rest = <<>>)
      /\ b \in StaAppRec /\ b.pc = "off"
  <2>1. pc \in AppPcs /\ pc \in {"up", "idle"} /\ (pc = "idle" <=> rest = <<>>)
    BY <1>2, <1>3
  <2>2. a \in StaAppRec /\ a.steps = rest /\ a.pc = pc
    BY <1>2, <1>3, <2>1 DEF StaAppRec
  <2>3. b \in StaAppRec /\ b.pc = "off"
    BY <1>2, <1>3 DEF StaAppRec
  <2> QED
    BY <2>1, <2>2, <2>3
<1>5. \/ s = "stores" /\ staApp' = a /\ UNCHANGED <<sta, lib, staTask>>
      \/ /\ s = "handler" /\ staApp' = a /\ sta' = [sta EXCEPT !.bridge = TRUE, !.handler = TRUE]
         /\ UNCHANGED <<lib, staTask>>
      \/ /\ s = "init" /\ staTask' = [staTask EXCEPT !.tasks = 1] /\ staApp' \in {a, b} /\ UNCHANGED <<sta, lib>>
      \/ s = "mode" /\ staApp' \in {a, b} /\ UNCHANGED <<sta, lib, staTask>>
      \/ /\ s = "start" /\ UNCHANGED <<sta, staTask>>
         /\ (staApp' = a /\ lib' = [lib EXCEPT !.up = TRUE]) \/ (staApp' = b /\ UNCHANGED lib)
  BY <1>0, <1>2 DEF BringUpStep
<1>6. CASE s = "stores"
  <2>1. rest \in UpSteps /\ rest \notin AfterHandler /\ rest # <<>>
    BY <1>0, <1>1, <1>6, UpTails
  <2>2. staApp' = a /\ UNCHANGED <<sta, lib, staTask>>
    BY <1>5, <1>6
  <2> QED
    BY <1>1, <1>4, <2>1, <2>2, UpMoves
<1>7. CASE s = "handler"
  <2>1. rest \in UpSteps /\ rest # <<>>
    BY <1>0, <1>1, <1>7, UpTails
  <2>2. staApp' = a /\ sta' = [sta EXCEPT !.bridge = TRUE, !.handler = TRUE] /\ UNCHANGED <<lib, staTask>>
    BY <1>5, <1>7
  <2>3. sta' \in StaRec /\ sta'.bridge /\ sta'.state = sta.state
    BY <2>2 DEF StaRec
  <2> QED
    BY <1>1, <1>4, <2>1, <2>2, <2>3, UpMoves
<1>8. CASE s \in {"init", "mode", "start"}
  <2>1. sta.bridge
    BY <1>0, <1>1, <1>8, UpTails DEF StaInv, StaUp
  <2>2. staApp' \in {a, b} /\ sta' = sta
    BY <1>5, <1>8
  <2>3. lib' \in StaLibRec /\ lib'.link = lib.link /\ (staApp'.pc # "idle" => lib'.up = lib.up)
    <3>1. lib' = lib \/ (lib' = [lib EXCEPT !.up = TRUE] /\ staApp' = a /\ s = "start")
      BY <1>5, <1>8
    <3>2. s = "start" => a.pc = "idle"
      BY <1>0, <1>1, <1>4, UpTails
    <3> QED
      BY <3>1, <3>2 DEF StaLibRec
  <2>4. staTask' \in StaTaskRec /\ staTask'.pc = staTask.pc
    <3>1. staTask' = staTask \/ staTask' = [staTask EXCEPT !.tasks = 1]
      BY <1>5, <1>8
    <3> QED
      BY <3>1 DEF StaTaskRec
  <2>5. rest = <<>> \/ rest \in UpSteps
    BY <1>3
  <2>6. /\ staApp' \in StaAppRec /\ staApp'.pc \in {"off", "up", "idle"}
        /\ staApp'.pc = "up" => staApp'.steps \in UpSteps
    BY <1>4, <2>2, <2>5
  <2> QED
    BY <1>1, <2>1, <2>2, <2>3, <2>4, <2>6, UpMoves
<1> QED
  BY <1>5, <1>6, <1>7, <1>8

(* connect is called when status says Disconnected: the link is down, and  *)
(* nothing is on its way.                                                  *)
LEMMA ConnectKeeps == ASSUME STA_POLITE, StaInv, Connect PROVE StaInv'
<1> USE StaFacts
<1>1. PICK a, z : a = [staApp EXCEPT !.pc = "connect"] /\ z = [sta EXCEPT !.state = "connecting"]
  OBVIOUS
<1>2. /\ staApp' = a /\ sta' = z /\ UNCHANGED <<lib, staRing, staTask>>
      /\ staApp.pc = "idle" /\ sta.state = "disconnected"
  BY <1>1 DEF Connect, AppAt
<1>3. a \in StaAppRec /\ a.pc = "connect"
  <2>1. "connect" \in AppPcs
    BY DEF AppPcs
  <2> QED
    BY <1>1, <2>1 DEF StaAppRec
<1>4. z \in StaRec /\ z.state = "connecting" /\ z.bridge = sta.bridge
  BY <1>1 DEF StaRec, StaStates
<1>5. StaTyped'
  BY <1>2, <1>3, <1>4 DEF StaInv, StaTyped
<1>6. StaUp'
  BY <1>2, <1>3, <1>4 DEF StaInv, StaUp
<1>7. StaFits'
  <2>1. ASSUME staRing.dropped = 0 PROVE lib.link = "down" /\ Silent(staRing.events) /\ staTask.pc # "channel"
    BY <1>2, <2>1 DEF StaInv, StaFits, LinkFits
  <2> QED
    BY <1>2, <1>3, <1>4, <2>1 DEF StaFits
<1> QED
  BY <1>5, <1>6, <1>7 DEF StaInv

LEMMA ConnectCallKeeps == ASSUME StaInv, ConnectCall PROVE StaInv'
<1> USE StaFacts
<1>0. staApp.pc = "connect" /\ UNCHANGED <<sta, staRing, staTask>>
  BY DEF ConnectCall, AppAt
<1>1. CASE staApp' = [staApp EXCEPT !.pc = "refused"] /\ UNCHANGED lib
  <2>1. "refused" \in AppPcs
    BY DEF AppPcs
  <2>2. staApp' \in StaAppRec /\ staApp'.pc = "refused"
    BY <1>1, <2>1 DEF StaAppRec
  <2>3. StaTyped'
    BY <1>0, <1>1, <2>2 DEF StaInv, StaTyped
  <2>4. StaUp'
    BY <1>0, <1>1, <2>2 DEF StaInv, StaUp
  <2>5. StaFits'
    BY <1>0, <1>1, <2>2 DEF StaInv, StaFits
  <2> QED
    BY <2>3, <2>4, <2>5 DEF StaInv
<1>2. CASE staApp' = [staApp EXCEPT !.pc = "accepted"] /\ lib' = [lib EXCEPT !.link = "trying"]
  <2>1. "accepted" \in AppPcs
    BY DEF AppPcs
  <2>2. staApp' \in StaAppRec /\ staApp'.pc = "accepted"
    BY <1>2, <2>1 DEF StaAppRec
  <2>2a. lib' \in StaLibRec /\ lib'.link = "trying"
    BY <1>2 DEF StaLibRec
  <2>3. StaTyped'
    BY <1>0, <2>2a, <2>2 DEF StaInv, StaTyped
  <2>4. StaUp'
    BY <1>0, <2>2 DEF StaInv, StaUp
  <2>5. StaFits'
    <3> SUFFICES ASSUME staRing.dropped = 0
                 PROVE  LinkFits(lib.link, lib.channel, sta.state, staRing.events, Shown)'
      BY <1>0, <2>2 DEF StaFits, StaInv
    <3>1. Silent(staRing.events) /\ sta.state = "connecting"
      BY <1>0 DEF StaInv, StaFits
    <3> QED
      BY <1>0, <2>2a, <3>1 DEF LinkFits
  <2> QED
    BY <2>3, <2>4, <2>5 DEF StaInv
<1> QED
  BY <1>1, <1>2 DEF ConnectCall

LEMMA ConnectReturnsKeeps == ASSUME StaInv, ConnectReturns PROVE StaInv'
<1> USE StaFacts
<1>0. staApp.pc \in {"accepted", "refused"} /\ UNCHANGED <<lib, staRing, staTask>>
  BY DEF ConnectReturns
<1>1. PICK a : a = [staApp EXCEPT !.pc = "idle"] /\ staApp' = a
  BY DEF ConnectReturns
<1>2. a \in StaAppRec /\ a.pc = "idle"
  <2>1. "idle" \in AppPcs
    BY DEF AppPcs
  <2> QED
    BY <1>1, <2>1 DEF StaAppRec
<1>3. CASE staApp.pc = "accepted"
  <2>1. sta' = sta
    BY <1>3 DEF ConnectReturns, AfterConnect, StaRec
  <2> QED
    BY <1>0, <1>1, <1>2, <1>3, <2>1, AppMoves
<1>4. CASE staApp.pc = "refused"
  <2>1. sta' \in StaRec /\ sta'.state = "disconnected" /\ sta'.bridge = sta.bridge
    <3>1. sta' = [sta EXCEPT !.state = "disconnected"]
      BY <1>4 DEF ConnectReturns, AfterConnect
    <3> QED
      BY <3>1 DEF StaRec, StaStates
  <2>2. ASSUME staRing.dropped = 0
        PROVE  LinkFits(lib.link, lib.channel, sta.state, staRing.events, Shown)'
    <3>1. lib.link = "down" /\ Silent(staRing.events)
      BY <1>4, <2>2 DEF StaInv, StaFits
    <3> QED
      BY <1>0, <2>1, <3>1 DEF LinkFits
  <2>3. StaTyped'
    BY <1>0, <1>1, <1>2, <2>1 DEF StaInv, StaTyped
  <2>4. StaUp'
    BY <1>0, <1>1, <1>2, <2>1 DEF StaInv, StaUp
  <2>5. StaFits'
    <3>1. staRing.dropped = 0 => staTask.pc # "channel"
      BY <1>4 DEF StaInv, StaFits
    <3> QED
      BY <1>0, <1>1, <1>2, <2>2, <3>1 DEF StaFits
  <2> QED
    BY <2>3, <2>4, <2>5 DEF StaInv
<1> QED
  BY <1>0, <1>3, <1>4

(* A report goes into the ring, or is counted as dropped.                  *)
LEMMA PostsWhere ==
  ASSUME StaInv, NEW e \in Reports, Posts(e)
  PROVE  /\ staRing' \in StaRingRec
         /\ staRing'.dropped = 0 => staRing.dropped = 0 /\ staRing'.events = Append(staRing.events, e)
<1> USE StaFacts
<1>1. CASE Len(staRing.events) = STA_RING
  <2>1. staRing' = [staRing EXCEPT !.dropped = @ + 1] /\ staRing.dropped + 1 \in Nat /\ staRing.dropped + 1 # 0
    BY <1>1 DEF Posts
  <2> QED
    BY <2>1 DEF StaRingRec
<1>2. CASE Len(staRing.events) # STA_RING
  <2>1. staRing' = [staRing EXCEPT !.events = Append(staRing.events, e)] /\ Append(staRing.events, e) \in Seq(Reports)
    BY <1>2 DEF Posts
  <2> QED
    BY <2>1 DEF StaRingRec
<1> QED
  BY <1>1, <1>2

(* The library reports, and its link with it.                              *)
LEMMA ReportKeeps ==
  ASSUME StaInv, UNCHANGED <<sta, staApp, staTask>>, staApp.pc \notin {"off", "up"},
         lib' \in StaLibRec, NEW e \in Reports, Posts(e),
         \/ e.kind = "scan" /\ lib'.link = lib.link /\ lib'.channel = lib.channel
         \/ /\ staApp.pc \notin {"connect", "refused"} \/ staRing.dropped # 0
            /\ \/ e.kind = "down" /\ e.channel = 0 /\ lib.link \in {"trying", "up"} /\ lib'.link = "down"
               \/ e.kind = "up" /\ lib.link = "trying" /\ lib'.link = "up" /\ lib'.channel = e.channel
  PROVE  StaInv'
<1> USE StaFacts
<1>1. StaTyped'
  BY PostsWhere DEF StaInv, StaTyped
<1>2. StaUp'
  BY DEF StaInv, StaUp
<1>3. StaFits'
  <2> SUFFICES ASSUME staRing'.dropped = 0 PROVE StaFits'
    BY DEF StaFits
  <2>1. PICK ev, w : /\ ev \in Seq(Reports) /\ ev = staRing.events /\ w = staRing'.events
                     /\ w = Append(ev, e) /\ staRing.dropped = 0
    BY PostsWhere
  <2>2. PICK l, ch, st, s : l = lib.link /\ ch = lib.channel /\ st = sta.state /\ s = Shown
    OBVIOUS
  <2>3. Shown' = s
    BY <2>2 DEF Shown
  <2>4. staTask.pc = "channel" => sta.state = "connected"
    BY <2>1 DEF StaInv, StaFits
  <2>5. CASE staApp.pc \in {"connect", "refused"}
    <3>1. e.kind = "scan" /\ lib'.link = lib.link
      BY <2>1, <2>5
    <3>2. lib.link = "down" /\ Silent(ev) /\ sta.state = "connecting"
      BY <2>1, <2>5 DEF StaInv, StaFits
    <3>3. Silent(w)
      BY <2>1, <3>1, <3>2, Posted
    <3> QED
      BY <2>1, <2>4, <2>5, <3>1, <3>2, <3>3 DEF StaFits
  <2>6. CASE staApp.pc \notin {"connect", "refused"}
    <3>1. LinkFits(l, ch, st, ev, s)
      BY <2>1, <2>2, <2>6 DEF StaInv, StaFits
    <3>2. LinkFits(lib'.link, lib'.channel, st, w, s)
      <4>1. CASE e.kind = "scan" /\ lib'.link = lib.link /\ lib'.channel = lib.channel
        BY <2>1, <2>2, <3>1, <4>1, FitPosted
      <4>2. CASE e.kind = "down" /\ e.channel = 0 /\ lib.link \in {"trying", "up"} /\ lib'.link = "down"
        <5>1. \A x : LinkFits("down", x, st, w, s)
          BY <2>1, <2>2, <3>1, <4>2, FitPosted
        <5> QED
          BY <4>2, <5>1
      <4>3. CASE e.kind = "up" /\ lib.link = "trying" /\ lib'.link = "up" /\ lib'.channel = e.channel
        <5>1. LinkFits("up", e.channel, st, w, s)
          BY <2>1, <2>2, <3>1, <4>3, FitPosted
        <5> QED
          BY <4>3, <5>1
      <4> QED
        BY <4>1, <4>2, <4>3
    <3> QED
      BY <2>1, <2>2, <2>3, <2>4, <2>6, <3>2 DEF StaFits
  <2> QED
    BY <2>5, <2>6
<1> QED
  BY <1>1, <1>2, <1>3 DEF StaInv

LEMMA ReportsAre ==
  /\ Event("down", 0) \in Reports /\ Event("down", 0).kind = "down" /\ Event("down", 0).channel = 0
  /\ Event("scan", 0) \in Reports /\ Event("scan", 0).kind = "scan"
  /\ \A c \in StaChannels : Event("up", c) \in Reports /\ Event("up", c).kind = "up" /\ Event("up", c).channel = c
  BY DEF Event, Reports

LEMMA DisconnectKeeps == ASSUME StaInv, Disconnect PROVE StaInv'
<1> USE StaFacts
<1>1. staApp.pc = "idle" /\ UNCHANGED <<sta, staApp, staTask>>
  BY DEF Disconnect, AppAt
<1>2. CASE lib.link = "down"
  <2>1. UNCHANGED <<lib, staRing>>
    BY <1>2 DEF Disconnect
  <2> QED
    BY <1>1, <2>1, LibMoves
<1>3. CASE lib.link # "down"
  <2>1. lib' = [lib EXCEPT !.link = "down", !.channel = 0] /\ Posts(Event("down", 0))
    BY <1>3 DEF Disconnect
  <2>2. lib' \in StaLibRec /\ lib'.link = "down" /\ lib.link \in {"trying", "up"}
    BY <1>3, <2>1 DEF StaLibRec
  <2>3. PICK e \in Reports : e = Event("down", 0) /\ e.kind = "down" /\ e.channel = 0
    BY ReportsAre
  <2>4. staApp.pc \notin {"off", "up"} /\ staApp.pc \notin {"connect", "refused"} /\ Posts(e)
    BY <1>1, <2>1, <2>3
  <2> QED
    BY <1>1, <2>2, <2>3, <2>4, ReportKeeps
<1> QED
  BY <1>2, <1>3

LEMMA LibReportsKeeps == ASSUME StaInv, LibReports PROVE StaInv'
<1> USE StaFacts
<1>0. UNCHANGED <<sta, staApp, staTask>> /\ lib.up
  BY DEF LibReports
<1>0a. PICK d \in Reports, z \in Reports : /\ d = Event("down", 0) /\ d.kind = "down" /\ d.channel = 0
                                           /\ z = Event("scan", 0) /\ z.kind = "scan"
  BY ReportsAre
<1>1. ASSUME lib.link \in {"trying", "up"}
      PROVE  staApp.pc \notin {"off", "up"} /\ (staApp.pc \notin {"connect", "refused"} \/ staRing.dropped # 0)
  BY <1>1 DEF StaInv, StaUp, StaFits
<1>2. ASSUME NEW c \in StaChannels, lib.link = "trying", lib' = [lib EXCEPT !.link = "up", !.channel = c],
             Posts(Event("up", c))
      PROVE  StaInv'
  <2>1. PICK e \in Reports : e = Event("up", c) /\ e.kind = "up" /\ e.channel = c
    BY ReportsAre
  <2>2. lib' \in StaLibRec /\ lib'.link = "up" /\ lib'.channel = c
    BY <1>2 DEF StaLibRec
  <2>3. Posts(e)
    BY <1>2, <2>1
  <2> QED
    BY <1>0, <1>1, <1>2, <2>1, <2>2, <2>3, ReportKeeps
<1>3. ASSUME lib.link \in {"trying", "up"}, lib' \in StaLibRec, lib'.link = "down", Posts(Event("down", 0)) PROVE StaInv'
  <2>1. Posts(d)
    BY <1>0a, <1>3
  <2> QED
    BY <1>0, <1>0a, <1>1, <1>3, <2>1, ReportKeeps
<1>4. ASSUME lib.link = "trying", lib' = [lib EXCEPT !.link = "down"], Posts(Event("down", 0)) PROVE StaInv'
  <2>1. lib' \in StaLibRec /\ lib'.link = "down"
    BY <1>4 DEF StaLibRec
  <2> QED
    BY <1>3, <1>4, <2>1
<1>5. ASSUME lib.link = "up", lib' = [lib EXCEPT !.link = "down", !.channel = 0], Posts(Event("down", 0)) PROVE StaInv'
  <2>1. lib' \in StaLibRec /\ lib'.link = "down"
    BY <1>5 DEF StaLibRec
  <2> QED
    BY <1>3, <1>5, <2>1
<1>6. ASSUME NEW n \in {0, STA_RECORDS, STA_RECORDS + 1}, lib' = [lib EXCEPT !.scanning = FALSE, !.found = n],
             Posts(Event("scan", 0)), staApp.pc \notin {"off", "up"}
      PROVE  StaInv'
  <2>1. n \in Nat
    BY StationAssumption
  <2>2. lib' \in StaLibRec /\ lib'.link = lib.link /\ lib'.channel = lib.channel
    BY <1>6, <2>1 DEF StaLibRec
  <2>3. Posts(z)
    BY <1>0a, <1>6
  <2> QED
    BY <1>0, <1>0a, <1>6, <2>2, <2>3, ReportKeeps
<1>7. staApp.pc \notin {"off", "up"}
  BY <1>0 DEF StaInv, StaUp
<1> QED
  BY <1>2, <1>4, <1>5, <1>6, <1>7 DEF LibReports

(* The dispatch task takes the next report; bridge stores the state.       *)
LEMMA DispatchKeeps == ASSUME StaInv, Dispatch PROVE StaInv'
<1> USE StaFacts
<1>1. PICK ev, h, w : /\ ev \in Seq(Reports) /\ ev = staRing.events /\ ev # <<>> /\ h = Head(ev) /\ w = Tail(ev)
  BY DEF Dispatch
<1>2. w \in Seq(Reports) /\ h \in Reports /\ h.kind \in {"up", "down", "scan"}
  <2>1. w \in Seq(Reports) /\ h \in Reports
    BY <1>1, Popped
  <2> QED
    BY <2>1 DEF Reports
<1>3. /\ staRing' = [staRing EXCEPT !.events = w] /\ UNCHANGED <<staApp, lib>> /\ staTask.pc = "pop"
  BY <1>1 DEF Dispatch
<1>4. staRing' \in StaRingRec /\ staRing'.events = w /\ staRing'.dropped = staRing.dropped
  BY <1>2, <1>3 DEF StaRingRec
<1>5. CASE ~sta.bridge
  <2>1. UNCHANGED <<staTask, sta>>
    BY <1>5 DEF Dispatch
  <2>2. staApp.pc \in {"off", "up"} /\ Silent(ev)
    BY <1>1, <1>5 DEF StaInv, StaUp
  <2>3. Silent(w)
    BY <1>1, <2>2, Popped
  <2>4. StaTyped'
    BY <1>3, <1>4, <2>1 DEF StaInv, StaTyped
  <2>5. StaUp'
    BY <1>3, <1>4, <2>1, <2>3 DEF StaInv, StaUp
  <2>6. StaFits'
    <3>1. lib.link = "down" /\ sta.state = "disconnected" /\ staTask.pc # "channel"
      BY <2>2 DEF StaInv, StaUp
    <3> QED
      BY <1>3, <1>4, <2>1, <2>2, <2>3, <3>1 DEF StaFits, LinkFits
  <2> QED
    BY <2>4, <2>5, <2>6 DEF StaInv
<1>6. CASE sta.bridge
  <2>1. /\ staTask' = [staTask EXCEPT !.event = h, !.pc = IF h.kind = "up" THEN "channel" ELSE "tell"]
        /\ sta' = CASE h.kind = "up" -> [sta EXCEPT !.state = "connected"]
                    [] h.kind = "down" -> [sta EXCEPT !.state = "disconnected"]
                    [] OTHER -> sta
    BY <1>1, <1>6 DEF Dispatch
  <2>2. /\ staTask' \in StaTaskRec /\ staTask'.event = h /\ (h.kind = "up" => staTask'.pc = "channel")
        /\ (h.kind # "up" => staTask'.pc = "tell")
    <3>1. PICK pc \in {"pop", "channel", "tell"} : pc = IF h.kind = "up" THEN "channel" ELSE "tell"
      OBVIOUS
    <3>2. staTask' = [staTask EXCEPT !.event = h, !.pc = pc]
      BY <2>1, <3>1
    <3>3. staTask' \in StaTaskRec /\ staTask'.event = h /\ staTask'.pc = pc
      BY <1>2, <3>2 DEF StaTaskRec
    <3> QED
      BY <3>1, <3>3
  <2>3. /\ sta' \in StaRec /\ sta'.bridge = sta.bridge /\ sta'.channel = sta.channel
        /\ (h.kind = "up" => sta'.state = "connected") /\ (h.kind = "down" => sta'.state = "disconnected")
        /\ (h.kind = "scan" => sta'.state = sta.state)
    <3>1. CASE h.kind = "up"
      <4>1. sta' = [sta EXCEPT !.state = "connected"]
        BY <2>1, <3>1
      <4> QED
        BY <3>1, <4>1 DEF StaRec, StaStates
    <3>2. CASE h.kind = "down"
      <4>1. sta' = [sta EXCEPT !.state = "disconnected"]
        BY <2>1, <3>2
      <4> QED
        BY <3>2, <4>1 DEF StaRec, StaStates
    <3>3. CASE h.kind = "scan"
      <4>1. sta' = sta
        BY <2>1, <3>3
      <4> QED
        BY <3>3, <4>1
    <3> QED
      BY <1>2, <3>1, <3>2, <3>3
  <2>4. StaTyped'
    BY <1>2, <1>3, <1>4, <2>2, <2>3 DEF StaInv, StaTyped
  <2>5. StaUp'
    <3>1. staApp.pc \in {"off", "up"} => h.kind = "scan" /\ Silent(w)
      BY <1>1, Popped DEF StaInv, StaUp
    <3> QED
      BY <1>3, <1>4, <2>2, <2>3, <3>1 DEF StaInv, StaUp
  <2>6. StaFits'
    <3> SUFFICES ASSUME staRing.dropped = 0 PROVE StaFits'
      BY <1>4 DEF StaFits
    <3>1. staTask'.pc = "channel" => sta'.state = "connected"
      BY <2>2, <2>3
    <3>2. CASE staApp.pc \in {"connect", "refused"}
      <4>1. lib.link = "down" /\ Silent(ev) /\ sta.state = "connecting"
        BY <1>1, <3>2 DEF StaInv, StaFits
      <4>2. h.kind = "scan" /\ Silent(w)
        BY <1>1, <4>1, Popped
      <4> QED
        BY <1>3, <1>4, <2>3, <3>1, <3>2, <4>1, <4>2 DEF StaFits
    <3>3. CASE staApp.pc \notin {"connect", "refused"}
      <4>1. PICK l, ch, st, s : l = lib.link /\ ch = lib.channel /\ st = sta.state /\ s = Shown
        OBVIOUS
      <4>2. LinkFits(l, ch, st, ev, s) /\ s = sta.channel
        BY <1>1, <1>3, <3>3, <4>1 DEF StaInv, StaFits, Shown
      <4>3. LinkFits(l, ch, sta'.state, w, Shown')
        <5>1. CASE h.kind = "scan"
          <6>1. Shown' = s /\ sta'.state = st
            BY <2>2, <2>3, <4>1, <4>2, <5>1 DEF Shown
          <6>2. LinkFits(l, ch, st, w, s)
            BY <1>1, <4>2, <5>1, FitPopped
          <6> QED
            BY <6>1, <6>2
        <5>2. CASE h.kind = "up"
          <6>1. Shown' = h.channel /\ sta'.state = "connected"
            BY <2>2, <2>3, <5>2 DEF Shown
          <6>2. LinkFits(l, ch, "connected", w, h.channel)
            BY <1>1, <4>2, <5>2, FitPopped
          <6> QED
            BY <6>1, <6>2
        <5>3. CASE h.kind = "down"
          <6>1. Shown' = s /\ sta'.state = "disconnected"
            BY <2>2, <2>3, <4>2, <5>3 DEF Shown
          <6>2. LinkFits(l, ch, "disconnected", w, s)
            BY <1>1, <4>2, <5>3, FitPopped
          <6> QED
            BY <6>1, <6>2
        <5> QED
          BY <1>2, <5>1, <5>2, <5>3
      <4> QED
        BY <1>3, <1>4, <3>1, <3>3, <4>1, <4>3 DEF StaFits
    <3> QED
      BY <3>2, <3>3
  <2> QED
    BY <2>4, <2>5, <2>6 DEF StaInv
<1> QED
  BY <1>5, <1>6

(* What no report depends on: the channel, the handler, what is told.      *)
LEMMA QuietSta ==
  ASSUME StaInv, sta' \in StaRec, sta'.state = sta.state, sta.bridge => sta'.bridge,
         staApp' \in StaAppRec, staApp'.pc = staApp.pc, staApp'.steps = staApp.steps,
         UNCHANGED <<lib, staRing>>, staTask' \in StaTaskRec, staTask'.pc # "channel" \/ staTask' = staTask,
         Shown' = Shown
  PROVE  StaInv'
<1>1. StaTyped'
  BY DEF StaInv, StaTyped
<1>2. StaUp'
  BY DEF StaInv, StaUp
<1>3. StaFits'
  BY DEF StaInv, StaFits
<1> QED
  BY <1>1, <1>2, <1>3 DEF StaInv

LEMMA BridgeKeeps == ASSUME StaInv, BridgeChannel \/ BridgeTell PROVE StaInv'
<1> USE StaFacts
<1>1. CASE BridgeChannel
  <2>1. /\ staTask.pc = "channel" /\ sta' = [sta EXCEPT !.channel = staTask.event.channel]
        /\ staTask' = [staTask EXCEPT !.pc = "tell"] /\ UNCHANGED <<staApp, lib, staRing>>
    BY <1>1 DEF BridgeChannel
  <2>2. staTask.event.channel \in StaChannels \cup {0}
    BY <2>1 DEF StaInv, StaTyped, Reports
  <2>3. /\ sta' \in StaRec /\ sta'.state = sta.state /\ sta'.bridge = sta.bridge
        /\ sta'.channel = staTask.event.channel
    BY <2>1, <2>2 DEF StaRec
  <2>4. staTask' \in StaTaskRec /\ staTask'.pc = "tell"
    BY <2>1 DEF StaTaskRec
  <2>5. Shown' = Shown
    BY <2>1, <2>3, <2>4 DEF Shown
  <2> QED
    BY <2>1, <2>3, <2>4, <2>5, QuietSta
<1>2. CASE BridgeTell
  <2>1. /\ staTask.pc = "tell" /\ staTask' = [staTask EXCEPT !.pc = "pop", !.event = NoEvent]
        /\ UNCHANGED <<sta, lib, staRing>>
    BY <1>2 DEF BridgeTell
  <2>2. staTask' \in StaTaskRec /\ staTask'.pc = "pop"
    BY <2>1 DEF StaTaskRec
  <2>3. staApp' \in StaAppRec /\ staApp'.pc = staApp.pc /\ staApp'.steps = staApp.steps
    <3>1. \/ staApp' = staApp \/ staApp' = [staApp EXCEPT !.told = "connected"]
          \/ staApp' = [staApp EXCEPT !.told = "disconnected"]
      <4>1. CASE staTask.event.kind = "up"
        BY <1>2, <4>1 DEF BridgeTell
      <4>2. CASE staTask.event.kind = "down"
        BY <1>2, <4>2 DEF BridgeTell
      <4>3. CASE staTask.event.kind \notin {"up", "down"}
        BY <1>2, <4>3 DEF BridgeTell
      <4> QED
        BY <4>1, <4>2, <4>3
    <3> QED
      BY <3>1 DEF StaAppRec, StaStates
  <2>4. Shown' = Shown
    BY <2>1, <2>2 DEF Shown
  <2> QED
    BY <2>1, <2>2, <2>3, <2>4, QuietSta
<1> QED
  BY <1>1, <1>2

LEMMA AppKeeps ==
  ASSUME StaInv, \/ StatusState \/ StatusChannel \/ ScanStart \/ ScanResults \/ \E on \in BOOLEAN : SetHandler(on)
  PROVE  StaInv'
<1> USE StaFacts
<1>1. CASE StatusState
  <2>1. "status" \in AppPcs
    BY DEF AppPcs
  <2>2. staApp' = [staApp EXCEPT !.pc = "status"] /\ staApp.pc = "idle" /\ UNCHANGED <<sta, lib, staRing, staTask>>
    BY <1>1 DEF StatusState, AppAt
  <2>3. staApp' \in StaAppRec /\ staApp'.pc = "status"
    BY <2>1, <2>2 DEF StaAppRec
  <2> QED
    BY <2>2, <2>3, AppMoves
<1>2. CASE StatusChannel
  <2>1. "idle" \in AppPcs
    BY DEF AppPcs
  <2>2. PICK rd \in {"none", "no channel", "channel"} :
          /\ staApp' = [staApp EXCEPT !.pc = "idle", !.read = rd] /\ staApp.pc = "status"
          /\ UNCHANGED <<sta, lib, staRing, staTask>>
    BY <1>2 DEF StatusChannel, AppAt
  <2>3. staApp' \in StaAppRec /\ staApp'.pc = "idle"
    BY <2>1, <2>2 DEF StaAppRec
  <2> QED
    BY <2>2, <2>3, AppMoves
<1>3. CASE ScanStart \/ ScanResults
  <2>1. /\ UNCHANGED <<sta, staApp, staRing, staTask>>
        /\ lib' = lib \/ lib' = [lib EXCEPT !.scanning = TRUE] \/ lib' = [lib EXCEPT !.found = 0]
    BY <1>3 DEF ScanStart, ScanResults
  <2>2. lib' \in StaLibRec /\ lib'.up = lib.up /\ lib'.link = lib.link /\ lib'.channel = lib.channel
    <3>1. CASE lib' = lib
      BY <3>1
    <3>2. CASE lib' = [lib EXCEPT !.scanning = TRUE]
      BY <3>2 DEF StaLibRec
    <3>3. CASE lib' = [lib EXCEPT !.found = 0]
      BY <3>3 DEF StaLibRec
    <3> QED
      BY <2>1, <3>1, <3>2, <3>3
  <2> QED
    BY <2>1, <2>2, LibMoves
<1>4. ASSUME NEW on \in BOOLEAN, SetHandler(on) PROVE StaInv'
  <2>1. sta' = [sta EXCEPT !.handler = on, !.bridge = TRUE] /\ UNCHANGED <<staApp, lib, staRing, staTask>>
    BY <1>4 DEF SetHandler
  <2>2. sta' \in StaRec /\ sta'.state = sta.state /\ sta'.bridge /\ sta'.channel = sta.channel
    BY <2>1 DEF StaRec
  <2>3. Shown' = Shown
    BY <2>1, <2>2 DEF Shown
  <2> QED
    BY <2>1, <2>2, <2>3, QuietSta
<1> QED
  BY <1>1, <1>2, <1>3, <1>4

(* For an application that connects only when status says Disconnected:
   whatever overtook what, once everything on its way has arrived and
   nothing was dropped, status says what the link is, with its channel
   (station.rs, connect, status and bridge), for any channels, ring and
   calls. *)
THEOREM StatusIsLink ==
  ASSUME STA_POLITE
  PROVE  StaSpec => []StatusAgrees
<1>1. StaInit => StaInv
  BY StaBegins
<1>2. StaInv /\ [StaNext]_staVars => StaInv'
  <2> SUFFICES ASSUME StaInv, [StaNext]_staVars PROVE StaInv'
    OBVIOUS
  <2>1. CASE UNCHANGED staVars
    <3>1. UNCHANGED <<sta, staApp, lib, staRing, staTask>> /\ Shown' = Shown
      BY <2>1 DEF staVars, Shown
    <3> QED
      BY <3>1, StaFacts, QuietSta
  <2>2. CASE StaNext
    BY <2>2, BringUpKeeps, BringUpStepKeeps, ConnectKeeps, ConnectCallKeeps, ConnectReturnsKeeps, DisconnectKeeps,
       AppKeeps, LibReportsKeeps, DispatchKeeps, BridgeKeeps DEF StaNext
  <2> QED
    BY <2>1, <2>2
<1>3. StaInv => StatusAgrees
  <2> SUFFICES ASSUME StaInv, staApp.pc = "idle", staRing = [events |-> <<>>, dropped |-> 0], staTask.pc = "pop"
               PROVE  sta.state = LinkState /\ (lib.link = "up" => sta.channel = lib.channel)
    BY DEF StatusAgrees, AppAt
  <2>1. staRing.events = <<>> /\ staRing.dropped = 0
    OBVIOUS
  <2>2. LinkFits(lib.link, lib.channel, sta.state, <<>>, sta.channel)
    BY <2>1 DEF StaInv, StaFits, Shown
  <2>3. \A k, c : ~OneReport(<<>>, k, c)
    BY DEF OneReport
  <2>4. ~UpThenDown(<<>>)
    BY DEF UpThenDown
  <2> QED
    BY <2>2, <2>3, <2>4 DEF LinkFits, LinkState
<1> QED
  BY <1>1, <1>2, <1>3, PTL DEF StaSpec

(***************************************************************************)
(* The radio as a whole.                                                   *)
(***************************************************************************)

(* The three parts of the radio, when the physical layer has one caller at *)
(* a time and the application waits to be told before it connects again:   *)
(* the operating-system table, the physical layer and the station are each *)
(* right, in every state.                                                  *)
THEOREM RadioIsRight ==
  ASSUME PHY_CONCURRENT = FALSE, PHY_RACE = FALSE, STA_POLITE
  PROVE  RadioSpec => []RadioRight
<1>1. ObjectsSpec => []RadioObjectsRight
  BY RadioObjectsAreRight
<1>2. PhySpec => []PhyRight
  BY PhyIsRight
<1>3. StaSpec => []StatusAgrees
  BY StatusIsLink
<1>4. RadioRight <=> RadioObjectsRight /\ PhyRight /\ StatusAgrees
  BY DEF RadioRight
<1> QED
  BY <1>1, <1>2, <1>3, <1>4, PTL DEF RadioSpec
=============================================================================
