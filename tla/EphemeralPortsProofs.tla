------------------------- MODULE EphemeralPortsProofs -------------------------
(***************************************************************************)
(* Invariants of allocate_ephemeral_port, proved for every width of the     *)
(* port counter, every start of the ephemeral range and any number of       *)
(* calling threads.                                                         *)
(***************************************************************************)
EXTENDS EphemeralPorts, TLAPS

\* A thread that holds a candidate of the loop has a try left to count.
TryLeft == \A t \in Thread : pc[t] \in {"reset", "probe"} => i[t] < Tries

TypeInv == TypeOK /\ TryLeft

\* The atomic counter wraps within its width.
LEMMA FetchAddType == TypeOK /\ fetch_add => next_port' \in Port
  BY RangeAssumption DEF TypeOK, fetch_add, Port

\* Every step of allocate_ephemeral_port keeps the types and counts at most
\* Tries candidates.
LEMMA AllocateType ==
  ASSUME TypeInv, NEW t \in Thread, allocate_ephemeral_port(t), UNCHANGED callers
  PROVE  TypeInv'
<1> USE DEF TypeInv, TypeOK, TryLeft, Goto
<1>0. Tries \in Nat /\ First \in Port /\ 0 \in Port
  BY RangeAssumption DEF Port
<1>1. CASE Call(t)
  BY <1>0, <1>1 DEF Call
<1>2. CASE Fetch(t)
  BY <1>0, <1>2, FetchAddType DEF Fetch
<1>3. CASE Reset(t)
  BY <1>0, <1>3 DEF Reset
<1>4. CASE Probe(t)
  BY <1>0, <1>4 DEF Probe
<1>5. CASE Fallback(t)
  BY <1>0, <1>5, FetchAddType DEF Fallback
<1>6. CASE Use(t)
  BY <1>0, <1>6 DEF Use
<1> QED
  BY <1>1, <1>2, <1>3, <1>4, <1>5, <1>6 DEF allocate_ephemeral_port

\* No step of the allocator or of a bind takes the state out of its type.
LEMMA NextType == TypeInv /\ [Next]_vars => TypeInv'
<1> SUFFICES ASSUME TypeInv, [Next]_vars PROVE TypeInv'
  OBVIOUS
<1>1. CASE BindChosen /\ UNCHANGED callers
  BY <1>1, ChosenAssumption DEF BindChosen, TypeInv, TypeOK, TryLeft, Port
<1>2. CASE Destroy /\ UNCHANGED callers
  BY <1>2 DEF Destroy, TypeInv, TypeOK, TryLeft
<1>3. CASE UNCHANGED vars
  BY <1>3 DEF vars, TypeInv, TypeOK, TryLeft
<1> QED
  BY <1>1, <1>2, <1>3, AllocateType DEF Next

\* Threads that race for the static counter of allocate_ephemeral_port never
\* take it, a candidate or a loop counter out of its type, whatever the width.
THEOREM PortsTyped == Spec => []TypeOK
<1>1. Init => TypeInv
  BY RangeAssumption DEF Init, TypeInv, TypeOK, TryLeft, Port
<1> QED
  BY <1>1, NextType, PTL DEF Spec, TypeInv

-----------------------------------------------------------------------------

\* A port that allocate_ephemeral_port returns from its loop lies in the
\* ephemeral range, however many threads move the counter meanwhile: each
\* checks the value it fetched, never the counter itself.
THEOREM InRange == Spec => []AllocatedInRange
<1>1. Init => AllocatedInRange
  BY DEF Init, AllocatedInRange
<1>2. TypeInv /\ AllocatedInRange /\ [Next]_vars => AllocatedInRange'
  <2> SUFFICES ASSUME TypeInv, AllocatedInRange, [Next]_vars PROVE AllocatedInRange'
    OBVIOUS
  <2> USE DEF TypeInv, TypeOK, AllocatedInRange, Goto
  <2>1. ASSUME NEW t \in Thread, Call(t) \/ Probe(t) \/ Fallback(t) \/ Use(t)
        PROVE  AllocatedInRange'
    BY <2>1 DEF Call, Probe, Fallback, Use
  <2>2. ASSUME NEW t \in Thread, Fetch(t) PROVE AllocatedInRange'
    BY <2>2, RangeAssumption DEF Fetch, Ephemeral, Port
  <2>3. ASSUME NEW t \in Thread, Reset(t) PROVE AllocatedInRange'
    BY <2>3, RangeAssumption DEF Reset, Ephemeral
  <2>4. CASE BindChosen \/ Destroy \/ UNCHANGED vars
    BY <2>4 DEF BindChosen, Destroy, vars
  <2> QED
    BY <2>1, <2>2, <2>3, <2>4 DEF Next, allocate_ephemeral_port
<1>3. Init => TypeInv
  BY RangeAssumption DEF Init, TypeInv, TypeOK, TryLeft, Port
<1> QED
  BY <1>1, <1>2, <1>3, NextType, PTL DEF Spec

-----------------------------------------------------------------------------
(* A caller alone: which ports its loop has seen.                           *)

\* Only callers are inside allocate_ephemeral_port, and a call starts counting
\* at zero.
OnlyCallers == \A t \in Thread : /\ t \notin callers => pc[t] = "idle"
                                 /\ pc[t] = "idle" => i[t] = 0

\* Ports the caller may pass over: they have a listener, or had one.
Full == listeners_ \cup Mortal

\* The counter stands at n after k tries from port s on, without a wrap and
\* with one.  The try that wraps looks at First and leaves the counter there,
\* so First is seen twice.
Straight(n, s, k, seen) == n = s + k /\ s .. n - 1 \subseteq seen
Wrapped(n, s, k, seen) ==
    /\ n >= First /\ k = (PortMod - 1 - s) + (n - First) + 1
    /\ s .. PortMod - 2 \subseteq seen /\ First .. n - 1 \subseteq seen
Swept(n, k, seen) ==
    \/ k = 0
    \/ \E s \in First .. PortMod - 1 : Straight(n, s, k, seen) \/ Wrapped(n, s, k, seen)

\* About to wrap after k tries.
AtEnd(k, seen) ==
    \E s \in First .. PortMod - 1 : k = PortMod - 1 - s /\ s .. PortMod - 2 \subseteq seen

\* What the lone caller has seen at each place of the loop.
SweepOf(t) ==
    /\ pc[t] = "fetch" => Swept(next_port, i[t], Full)
    /\ pc[t] = "reset" => AtEnd(i[t], Full)
    /\ pc[t] = "probe" => Swept(next_port, i[t] + 1, Full \cup {candidate[t]})
    /\ pc[t] = "last" => Ephemeral \subseteq Full
SweepInv == \A t \in Thread : callers = {t} => SweepOf(t)

\* A port fetched within the range adds itself to what has been seen.
LEMMA SweptOn ==
  ASSUME NEW n \in First .. PortMod - 2, NEW k \in Nat, k < Tries, NEW seen, Swept(n, k, seen)
  PROVE  Swept(n + 1, k + 1, seen \cup {n})
<1>0. PortMod \in Nat /\ First \in Nat
  BY RangeAssumption
<1>1. CASE k = 0
  <2>1. Straight(n + 1, n, k + 1, seen \cup {n})
    BY <1>0, <1>1 DEF Straight
  <2> QED
    BY <1>0, <2>1 DEF Swept
<1>2. ASSUME NEW s \in First .. PortMod - 1, Straight(n, s, k, seen)
      PROVE  Straight(n + 1, s, k + 1, seen \cup {n})
  BY <1>0, <1>2 DEF Straight
<1>3. ASSUME NEW s \in First .. PortMod - 1, Wrapped(n, s, k, seen)
      PROVE  Wrapped(n + 1, s, k + 1, seen \cup {n})
  BY <1>0, <1>3 DEF Wrapped
<1> QED
  BY <1>1, <1>2, <1>3 DEF Swept

\* The counter leaves the range only after a sweep to its end.
LEMMA SweptToEnd ==
  ASSUME NEW n \in Port, n >= PortMod - 1 \/ n < First, NEW k \in Nat, k < Tries,
         NEW seen, Swept(n, k, seen)
  PROVE  AtEnd(k, seen)
<1>0. PortMod \in Nat /\ First \in Nat /\ First <= PortMod - 1 /\ n \in Nat /\ n < PortMod
      /\ Tries = PortMod - First
  BY RangeAssumption DEF Port
<1>1. CASE k = 0
  BY <1>0, <1>1 DEF AtEnd
<1>2. ASSUME NEW s \in First .. PortMod - 1, Straight(n, s, k, seen)
      PROVE  AtEnd(k, seen)
  BY <1>0, <1>2 DEF Straight, AtEnd
<1>3. ASSUME NEW s \in First .. PortMod - 1, Wrapped(n, s, k, seen)
      PROVE  FALSE
  BY <1>0, <1>3 DEF Wrapped
<1> QED
  BY <1>1, <1>2, <1>3 DEF Swept

\* The store that wraps the counter starts over at First.
LEMMA SweptAround ==
  ASSUME NEW k \in Nat, NEW seen, AtEnd(k, seen)
  PROVE  Swept(First, k + 1, seen \cup {First})
<1>0. PortMod \in Nat /\ First \in Nat
  BY RangeAssumption
<1>1. PICK s \in First .. PortMod - 1 : k = PortMod - 1 - s /\ s .. PortMod - 2 \subseteq seen
  BY DEF AtEnd
<1>2. Wrapped(First, s, k + 1, seen \cup {First})
  BY <1>0, <1>1 DEF Wrapped
<1> QED
  BY <1>2 DEF Swept

\* Tries candidates are the whole range.
LEMMA SweptAll ==
  ASSUME NEW n \in Port, NEW seen, Swept(n, Tries, seen)
  PROVE  Ephemeral \subseteq seen
<1>0. PortMod \in Nat /\ First \in Nat /\ First <= PortMod - 2 /\ n \in Nat /\ n < PortMod
      /\ Tries = PortMod - First
  BY RangeAssumption DEF Port
<1>1. PICK s \in First .. PortMod - 1 : Straight(n, s, Tries, seen) \/ Wrapped(n, s, Tries, seen)
  BY <1>0 DEF Swept
<1>2. Wrapped(n, s, Tries, seen) /\ n = s
  BY <1>0, <1>1 DEF Straight, Wrapped
<1> QED
  BY <1>0, <1>2 DEF Wrapped, Ephemeral

\* More ports with a listener change nothing about the ones seen.
LEMMA SweptMore ==
  ASSUME NEW A, NEW B, A \subseteq B
  PROVE  /\ \A n, k : Swept(n, k, A) => Swept(n, k, B)
         /\ \A k : AtEnd(k, A) => AtEnd(k, B)
  BY DEF Swept, Straight, Wrapped, AtEnd

-----------------------------------------------------------------------------

\* A step keeps the searches with the threads that are in the call.
LEMMA NextOnlyCallers == TypeInv /\ OnlyCallers /\ [Next]_vars => OnlyCallers'
<1> SUFFICES ASSUME TypeInv, OnlyCallers, [Next]_vars PROVE OnlyCallers'
  OBVIOUS
<1> USE DEF TypeInv, TypeOK, OnlyCallers, Goto
<1>1. ASSUME NEW t \in Thread, allocate_ephemeral_port(t), UNCHANGED callers
      PROVE  OnlyCallers'
  BY <1>1 DEF allocate_ephemeral_port, Call, Fetch, Reset, Probe, Fallback, Use
<1>2. CASE (BindChosen \/ Destroy) /\ UNCHANGED callers
  BY <1>2 DEF BindChosen, Destroy
<1>3. CASE UNCHANGED vars
  BY <1>3 DEF vars
<1> QED
  BY <1>1, <1>2, <1>3 DEF Next

\* A step of the lone caller takes the sweep on by one port.
LEMMA StepSweeps ==
  ASSUME TypeInv, OnlyCallers, NEW t \in Thread, SweepOf(t), allocate_ephemeral_port(t)
  PROVE  SweepOf(t)'
<1> USE DEF Goto
<1>0. /\ PortMod \in Nat /\ First \in Nat /\ Tries \in Nat
      /\ next_port \in Port /\ i[t] \in Nat /\ candidate \in [Thread -> Port]
      /\ pc \in [Thread -> {"idle", "fetch", "reset", "probe", "use", "last"}]
      /\ i \in [Thread -> 0..Tries]
  BY RangeAssumption DEF TypeInv, TypeOK
<1>1. CASE Call(t)
  BY <1>0, <1>1 DEF Call, SweepOf, Swept, OnlyCallers
<1>2. CASE Fetch(t)
  <2>1. /\ Swept(next_port, i[t], Full) /\ i[t] < Tries /\ i' = i /\ Full' = Full
    BY <1>2 DEF Fetch, SweepOf, Full
  <2>2. CASE next_port >= PortMod - 1 \/ next_port < First
    <3>1. pc'[t] = "reset"
      BY <1>0, <1>2, <2>2 DEF Fetch
    <3>2. AtEnd(i[t], Full)
      BY <1>0, <2>1, <2>2, SweptToEnd
    <3> QED
      BY <3>1, <3>2, <2>1 DEF SweepOf
  <2>3. CASE next_port \in First .. PortMod - 2
    <3>1. pc'[t] = "probe" /\ candidate'[t] = next_port /\ next_port' = next_port + 1
      BY <1>0, <1>2, <2>3 DEF Fetch, fetch_add
    <3>2. Swept(next_port + 1, i[t] + 1, Full \cup {next_port})
      BY <1>0, <2>1, <2>3, SweptOn
    <3> QED
      BY <3>1, <3>2, <2>1 DEF SweepOf
  <2> QED
    BY <2>2, <2>3, <1>0 DEF Port
<1>3. CASE Reset(t)
  <2>1. AtEnd(i[t], Full) /\ i' = i /\ Full' = Full
    BY <1>3 DEF Reset, SweepOf, Full
  <2>2. pc'[t] = "probe" /\ candidate'[t] = First /\ next_port' = First
    BY <1>0, <1>3 DEF Reset
  <2>3. Swept(First, i[t] + 1, Full \cup {First})
    BY <1>0, <2>1, SweptAround
  <2> QED
    BY <2>1, <2>2, <2>3 DEF SweepOf
<1>4. CASE Probe(t)
  <2>1. CASE candidate[t] \notin listeners_ /\ pc'[t] = "use"
    BY <2>1 DEF SweepOf
  <2>2. CASE candidate[t] \in listeners_ /\ i' = [i EXCEPT ![t] = @ + 1] /\ pc'[t] = "fetch"
    <3>1. Swept(next_port, i[t] + 1, Full \cup {candidate[t]})
      BY <1>4 DEF Probe, SweepOf
    <3>2. Full \cup {candidate[t]} = Full /\ Full' = Full /\ next_port' = next_port
      BY <1>4, <2>2 DEF Probe, Full
    <3>3. i'[t] = i[t] + 1
      BY <1>0, <2>2
    <3> QED
      BY <2>2, <3>1, <3>2, <3>3 DEF SweepOf
  <2> QED
    BY <1>0, <1>4, <2>1, <2>2 DEF Probe
<1>5. CASE Fallback(t)
  <2>1. pc'[t] = "last" /\ Full' = Full /\ Swept(next_port, Tries, Full)
    BY <1>0, <1>5 DEF Fallback, Full, SweepOf
  <2>2. Ephemeral \subseteq Full
    BY <1>0, <2>1, SweptAll
  <2> QED
    BY <2>1, <2>2 DEF SweepOf
<1>6. CASE Use(t)
  BY <1>0, <1>6 DEF Use, SweepOf
<1> QED
  BY <1>1, <1>2, <1>3, <1>4, <1>5, <1>6 DEF allocate_ephemeral_port

\* A step of a search, or of any other thread, keeps what a search has seen.
LEMMA NextSweeps == TypeInv /\ OnlyCallers /\ SweepInv /\ [Next]_vars => SweepInv'
<1> SUFFICES ASSUME TypeInv, OnlyCallers, SweepInv, [Next]_vars,
                    NEW t \in Thread, callers' = {t}
             PROVE  SweepOf(t)'
  BY DEF SweepInv
<1>0. callers = {t} /\ SweepOf(t)
  BY DEF SweepInv, Next, vars
<1>1. ASSUME NEW u \in Thread, allocate_ephemeral_port(u) PROVE SweepOf(t)'
  <2>1. u = t
    BY <1>0, <1>1 DEF OnlyCallers, allocate_ephemeral_port, Call, Fetch, Reset, Probe,
                      Fallback, Use
  <2> QED
    BY <1>0, <1>1, <2>1, StepSweeps
<1>2. CASE BindChosen \/ Destroy
  <2>1. /\ Full \subseteq Full' /\ next_port' = next_port /\ pc' = pc /\ i' = i
        /\ candidate' = candidate
    BY <1>2 DEF BindChosen, Destroy, Full
  <2>2. Full \cup {candidate[t]} \subseteq Full' \cup {candidate[t]}
    BY <2>1
  <2> QED
    BY <1>0, <2>1, <2>2, SweptMore DEF SweepOf
<1>3. CASE UNCHANGED vars
  BY <1>0, <1>3 DEF vars, SweepOf, Full
<1> QED
  BY <1>1, <1>2, <1>3 DEF Next

\* A caller that has the counter to itself takes the fallback of
\* allocate_ephemeral_port only when every port of the range has a listener (or
\* one that was destroyed meanwhile), wherever the counter stood: Tries
\* candidates, one of them spent on the wrap, sweep the whole range.
THEOREM SearchIsComplete == Spec => []GivesUpOnlyWhenFull
<1>1. Init => TypeInv /\ OnlyCallers /\ SweepInv
  BY RangeAssumption
     DEF Init, TypeInv, TypeOK, TryLeft, Port, OnlyCallers, SweepInv, SweepOf
<1>2. SweepInv => GivesUpOnlyWhenFull
  BY DEF SweepInv, SweepOf, GivesUpOnlyWhenFull, Full
<1> QED
  BY <1>1, <1>2, NextType, NextOnlyCallers, NextSweeps, PTL DEF Spec
=============================================================================
