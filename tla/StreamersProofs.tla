--------------------------- MODULE StreamersProofs ---------------------------
(***************************************************************************)
(* At most one streamer instance speaks, for both kinds of streamer, any   *)
(* number of windows and any finite number of instances.                   *)
(***************************************************************************)
EXTENDS Streamers, FiniteSetTheorems, TLAPS

\* Two speakers are one and the same.
Unique == \A i, j \in Speakers : i = j

\* The inductive invariant: the counter is needed for who relays, and that HALT
\* is true for who may speak after it.
IInv == TypeOK /\ CountsInstances /\ Unique /\ HaltIsTrue

\* The living instances can be counted.
LEMMA LiveFinite == IsFiniteSet(Live)
  BY InstancesAssumption, FS_Subset DEF Live

\* A living instance makes the counter positive.
LEMMA SpeakerCounts ==
    ASSUME CountsInstances, Speakers # {}
    PROVE  nof > 0
  <1>1. Live # {}
    BY DEF Speakers
  <1>2. Cardinality(Live) \in Nat /\ Cardinality(Live) # 0
    BY <1>1, LiveFinite, FS_CardinalityType, FS_EmptySet
  <1>3. QED
    BY <1>2 DEF CountsInstances

\* Before the first window there is nothing to count.
LEMMA InitIInv == ASSUME Init PROVE IInv
  <1>1. Live = {} /\ Speakers = {}
    BY DEF Init, Live, Speakers
  <1>2. TypeOK
    BY <1>1 DEF Init, TypeOK, Roles
  <1>3. CountsInstances
    BY <1>1, FS_EmptySet DEF Init, CountsInstances
  <1>4. QED
    BY <1>1, <1>2, <1>3 DEF IInv, Unique, HaltIsTrue

\* A constructor that does not relay found nobody speaking.
LEMMA ConstructIInv ==
    ASSUME IInv, NEW i \in Instances, Construct(i)
    PROVE  IInv'
  <1> USE DEF IInv, TypeOK
  <1>1. PICK r \in Roles :
          /\ role' = [role EXCEPT ![i] = r]
          /\ IF IsRelay(nof + 1)
             THEN r = "relay" /\ UNCHANGED echo
             ELSE r \in LoadConfig(nof + 1) /\ echo' = "text"
    BY DEF Construct
  <1>2. i \notin Live /\ Live' = Live \cup {i}
    BY <1>1 DEF Construct, Live, Roles
  <1>3. TypeOK'
    BY <1>1, <1>2 DEF Construct
  <1>4. CountsInstances'
    <2>1. Cardinality(Live') = Cardinality(Live) + 1
      BY <1>2, LiveFinite, FS_AddElement
    <2>2. QED
      BY <2>1 DEF Construct, CountsInstances
  <1>5. CASE r = "relay"
    <2>1. Speakers' = Speakers
      BY <1>1, <1>2, <1>5 DEF Speakers, Live, Roles
    <2>2. echo' # "HALT" \/ echo' = echo
      BY <1>1
    <2>3. QED
      BY <1>3, <1>4, <2>1, <2>2 DEF Unique, HaltIsTrue
  <1>6. CASE r # "relay"
    <2>1. ~IsRelay(nof + 1) /\ echo' = "text"
      BY <1>1, <1>6
    <2>2. Speakers = {}
      BY <2>1, SpeakerCounts DEF IsRelay, HaltIsTrue
    <2>3. Speakers' = {i}
      BY <1>1, <1>2, <1>6, <2>2 DEF Speakers, Live, Roles
    <2>4. QED
      BY <1>3, <1>4, <2>1, <2>3 DEF Unique, HaltIsTrue
  <1>7. QED
    BY <1>5, <1>6

\* A destructor takes away one instance, and a speaker only with its thread.
LEMMA CloseIInv ==
    ASSUME IInv, NEW i \in Instances, CloseInstrument(i)
    PROVE  IInv'
  <1> USE DEF IInv, TypeOK
  <1>1. i \in Live /\ i \notin fresh /\ Live' = Live \ {i}
    BY DEF CloseInstrument, Old, Live, Roles
  <1>2. TypeOK'
    BY <1>1 DEF CloseInstrument
  <1>3. CountsInstances'
    <2>1. Cardinality(Live') = Cardinality(Live) - 1
      BY <1>1, LiveFinite, FS_RemoveElement
    <2>2. QED
      BY <2>1 DEF CloseInstrument, CountsInstances
  <1>4. Speakers' = Speakers \ {i}
    BY <1>1 DEF CloseInstrument, Speakers, Live
  <1>5. Unique'
    BY <1>4 DEF Unique
  <1>6. HaltIsTrue'
    <2>1. CASE role[i] = "relay"
      BY <2>1, <1>4 DEF CloseInstrument, HaltIsTrue
    <2>2. CASE role[i] # "relay"
      <3>1. i \in Speakers
        BY <2>2, <1>1 DEF Speakers
      <3>2. Speakers' = {}
        BY <3>1, <1>4 DEF Unique
      <3>3. QED
        BY <3>2 DEF HaltIsTrue
    <2>3. QED
      BY <2>1, <2>2
  <1>7. QED
    BY <1>2, <1>3, <1>5, <1>6

\* The other steps leave the instances as they are.
LEMMA OtherIInv ==
    ASSUME IInv,
           \/ \E w \in Windows : StartWindow(w)
           \/ BuildDone \/ CloseDone \/ EchoWritten \/ UNCHANGED vars
    PROVE  IInv'
  <1> USE DEF IInv, TypeOK
  <1>1. role' = role /\ nof' = nof
    BY DEF StartWindow, BuildDone, CloseDone, EchoWritten, vars
  <1>2. Live' = Live /\ Speakers' = Speakers
    BY <1>1 DEF Live, Speakers
  <1>3. TypeOK'
    BY <1>1, <1>2
    DEF StartWindow, BuildDone, CloseDone, EchoWritten, vars
  <1>4. HaltIsTrue'
    BY <1>2
    DEF StartWindow, BuildDone, CloseDone, EchoWritten, vars, HaltIsTrue
  <1>5. QED
    BY <1>1, <1>2, <1>3, <1>4 DEF CountsInstances, Unique

\* The inductive invariant holds in every reachable state.
THEOREM Invariance == Spec => []IInv
  <1>1. Init => IInv
    BY InitIInv
  <1>2. IInv /\ [Next]_vars => IInv'
    BY ConstructIInv, CloseIInv, OtherIInv DEF Next
  <1>3. QED
    BY <1>1, <1>2, PTL DEF Spec

\* The shared counter is exact through every replacement of a window.
THEOREM CounterExact == Spec => []CountsInstances
  <1>1. IInv => CountsInstances
    BY DEF IInv
  <1>2. QED
    BY <1>1, Invariance, PTL

\* No two instances ever speak, whatever the user does with the windows.
THEOREM SpeaksAlone == Spec => []OneSpeaker
  <1>1. ASSUME IInv PROVE OneSpeaker
    <2>1. CASE Speakers = {}
      BY <2>1, FS_EmptySet DEF OneSpeaker
    <2>2. CASE Speakers # {}
      <3>1. PICK i \in Speakers : TRUE
        BY <2>2
      <3>2. Speakers = {i}
        BY <3>1, <1>1 DEF IInv, Unique
      <3>3. QED
        BY <3>2, FS_Singleton DEF OneSpeaker
    <2>3. QED
      BY <2>1, <2>2
  <1>2. QED
    BY <1>1, Invariance, PTL

\* HALT is shown only while nobody speaks.
THEOREM HaltTold == Spec => []HaltIsTrue
  <1>1. IInv => HaltIsTrue
    BY DEF IInv
  <1>2. QED
    BY <1>1, Invariance, PTL
=============================================================================
