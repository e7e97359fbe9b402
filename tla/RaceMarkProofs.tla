--------------------------- MODULE RaceMarkProofs ---------------------------
(***************************************************************************)
(* Proofs about RaceMark, for all courses: the legs on the display follow  *)
(* each other on the course, a course that is sailed from mark to mark is  *)
(* shown leg by leg, and the page shows what its state asks for.           *)
(***************************************************************************)
EXTENDS RaceMark, WellFoundedInduction, TLAPS

-----------------------------------------------------------------------------
(***************************************************************************)
(* Marks on a course.                                                      *)
(***************************************************************************)

\* Of places on a course one is the first ...
LEMMA FirstOf ==
    ASSUME NEW S \in SUBSET Nat, S # {}
    PROVE  Min(S) \in S /\ \A y \in S : Min(S) <= y
  <1> DEFINE R == OpToRel(<, Nat)
  <1>1. IsWellFoundedOn(R, Nat)
    BY NatLessThanWellFounded
  <1>2. \A a \in Nat, b \in Nat : a < b => <<a, b>> \in R
    BY DEF OpToRel
  <1> HIDE DEF R
  <1>3. PICK Q : /\ IsWellFoundedOn(Q, Nat)
                 /\ \A a \in Nat, b \in Nat : a < b => <<a, b>> \in Q
    BY <1>1, <1>2, Zenon
  <1>4. PICK x \in S : \A y \in S : ~(<<y, x>> \in Q)
    <2>1. IsWellFoundedOn(Q, Nat) /\ S \subseteq Nat
      BY <1>3
    <2> QED BY <2>1, WFMin
  <1>5. ASSUME NEW y \in S PROVE x <= y
    <2>1. x \in Nat /\ y \in Nat
      OBVIOUS
    <2>2. ~(y < x)
      BY <1>3, <1>4, <2>1, Zenon
    <2> QED BY <2>1, <2>2
  <1> QED BY <1>5 DEF Min

\* ... and one the last.
LEMMA LastOf ==
    ASSUME NEW n \in Nat, NEW S \in SUBSET (1..n), S # {}
    PROVE  Max(S) \in S /\ \A y \in S : Max(S) >= y
  <1> DEFINE T == {n - x : x \in S}
  <1>1. \A t \in T : t \in Nat
    OBVIOUS
  <1>6. T # {}
    OBVIOUS
  <1>2. Min(T) \in T /\ \A y \in T : Min(T) <= y
    <2> HIDE DEF T
    <2> QED BY <1>1, <1>6, FirstOf
  <1>3. PICK x \in S : Min(T) = n - x
    BY <1>2
  <1>4. \A y \in S : n - x <= n - y
    BY <1>2, <1>3
  <1>5. \A y \in S : x >= y
    BY <1>4
  <1> QED BY <1>5 DEF Max

\* Mark v comes before mark w on the course r.
Follows(r, v, w) ==
    \E i, j \in DOMAIN Courses[r] :
        i < j /\ Courses[r][i] = v /\ Courses[r][j] = w

\* A course is a sequence of different marks.
LEMMA CourseIs ==
    ASSUME NEW r \in DOMAIN Courses
    PROVE  /\ Len(Courses[r]) \in Nat
           /\ DOMAIN Courses[r] = 1..Len(Courses[r])
           /\ \A i, j \in DOMAIN Courses[r] : Courses[r][i] = Courses[r][j] => i = j
           /\ Range(Courses[r]) = {Courses[r][i] : i \in DOMAIN Courses[r]}
           /\ Range(Courses[r]) \subseteq Marks
           /\ NoMark \notin Range(Courses[r]) /\ r # NoCourse
  <1>1. /\ Courses[r] \in Seq(Range(Courses[r])) /\ IsInjective(Courses[r])
        /\ "" \notin Range(Courses[r]) /\ r # ""
    BY CoursesAssumption
  <1>2. Len(Courses[r]) \in Nat /\ DOMAIN Courses[r] = 1..Len(Courses[r])
    <2>1. PICK c, S : c = Courses[r] /\ c \in Seq(S)
      BY <1>1
    <2>2. Len(c) \in Nat /\ DOMAIN c = 1..Len(c)
      BY <2>1
    <2> QED BY <2>1, <2>2
  <1>3. \A i, j \in DOMAIN Courses[r] : Courses[r][i] = Courses[r][j] => i = j
    BY <1>1 DEF IsInjective
  <1>4. Range(Courses[r]) = {Courses[r][i] : i \in DOMAIN Courses[r]}
    BY DEF Range
  <1>5. Range(Courses[r]) \subseteq Marks
    BY DEF Marks
  <1> QED BY <1>1, <1>2, <1>3, <1>4, <1>5 DEF NoMark, NoCourse

\* What the tables hold.
LEMMA NeighboursAre ==
    ASSUME NEW r \in DOMAIN Courses, NEW w \in Marks \cup {NoMark},
           NEW gone \in Lost
    PROVE  /\ After[r][w][gone] = Successor(r, w, gone)
           /\ Before[r][w][gone] = Predecessor(r, w, gone)
  BY DEF After, Before

\* The neighbours of a mark are on either side of it.
LEMMA AfterFollows ==
    ASSUME NEW r \in DOMAIN Courses, NEW w \in Marks \cup {NoMark},
           NEW gone \in Lost
    PROVE  /\ After[r][w][gone] \in Marks \cup {NoMark}
           /\ After[r][w][gone] # NoMark => Follows(r, w, After[r][w][gone])
  <1> DEFINE c == Courses[r]
             n == {j \in Found(r, gone) :
                     \E i \in Found(r, gone) : i < j /\ Courses[r][i] = w}
  <1>1. After[r][w][gone] = IF n = {} THEN NoMark ELSE c[Min(n)]
    BY NeighboursAre DEF Successor
  <1>2. CASE n # {}
    <2>1. \A j \in n : j \in Nat
      BY CourseIs DEF Found
    <2>2. Min(n) \in n
      <3> HIDE DEF n
      <3> QED BY <1>2, <2>1, FirstOf
    <2>3. PICK i \in DOMAIN c : i < Min(n) /\ c[i] = w
      BY <2>2 DEF Found
    <2>4. Min(n) \in DOMAIN c
      BY <2>2 DEF Found
    <2>5. c[Min(n)] \in Marks
      BY <2>4, CourseIs
    <2> HIDE DEF n
    <2> QED BY <1>1, <1>2, <2>3, <2>4, <2>5 DEF Follows
  <1> HIDE DEF n
  <1> QED BY <1>1, <1>2

\* The mark before w on a course is the one w follows: the last found of the
\* positions before w.
LEMMA BeforeFollows ==
    ASSUME NEW r \in DOMAIN Courses, NEW w \in Marks \cup {NoMark},
           NEW gone \in Lost
    PROVE  /\ Before[r][w][gone] \in Marks \cup {NoMark}
           /\ Before[r][w][gone] # NoMark => Follows(r, Before[r][w][gone], w)
  <1> DEFINE c == Courses[r]
             n == {i \in Found(r, gone) :
                     \E j \in Found(r, gone) : i < j /\ Courses[r][j] = w}
  <1>1. Before[r][w][gone] = IF n = {} THEN NoMark ELSE c[Max(n)]
    BY NeighboursAre DEF Predecessor
  <1>2. CASE n # {}
    <2>1. n \in SUBSET (1..Len(c)) /\ Len(c) \in Nat
      BY CourseIs DEF Found
    <2>2. Max(n) \in n
      <3> HIDE DEF n, c
      <3> QED BY <1>2, <2>1, LastOf
    <2>3. PICK j \in DOMAIN c : Max(n) < j /\ c[j] = w
      BY <2>2 DEF Found
    <2>4. Max(n) \in DOMAIN c
      BY <2>2 DEF Found
    <2>5. c[Max(n)] \in Marks
      BY <2>4, CourseIs
    <2> HIDE DEF n
    <2> QED BY <1>1, <1>2, <2>3, <2>4, <2>5 DEF Follows
  <1> HIDE DEF n
  <1> QED BY <1>1, <1>2

\* Marks that follow each other are two marks of the course.
LEMMA FollowsTwo ==
    ASSUME NEW r \in DOMAIN Courses, NEW v, NEW w, Follows(r, v, w)
    PROVE  /\ v # w
           /\ v \in Range(Courses[r]) /\ w \in Range(Courses[r])
           /\ v # NoMark /\ w # NoMark
  <1>1. PICK i, j \in DOMAIN Courses[r] :
            i < j /\ Courses[r][i] = v /\ Courses[r][j] = w
    BY DEF Follows
  <1>2. i # j
    BY <1>1, CourseIs
  <1> QED BY <1>1, <1>2, CourseIs

\* When no mark is missing, the mark before the next one is this one.
LEMMA BeforeNext ==
    ASSUME NEW r \in DOMAIN Courses, NEW w \in Marks \cup {NoMark},
           After[r][w][{}] # NoMark
    PROVE  Before[r][After[r][w][{}]][{}] = w
  <1> DEFINE c == Courses[r]
             a == After[r][w][{}]
             n == {j \in DOMAIN c : \E i \in DOMAIN c : i < j /\ c[i] = w}
             b == {i \in DOMAIN c : \E j \in DOMAIN c : i < j /\ c[j] = a}
  <1>1. Found(r, {}) = DOMAIN c /\ DOMAIN c = 1..Len(c) /\ Len(c) \in Nat
    BY CourseIs DEF Found
  <1>2. a = IF n = {} THEN NoMark ELSE c[Min(n)]
    <2>1. a = Successor(r, w, {})
      BY NeighboursAre DEF Lost
    <2>2. Successor(r, w, {}) = IF n = {} THEN NoMark ELSE c[Min(n)]
      BY <1>1 DEF Successor
    <2> QED BY <2>1, <2>2
  <1>3. n # {} /\ a = c[Min(n)]
    BY <1>2
  <1>4. PICK p \in DOMAIN c : c[p] = w
    BY <1>3
  <1>5. \A j \in DOMAIN c : j \in n <=> p < j
    BY <1>4, CourseIs
  <1>6. Min(n) \in n /\ \A j \in n : Min(n) <= j
    <2>1. \A j \in n : j \in Nat
      BY <1>1
    <2> HIDE DEF n
    <2> QED BY <1>3, <2>1, FirstOf
  <1>7. Min(n) = p + 1
    <2> DEFINE m == Min(n)
    <2>1. m \in DOMAIN c /\ p < m
      BY <1>5, <1>6
    <2>2. m \in 1..Len(c) /\ p \in 1..Len(c)
      BY <1>1, <2>1
    <2>3. p + 1 \in DOMAIN c
      BY <1>1, <2>1, <2>2
    <2>4. p + 1 \in n
      BY <1>5, <2>2, <2>3
    <2>5. m <= p + 1
      BY <1>6, <2>4
    <2> HIDE DEF m
    <2>6. m = p + 1
      BY <2>1, <2>2, <2>5
    <2> QED BY <2>6 DEF m
  <1>8. p + 1 \in DOMAIN c /\ a = c[p + 1]
    BY <1>3, <1>6, <1>7
  <1>9. \A i \in DOMAIN c : i \in b <=> i < p + 1
    BY <1>8, CourseIs
  <1>10. Max(b) \in b /\ \A i \in b : Max(b) >= i
    <2>1. b \in SUBSET (1..Len(c)) /\ p \in b
      BY <1>1, <1>9
    <2> HIDE DEF b, c
    <2> QED BY <1>1, <2>1, LastOf
  <1>11. Max(b) = p
    <2> DEFINE m == Max(b)
    <2>1. m \in DOMAIN c /\ m < p + 1
      BY <1>9, <1>10
    <2>2. p \in b
      BY <1>1, <1>9
    <2>3. m >= p
      BY <1>10, <2>2
    <2>4. m \in Nat /\ p \in Nat
      BY <1>1, <2>1
    <2> HIDE DEF m
    <2>5. m = p
      BY <2>1, <2>3, <2>4
    <2> QED BY <2>5 DEF m
  <1>12. Before[r][a][{}] = IF b = {} THEN NoMark ELSE c[Max(b)]
    <2>1. a \in Marks \cup {NoMark} /\ {} \in Lost
      BY AfterFollows DEF Lost
    <2> HIDE DEF a
    <2>2. Before[r][a][{}] = Predecessor(r, a, {})
      BY <2>1, NeighboursAre
    <2>3. Predecessor(r, a, {}) = IF b = {} THEN NoMark ELSE c[Max(b)]
      BY <1>1 DEF Predecessor
    <2> QED BY <2>2, <2>3
  <1> QED BY <1>4, <1>10, <1>11, <1>12

-----------------------------------------------------------------------------
(***************************************************************************)
(* The page.                                                               *)
(***************************************************************************)

\* The panel on the page, or the last of those that wait for an animation, is
\* the one of the state.  The data are asked for when the licence, which is
\* the first panel of some pages, has given way to the standby text.
PanelInv ==
    /\ fades # <<>> => fsm \in {"waiting", "running", "halt"}
    /\ fsm = "running" => IF fades = <<>> THEN panel \in {"table", "data"}
                          ELSE LastBuilt = "table"
    /\ fsm = "waiting" => IF fades = <<>> THEN panel = "wait"
                          ELSE LastBuilt = "wait"
    /\ fsm = "getack" => panel \in {"license", "wait"}
    /\ panel = "license" => fsm \in {"getack", "halt"}
    /\ flag = "getmrkdata" /\ fsm = "getack" => panel = "wait"
    /\ request = "getmrkdata" /\ fsm = "getack" => panel = "wait"

\* The inductive invariant of page and hand-shake.
PageIInv == PageTypeOK /\ CppTypeOK /\ PanelInv

\* The transitions, one by one.
LEMMA Edges ==
    ASSUME NEW x \in Transitions
    PROVE  \/ x = <<"loaded",     "loading", "initga">>
           \/ x = <<"initok",     "initga",  "getid">>
           \/ x = <<"setid",      "getid",   "hasid">>
           \/ x = <<"nocfg",      "hasid",   "getack">>
           \/ x = <<"hascfg",     "hasid",   "getack">>
           \/ x = <<"mrkdataack", "getack",  "waiting">>
           \/ x = <<"actvrte",    "waiting", "running">>
           \/ x = <<"newmrkdata", "running", "running">>
           \/ x = <<"noroute",    "running", "waiting">>
           \/ x = <<"closing",    "getack",  "halt">>
           \/ x = <<"closing",    "waiting", "halt">>
           \/ x = <<"closing",    "running", "halt">>
  BY DEF Transitions

\* Where the events of the page lead.
LEMMA Targets ==
    /\ fsm = "loading" => TargetIn(Transitions, "loaded") = "initga"
    /\ fsm = "waiting" => TargetIn(Transitions, "actvrte") = "running"
    /\ fsm = "running" => TargetIn(Transitions, "noroute") = "waiting"
    /\ Can("mrkdataack") => fsm = "getack"
    /\ Can("closing") => fsm \in {"getack", "waiting", "running"}
  <1>1. ASSUME NEW t, NEW to, <<t, fsm, to>> \in Transitions,
               \A x \in Transitions : x[1] = t /\ x[2] = fsm => x[3] = to
        PROVE  TargetIn(Transitions, t) = to
    <2> DEFINE P(x) == x \in Transitions /\ x[1] = t /\ x[2] = fsm
               c == CHOOSE x \in Transitions : x[1] = t /\ x[2] = fsm
    <2>1. \E x \in Transitions : x[1] = t /\ x[2] = fsm
      <3>1. <<t, fsm, to>>[1] = t /\ <<t, fsm, to>>[2] = fsm
        OBVIOUS
      <3> QED BY <1>1, <3>1
    <2>2. c \in Transitions /\ c[1] = t /\ c[2] = fsm
      BY <2>1
    <2>3. c[3] = to
      BY <1>1, <2>2
    <2> QED BY <2>3 DEF TargetIn
  <1>2. fsm = "loading" => TargetIn(Transitions, "loaded") = "initga"
    <2>1. <<"loaded", "loading", "initga">> \in Transitions
      BY DEF Transitions
    <2>2. \A x \in Transitions : x[1] = "loaded" => x[3] = "initga"
      BY Edges
    <2> QED BY <1>1, <2>1, <2>2
  <1>3. fsm = "waiting" => TargetIn(Transitions, "actvrte") = "running"
    <2>1. <<"actvrte", "waiting", "running">> \in Transitions
      BY DEF Transitions
    <2>2. \A x \in Transitions : x[1] = "actvrte" => x[3] = "running"
      BY Edges
    <2> QED BY <1>1, <2>1, <2>2
  <1>4. fsm = "running" => TargetIn(Transitions, "noroute") = "waiting"
    <2>1. <<"noroute", "running", "waiting">> \in Transitions
      BY DEF Transitions
    <2>2. \A x \in Transitions : x[1] = "noroute" => x[3] = "waiting"
      BY Edges
    <2> QED BY <1>1, <2>1, <2>2
  <1>5. Can("mrkdataack") => fsm = "getack"
    <2>1. \A x \in Transitions : x[1] = "mrkdataack" => x[2] = "getack"
      BY Edges
    <2> QED BY <2>1 DEF Can, CanIn
  <1>6. Can("closing") => fsm \in {"getack", "waiting", "running"}
    <2>1. \A x \in Transitions :
            x[1] = "closing" => x[2] \in {"getack", "waiting", "running"}
      BY Edges
    <2> QED BY <2>1 DEF Can, CanIn
  <1> QED BY <1>2, <1>3, <1>4, <1>5, <1>6

\* The states of the page.
LEMMA StateNames ==
    States = {"loading", "initga", "getid", "hasid", "getack", "waiting",
              "running", "halt"}
  <1> DEFINE S == {"loading", "initga", "getid", "hasid", "getack", "waiting",
                   "running", "halt"}
  <1>1. ASSUME NEW x \in Transitions PROVE x[2] \in S /\ x[3] \in S
    BY Edges
  <1>2. /\ <<"loaded", "loading", "initga">> \in Transitions
        /\ <<"initok", "initga",  "getid">> \in Transitions
        /\ <<"setid",  "getid",   "hasid">> \in Transitions
        /\ <<"mrkdataack", "getack",  "waiting">> \in Transitions
        /\ <<"closing", "running", "halt">> \in Transitions
    BY DEF Transitions
  <1>3. \A x \in Transitions : {x[2], x[3]} \subseteq States
    BY DEF States, StatesOf
  <1>4. S \subseteq States
    BY <1>2, <1>3
  <1>5. States \subseteq S
    BY <1>1 DEF States, StatesOf
  <1> QED BY <1>4, <1>5

\* The queue of animations, and the last of them.
LEMMA Queue ==
    ASSUME PageTypeOK
    PROVE  /\ fades # <<>> => LastBuilt \in {"wait", "table"}
           /\ \A next \in {"wait", "table"} : fades' = Append(fades, next) =>
                 /\ fades' \in Seq({"wait", "table"}) /\ fades' # <<>>
                 /\ LastBuilt' = next
  <1> DEFINE P == {"wait", "table"}
  <1>1. fades \in Seq(P)
    BY DEF PageTypeOK
  <1>2. ASSUME fades # <<>> PROVE LastBuilt \in P
    BY <1>1, <1>2 DEF LastBuilt
  <1>3. ASSUME NEW next \in P, fades' = Append(fades, next)
        PROVE  fades' \in Seq(P) /\ fades' # <<>> /\ LastBuilt' = next
    <2>1. fades' \in Seq(P) /\ Len(fades') = Len(fades) + 1
          /\ fades'[Len(fades) + 1] = next
      BY <1>1, <1>3
    <2>2. fades' # <<>>
      BY <1>1, <2>1
    <2> QED BY <2>1, <2>2 DEF LastBuilt
  <1> QED BY <1>2, <1>3

\* The data of the course change the state, and queue the panel of the new one.
LEMMA DataPage ==
    ASSUME PageIInv, NEW d, Newmrkdata(d), UNCHANGED cppVars
    PROVE  PageIInv'
  <1> USE DEF PageIInv
  <1>1. /\ UNCHANGED <<flag, iface, accepted, muted>>
        /\ \/ /\ fsm = "running" /\ panel' = Filled
              /\ UNCHANGED <<fsm, fades>>
           \/ /\ fsm = "waiting" /\ fsm' = "running"
              /\ fades' = Append(fades, "table") /\ panel' = panel
           \/ /\ fsm = "running" /\ fsm' = "waiting"
              /\ fades' = Append(fades, "wait") /\ panel' = panel
           \/ UNCHANGED <<fsm, panel, fades>>
    BY Targets DEF Newmrkdata, StartMarkData, StartWaitData, Fade
  <1>2. CppTypeOK' /\ request' = request
    BY DEF CppTypeOK, cppVars
  <1>3. CASE fsm = "running" /\ panel' = Filled /\ UNCHANGED <<fsm, fades>>
    <2>1. panel' \in Panels /\ panel' # "license"
          /\ (panel \in {"table", "data"} => panel' \in {"table", "data"})
      BY <1>3 DEF Filled, Panels, PageTypeOK, PanelInv
    <2>2. PageTypeOK'
      BY <1>1, <1>3, <2>1 DEF PageTypeOK
    <2>3. LastBuilt' = LastBuilt
      BY <1>3 DEF LastBuilt
    <2> QED BY <1>1, <1>2, <1>3, <2>1, <2>2, <2>3 DEF PanelInv
  <1>4. CASE /\ fsm = "waiting" /\ fsm' = "running"
             /\ fades' = Append(fades, "table") /\ panel' = panel
    <2>1. fades' \in Seq({"wait", "table"}) /\ fades' # <<>>
          /\ LastBuilt' = "table"
      BY <1>4, Queue
    <2>2. PageTypeOK'
      BY <1>1, <1>4, <2>1, StateNames DEF PageTypeOK
    <2> QED BY <1>1, <1>2, <1>4, <2>1, <2>2 DEF PanelInv
  <1>5. CASE /\ fsm = "running" /\ fsm' = "waiting"
             /\ fades' = Append(fades, "wait") /\ panel' = panel
    <2>1. fades' \in Seq({"wait", "table"}) /\ fades' # <<>>
          /\ LastBuilt' = "wait"
      BY <1>5, Queue
    <2>2. PageTypeOK'
      BY <1>1, <1>5, <2>1, StateNames DEF PageTypeOK
    <2> QED BY <1>1, <1>2, <1>5, <2>1, <2>2 DEF PanelInv
  <1>6. CASE UNCHANGED <<fsm, panel, fades>>
    <2>1. PageTypeOK' /\ LastBuilt' = LastBuilt
      BY <1>1, <1>6 DEF PageTypeOK, LastBuilt
    <2> QED BY <1>1, <1>2, <1>6, <2>1 DEF PanelInv
  <1> QED BY <1>1, <1>3, <1>4, <1>5, <1>6

\* Loading, animation and clicks.
LEMMA PageSteps ==
    ASSUME PageIInv, UNCHANGED cppVars,
           Loaded \/ InitOk \/ FadeOver \/ ClickArm \/ ClickChart
    PROVE  PageIInv'
  <1> USE DEF PageIInv
  <1>1. CppTypeOK' /\ request' = request
    BY DEF CppTypeOK, cppVars
  <1>2. CASE Loaded
    <2>1. fsm' = "initga" /\ UNCHANGED <<flag, iface, accepted, panel, fades, muted>>
      BY <1>2, Targets DEF Loaded
    <2> QED BY <1>1, <1>2, <2>1, StateNames DEF Loaded, PageTypeOK, PanelInv
  <1>3. CASE InitOk
    BY <1>1, <1>3, StateNames DEF InitOk, PageTypeOK, PanelInv
  <1>4. CASE FadeOver
    <2>1. panel' \in {"wait", "table"} /\ panel' = LastBuilt /\ fades' = <<>>
      BY <1>4, Queue DEF FadeOver
    <2>2. PageTypeOK'
      BY <1>4, <2>1 DEF FadeOver, PageTypeOK, Panels
    <2>3. fsm' = fsm /\ flag' = flag
      BY <1>4 DEF FadeOver
    <2>4. fsm # "getack"
      BY <1>4 DEF FadeOver, PanelInv
    <2> QED BY <1>1, <1>4, <2>1, <2>2, <2>3, <2>4 DEF FadeOver, PanelInv
  <1>5. CASE ClickArm
    <2>1. fsm \in {"getack", "halt"}
      BY <1>5 DEF ClickArm, PanelInv
    <2>2. PageTypeOK'
      BY <1>5 DEF ClickArm, PageTypeOK, Panels
    <2> QED BY <1>1, <1>5, <2>1, <2>2 DEF ClickArm, PanelInv
  <1>6. CASE ClickChart
    <2>1. PageTypeOK' /\ flag' \in {"resumechart", "mutechart"}
      BY <1>6 DEF ClickChart, PageTypeOK
    <2>2. LastBuilt' = LastBuilt
      BY <1>6 DEF ClickChart, LastBuilt
    <2> QED BY <1>1, <1>6, <2>1, <2>2 DEF ClickChart, PanelInv
  <1> QED BY <1>2, <1>3, <1>4, <1>5, <1>6

\* What a tick of InstruJS makes of its own variables.
LEMMA TickTypes ==
    ASSUME CppTypeOK,
           \/ NothingToServe
           \/ \E n \in IStates, src \in Sources : Answered(n, src)
    PROVE  CppTypeOK' /\ request' = wxEmptyString
  <1>1. CASE NothingToServe
    <2>1. handshake' \in HandShakes
      BY <1>1 DEF NothingToServe, CppTypeOK, HandShakes, AfterEmpty
    <2>2. istate' \in IStates
      BY <1>1 DEF NothingToServe, CppTypeOK, IStates, Relaxed
    <2> QED BY <1>1, <2>1, <2>2 DEF NothingToServe, EndTick, CppTypeOK
  <1>2. CASE \E n \in IStates, src \in Sources : Answered(n, src)
    BY <1>2 DEF Answered, EndTick, CppTypeOK, HandShakes
  <1> QED BY <1>1, <1>2

\* The answers of the plug-in.
LEMMA AnswerPage == ASSUME PageIInv, Serve PROVE PageIInv'
  <1> USE DEF PageIInv
  <1>1. /\ "GETID" \in IStates /\ "SHOWDATA" \in IStates /\ Relaxed \in IStates
        /\ source \in Sources /\ "RACESTART_MARK" \in Sources
    BY DEF CppTypeOK, IStates, Relaxed, Sources
  <1>2. CppTypeOK' /\ request' = wxEmptyString
    BY <1>1, TickTypes DEF Serve
  <1>3. request' # "getmrkdata"
    BY <1>2 DEF wxEmptyString
  <1>4. \/ UNCHANGED pageVars
        \/ Setid
        \/ request = "getmrkdata" /\ Mrkdataack
        \/ ChartAck
    BY DEF Serve
  <1>5. CASE UNCHANGED pageVars
    <2>1. PageTypeOK' /\ LastBuilt' = LastBuilt
      BY <1>5 DEF pageVars, PageTypeOK, LastBuilt
    <2> QED BY <1>2, <1>3, <1>5, <2>1 DEF pageVars, PanelInv
  <1>6. CASE Setid /\ fsm = "getid"
    <2>1. /\ fsm' = "getack" /\ UNCHANGED <<iface, accepted, fades, muted>>
          /\ \/ panel' = "wait" /\ flag' = "getmrkdata"
             \/ panel' = "license" /\ flag' = NoRequest
      BY <1>6 DEF Setid, InitButtons
    <2>2. PageTypeOK'
      BY <2>1, StateNames DEF PageTypeOK, Panels
    <2>3. fades' = <<>>
      BY <1>6, <2>1 DEF PanelInv
    <2> QED BY <1>2, <1>3, <2>1, <2>2, <2>3 DEF PanelInv, NoRequest
  <1>7. CASE request = "getmrkdata" /\ Mrkdataack /\ Can("mrkdataack")
    <2>1. /\ fsm = "getack" /\ fsm' = "waiting" /\ flag' = NoRequest
          /\ UNCHANGED <<iface, accepted, panel, fades, muted>>
      BY <1>7, Targets DEF Mrkdataack
    <2>2. panel = "wait" /\ fades = <<>>
      BY <1>7, <2>1 DEF PanelInv
    <2>3. PageTypeOK'
      BY <2>1, StateNames DEF PageTypeOK, NoRequest
    <2> QED BY <1>2, <1>3, <2>1, <2>2, <2>3 DEF PanelInv
  <1>8. CASE ChartAck
    <2>1. PageTypeOK' /\ LastBuilt' = LastBuilt
      BY <1>8 DEF ChartAck, PageTypeOK, LastBuilt
    <2> QED BY <1>2, <1>3, <1>8, <2>1 DEF ChartAck, PanelInv, NoRequest
  <1> QED BY <1>4, <1>5, <1>6, <1>7, <1>8 DEF Setid, Mrkdataack

\* The end of the instrument.
LEMMA ClosePage == ASSUME PageIInv, Close PROVE PageIInv'
  <1> USE DEF PageIInv
  <1>1. CppTypeOK' /\ request' = request
    BY DEF Close, CloseInstruJS, CppTypeOK
  <1>2. \/ UNCHANGED pageVars
        \/ fsm' = "halt" /\ UNCHANGED <<flag, iface, accepted, panel, fades, muted>>
    BY DEF Close, PageClosing
  <1>3. CASE UNCHANGED pageVars
    <2>1. PageTypeOK' /\ LastBuilt' = LastBuilt
      BY <1>3 DEF pageVars, PageTypeOK, LastBuilt
    <2> QED BY <1>1, <1>3, <2>1 DEF pageVars, PanelInv
  <1>4. CASE fsm' = "halt" /\ UNCHANGED <<flag, iface, accepted, panel, fades, muted>>
    BY <1>1, <1>4, StateNames DEF PageTypeOK, PanelInv
  <1> QED BY <1>2, <1>3, <1>4

\* A page that has just been started.
LEMMA StartPage ==
    ASSUME fsm = "loading", flag = NoRequest, iface = NoFields,
           accepted \in BOOLEAN, panel = "empty", fades = <<>>, muted = FALSE,
           CppTypeOK, request = wxEmptyString
    PROVE  PageIInv
  <1>1. fsm \in States \ {"hasid"} /\ panel \in Panels
    BY StateNames DEF Panels
  <1>2. fades \in Seq({"wait", "table"})
    OBVIOUS
  <1>3. PageTypeOK
    BY <1>1, <1>2 DEF PageTypeOK
  <1> QED BY <1>3 DEF PageIInv, PanelInv, NoRequest, wxEmptyString

\* Every step keeps the invariant of the page.
LEMMA StepPage == ASSUME PageIInv, [Next]_vars PROVE PageIInv'
  <1>1. CASE UNCHANGED <<pageVars, cppVars>>
    <2>1. UNCHANGED pageVars /\ UNCHANGED cppVars
      BY <1>1
    <2>2. PageTypeOK' /\ LastBuilt' = LastBuilt
      BY <2>1 DEF pageVars, PageIInv, PageTypeOK, LastBuilt
    <2>3. CppTypeOK'
      BY <2>1 DEF cppVars, PageIInv, CppTypeOK
    <2>4. PanelInv'
      BY <2>1, <2>2 DEF pageVars, cppVars, PageIInv, PanelInv
    <2> QED BY <2>2, <2>3, <2>4 DEF PageIInv
  <1>2. CASE RouteManager \/ RaceMarkTick \/ DialogOver \/ UNCHANGED vars
    <2>1. UNCHANGED <<pageVars, cppVars>>
      BY <1>2 DEF RouteManager, ActivateRoute, ActivateMark, Arrive,
                  Deactivate, KeepOthers, RaceMarkTick, DialogOver, vars
    <2> QED BY <1>1, <2>1
  <1>3. CASE Poll
    <2>1. UNCHANGED pageVars /\ request' = flag /\ CppTypeOK'
      BY <1>3 DEF Poll, ReadPage, PageIInv, CppTypeOK
    <2>2. PageTypeOK' /\ LastBuilt' = LastBuilt
      BY <2>1 DEF pageVars, PageIInv, PageTypeOK, LastBuilt
    <2> QED BY <2>1, <2>2 DEF pageVars, PageIInv, PanelInv
  <1>4. CASE Serve
    BY <1>4, AnswerPage
  <1>5. CASE Push
    BY <1>5, DataPage DEF Push
  <1>6. CASE PageTimers
    BY <1>6, PageSteps DEF PageTimers
  <1>7. CASE Click
    BY <1>7, PageSteps DEF Click
  <1>8. CASE Close
    BY <1>8, ClosePage
  <1>9. CASE Restart
    <2>1. CppTypeOK'
      BY <1>9 DEF Restart, CppTypeOK, HandShakes, IStates, Sources
    <2>2. /\ fsm' = "loading" /\ flag' = NoRequest /\ iface' = NoFields
          /\ panel' = "empty" /\ fades' = <<>> /\ muted' = FALSE
          /\ accepted' = accepted /\ request' = wxEmptyString
      BY <1>9 DEF Restart, PageRestart
    <2>3. PageTypeOK'
      <3>1. fsm' \in States \ {"hasid"} /\ panel' \in Panels
        BY <2>2, StateNames DEF Panels
      <3>2. fades' \in Seq({"wait", "table"})
        BY <2>2
      <3> QED BY <2>2, <3>1, <3>2 DEF PageTypeOK, PageIInv
    <2> QED BY <2>1, <2>2, <2>3 DEF PageIInv, PanelInv, NoRequest, wxEmptyString
  <1> QED BY <1>2, <1>3, <1>4, <1>5, <1>6, <1>7, <1>8, <1>9 DEF Next

-----------------------------------------------------------------------------
(***************************************************************************)
(* The course.                                                             *)
(***************************************************************************)

\* The leg is a leg of a course, or nothing.
MarksType ==
    [race     : DOMAIN Courses \cup {NoCourse},
     previous : Marks \cup {NoMark}, target   : Marks \cup {NoMark},
     next     : Marks \cup {NoMark}, nextNext : Marks \cup {NoMark}]

\* The types of the messages and of the marks.
CourseTypeOK ==
    /\ rte \in DOMAIN Courses \cup {NoCourse}
    /\ {act, arrived, arrivedNext, point} \subseteq Marks \cup {NoMark}
    /\ marks \in MarksType
    /\ regular \in BOOLEAN

\* The type invariant.
TypeOK == PageTypeOK /\ CppTypeOK /\ CourseTypeOK

\* The messages belong to the route that is active, if one is.
MessageInv ==
    IF rte = NoCourse
    THEN act = NoMark /\ arrived = NoMark /\ arrivedNext = NoMark
    ELSE act \in Range(Courses[rte]) /\ point \in Range(Courses[rte])

\* The next legs of m follow the present one on the course of m.
Ordered(m) ==
    /\ m.next # NoMark =>
          m.race # NoCourse /\ Follows(m.race, m.target, m.next)
    /\ m.nextNext # NoMark =>
          m.next # NoMark /\ Follows(m.race, m.next, m.nextNext)

\* The leg before the arrival, and between the arrival and the tick.
OnLeg ==
    /\ marks.race = rte /\ marks.target \in Range(Courses[rte])
    /\ marks.previous = Before[rte][marks.target][{}]
    /\ \/ marks.target = point /\ arrived \in {NoMark, marks.previous}
       \/ /\ marks.target = arrived /\ arrivedNext = point
          /\ point = After[rte][arrived][{}]

\* A route that is sailed from mark to mark has just been activated, is over
\* while its marks are still there, or is on a leg.
RegularInv ==
    regular =>
      \/ /\ marks = Cleared
         /\ rte # NoCourse => act = point /\ arrived = NoMark
      \/ rte = NoCourse /\ marks.race # NoCourse
      \/ rte # NoCourse /\ OnLeg

\* The inductive invariant of the course.
CourseIInv == CourseTypeOK /\ MessageInv /\ Ordered(marks) /\ RegularInv

\* No marks are in order.
LEMMA ClearedIs == Cleared \in MarksType /\ Ordered(Cleared)
  BY DEF Cleared, MarksType, Ordered, NoMark

\* The activation, change and end of a route, and the arrival at a mark.
LEMMA RouteManagerCourse == ASSUME CourseIInv, RouteManager PROVE CourseIInv'
  <1> USE DEF CourseIInv
  <1>1. marks' = marks
    BY DEF RouteManager, ActivateRoute, ActivateMark, Arrive, Deactivate,
           KeepOthers, markVars
  <1>2. Ordered(marks')
    BY <1>1
  <1>3. CASE ActivateRoute
    <2>1. PICK r \in DOMAIN Courses : \E w \in Range(Courses[r]) :
                rte' = r /\ act' = w /\ point' = w
      BY <1>3 DEF ActivateRoute
    <2>2. /\ rte = NoCourse /\ rte' = r /\ act' \in Range(Courses[r])
          /\ point' = act' /\ regular' = (marks = Cleared)
          /\ UNCHANGED <<arrived, arrivedNext>>
      BY <1>3, <2>1 DEF ActivateRoute
    <2>3. r # NoCourse /\ Range(Courses[r]) \subseteq Marks
      BY CourseIs
    <2>4. CourseTypeOK'
      BY <1>1, <2>2, <2>3 DEF CourseTypeOK
    <2>5. MessageInv'
      BY <2>2, <2>3 DEF MessageInv
    <2>6. RegularInv'
      BY <1>1, <2>2, <2>3 DEF RegularInv, MessageInv
    <2> QED BY <1>2, <2>4, <2>5, <2>6
  <1>4. CASE ActivateMark
    <2>1. PICK w \in Range(Courses[rte]) \ {point} : act' = w /\ point' = w
      BY <1>4 DEF ActivateMark
    <2>2. /\ rte # NoCourse /\ rte \in DOMAIN Courses /\ regular' = FALSE
          /\ UNCHANGED <<rte, arrived, arrivedNext>>
      BY <1>4 DEF ActivateMark, CourseTypeOK
    <2>3. Range(Courses[rte]) \subseteq Marks
      BY <2>2, CourseIs
    <2>4. CourseTypeOK'
      BY <1>1, <2>1, <2>2, <2>3 DEF CourseTypeOK
    <2>5. MessageInv' /\ RegularInv'
      BY <2>1, <2>2 DEF MessageInv, RegularInv
    <2> QED BY <1>2, <2>4, <2>5
  <1>5. CASE Arrive
    <2>1. /\ rte # NoCourse /\ rte \in DOMAIN Courses
          /\ After[rte][point][{}] # NoMark
          /\ arrived' = point /\ arrivedNext' = After[rte][point][{}]
          /\ point' = After[rte][point][{}]
          /\ regular' = (regular /\ marks.target = point)
          /\ UNCHANGED <<rte, act>>
      BY <1>5 DEF Arrive, CourseTypeOK
    <2>2. point' \in Marks /\ Follows(rte, point, point')
      BY <2>1, AfterFollows DEF Lost, CourseTypeOK
    <2>3. point' \in Range(Courses[rte]) /\ point # NoMark
      BY <2>1, <2>2, FollowsTwo
    <2>4. CourseTypeOK'
      BY <1>1, <2>1, <2>2 DEF CourseTypeOK
    <2>5. MessageInv'
      BY <2>1, <2>3 DEF MessageInv
    <2>6. ASSUME regular' PROVE OnLeg'
      <3>1. regular /\ marks.target = point
        BY <2>1, <2>6
      <3>2. marks # Cleared
        BY <2>3, <3>1 DEF Cleared
      <3>3. OnLeg
        BY <2>1, <3>1, <3>2 DEF RegularInv
      <3> QED BY <1>1, <2>1, <3>1, <3>3 DEF OnLeg
    <2>7. RegularInv'
      BY <2>1, <2>6 DEF RegularInv
    <2> QED BY <1>2, <2>4, <2>5, <2>7
  <1>6. CASE Deactivate
    <2>1. /\ rte # NoCourse /\ rte' = NoCourse /\ act' = NoMark
          /\ arrived' = NoMark /\ arrivedNext' = NoMark /\ point' = NoMark
          /\ regular' = regular
      BY <1>6 DEF Deactivate, ClearActiveRouteMessages
    <2>2. CourseTypeOK' /\ MessageInv'
      BY <1>1, <2>1 DEF CourseTypeOK, MessageInv
    <2>3. RegularInv'
      BY <1>1, <2>1 DEF RegularInv, OnLeg
    <2> QED BY <1>2, <2>2, <2>3
  <1> QED BY <1>3, <1>4, <1>5, <1>6 DEF RouteManager

\* The marks with which the tick goes on.
LEMMA TargetedIs ==
    ASSUME CourseIInv, NEW gone \in Lost,
           Adopted(marks).race # NoCourse
    PROVE  LET m == Targeted(Adopted(marks), gone)
           IN  /\ m \in MarksType /\ Ordered(m)
               /\ m.race = Adopted(marks).race
               /\ m.race \in DOMAIN Courses
  <1> DEFINE a == Adopted(marks)
             m == Targeted(a, gone)
  <1> USE DEF CourseIInv
  <1>1. a \in MarksType
    BY DEF Adopted, MarksType, CourseTypeOK
  <1>2. Ordered(a)
    <2>1. CASE marks.race = NoCourse
      <3>1. marks.next = NoMark /\ marks.nextNext = NoMark
        BY <2>1 DEF Ordered
      <3>2. a.next = NoMark /\ a.nextNext = NoMark
        BY <3>1 DEF Adopted, CourseTypeOK, MarksType
      <3> QED BY <3>2 DEF Ordered
    <2>2. CASE marks.race # NoCourse
      BY <2>2 DEF Adopted
    <2> QED BY <2>1, <2>2
  <1>3. a.race \in DOMAIN Courses
    BY <1>1 DEF MarksType
  <1> HIDE DEF a
  <1>4. CASE ~(a.target # NoMark \/ act \in gone \cup {NoMark})
    <2> DEFINE b == Before[a.race][act][gone]
    <2>1. m = [a EXCEPT !.target = act, !.previous = b]
      BY <1>4 DEF Targeted
    <2>2. b \in Marks \cup {NoMark}
      BY <1>3, BeforeFollows DEF CourseTypeOK
    <2> HIDE DEF b
    <2>3. m \in MarksType /\ m.race = a.race /\ m.next = a.next
          /\ m.nextNext = a.nextNext
      BY <1>1, <2>1, <2>2 DEF MarksType, CourseTypeOK
    <2>4. a.next = NoMark
      BY <1>2, <1>3, <1>4, FollowsTwo DEF Ordered
    <2>5. a.nextNext = NoMark
      BY <1>2, <2>4 DEF Ordered
    <2> QED BY <1>3, <2>3, <2>4, <2>5 DEF Ordered, a
  <1>5. CASE a.target # NoMark \/ act \in gone \cup {NoMark}
    BY <1>1, <1>2, <1>3, <1>5 DEF Targeted, a
  <1> QED BY <1>4, <1>5

\* Looking up the next legs puts them in order.
LEMMA WithNextLegsIs ==
    ASSUME NEW m \in MarksType, NEW gone \in Lost, m.race = NoCourse => Ordered(m)
    PROVE  LET w == WithNextLegs(m, gone)
           IN  /\ w \in MarksType /\ Ordered(w)
               /\ w.race = m.race /\ w.previous = m.previous
               /\ w.target = m.target
  <1> DEFINE n == After[m.race][m.target][gone]
             o == IF n = NoMark THEN NoMark ELSE After[m.race][n][gone]
             w == [m EXCEPT !.next = n, !.nextNext = o]
  <1>1. CASE m.race = NoCourse
    BY <1>1 DEF WithNextLegs
  <1>2. CASE m.race # NoCourse
    <2>1. m.race \in DOMAIN Courses
      BY <1>2 DEF MarksType
    <2>2. n \in Marks \cup {NoMark} /\ (n # NoMark => Follows(m.race, m.target, n))
      BY <2>1, AfterFollows DEF MarksType
    <2>3. o \in Marks \cup {NoMark}
          /\ (o # NoMark => n # NoMark /\ Follows(m.race, n, o))
      <3> HIDE DEF n
      <3> QED BY <2>1, <2>2, AfterFollows
    <2>4. WithNextLegs(m, gone) = w
      BY <1>2 DEF WithNextLegs
    <2> HIDE DEF n, o
    <2>5. /\ w \in MarksType /\ w.next = n /\ w.nextNext = o
          /\ w.race = m.race /\ w.previous = m.previous /\ w.target = m.target
      BY <2>2, <2>3 DEF MarksType
    <2> QED BY <1>2, <2>2, <2>3, <2>4, <2>5 DEF Ordered
  <1> QED BY <1>1, <1>2

\* A route that is still there leaves marks in order.
LEMMA FollowedIs ==
    ASSUME CourseIInv, NEW m \in MarksType, NEW gone \in Lost, Ordered(m)
    PROVE  /\ Followed(m, gone).to \in MarksType
           /\ Ordered(Followed(m, gone).to)
  <1> DEFINE c == WpChecked(m, gone)
             x == [c EXCEPT !.previous = m.target, !.target = arrivedNext]
             y == [c EXCEPT !.previous = c.target, !.target = arrivedNext]
  <1>1. c \in MarksType /\ Ordered(c)
    BY ClearedIs DEF WpChecked
  <1>2. Followed(m, gone).to \in {m, c, Cleared, Changed(c, gone)}
    BY DEF Followed
  <1>3. Changed(c, gone) \in MarksType /\ Ordered(Changed(c, gone))
    <2> HIDE DEF c
    <2>1. /\ y \in MarksType /\ y.race = c.race
          /\ y.next = c.next /\ y.nextNext = c.nextNext
      BY <1>1 DEF MarksType, CourseIInv, CourseTypeOK
    <2>2. y.race = NoCourse => Ordered(y)
      BY <1>1, <2>1 DEF Ordered
    <2>3. Changed(c, gone) = WithNextLegs(y, gone)
      BY DEF Changed
    <2> HIDE DEF y
    <2> QED BY <2>1, <2>2, <2>3, WithNextLegsIs
  <1> QED BY <1>1, <1>2, <1>3, ClearedIs

\* The tick of the instrument on a route that is sailed from mark to mark.
LEMMA TickRegular ==
    ASSUME CourseIInv, RaceMarkTick, regular' = TRUE
    PROVE  RegularInv'
  <1> USE DEF CourseIInv
  <1> DEFINE a == Adopted(marks)
             m == Targeted(a, {})
  <1>1. /\ regular /\ UNCHANGED <<rte, act, arrived, arrivedNext, point>>
        /\ marks' = IF a.race = NoCourse THEN a
                    ELSE IF CheckRouteStillValid(a) THEN Followed(m, {}).to
                    ELSE Cleared
    BY DEF RaceMarkTick, msgVars
  <1>2. marks \in MarksType
    BY DEF CourseTypeOK
  <1>3. CASE marks = Cleared /\ rte = NoCourse
    <2>1. a = Cleared
      BY <1>3 DEF Adopted, Cleared
    <2>2. marks' = Cleared
      BY <1>1, <2>1 DEF Cleared
    <2> QED BY <1>1, <1>3, <2>2 DEF RegularInv
  <1>4. CASE marks = Cleared /\ rte # NoCourse /\ act = point /\ arrived = NoMark
    <2> DEFINE b == Before[rte][act][{}]
    <2>1. rte \in DOMAIN Courses /\ act \in Range(Courses[rte])
      BY <1>4 DEF CourseTypeOK, MessageInv
    <2>2. act # NoMark
      BY <2>1, CourseIs
    <2>3. a.race = rte /\ a.target = NoMark /\ a \in MarksType
      BY <1>2, <1>4, <2>1 DEF Adopted, Cleared, MarksType
    <2>4. m = [a EXCEPT !.target = act, !.previous = b]
      BY <2>2, <2>3 DEF Targeted
    <2>5. m.target = act /\ m.previous = b /\ m.race = rte
      BY <2>3, <2>4 DEF MarksType
    <2>6. Followed(m, {}).to = m
      <3> HIDE DEF m
      <3>1. PollForNextActiveRouteWp(m) = "under way"
        BY <1>4, <2>2, <2>5 DEF PollForNextActiveRouteWp
      <3> QED BY <2>2, <2>5, <3>1 DEF Followed, WpChecked
    <2>7. marks' = m
      BY <1>1, <1>4, <2>3, <2>6 DEF CheckRouteStillValid
    <2> QED BY <1>1, <1>4, <2>1, <2>5, <2>7 DEF RegularInv, OnLeg
  <1>5. CASE rte = NoCourse /\ marks.race # NoCourse
    <2>1. a = marks
      BY <1>5 DEF Adopted
    <2>2. marks' = Cleared
      BY <1>1, <1>5, <2>1 DEF CheckRouteStillValid
    <2> QED BY <1>1, <1>5, <2>2 DEF RegularInv
  <1>6. CASE rte # NoCourse /\ OnLeg
    <2> DEFINE t == marks.target
    <2>1. /\ rte \in DOMAIN Courses /\ marks.race = rte
          /\ t \in Range(Courses[rte]) /\ marks.previous = Before[rte][t][{}]
      BY <1>6 DEF CourseTypeOK, OnLeg
    <2>2. t # NoMark
      BY <2>1, CourseIs
    <2>3. marks.previous # t
      <3>1. t \in Marks /\ {} \in Lost
        BY <2>1, CourseIs DEF Lost
      <3> QED BY <2>1, <2>2, <3>1, BeforeFollows, FollowsTwo
    <2>4. m = marks /\ a = marks
      BY <1>6, <2>1, <2>2 DEF Adopted, Targeted
    <2>5. marks' = Followed(marks, {}).to /\ WpChecked(marks, {}) = marks
      BY <1>1, <1>6, <2>1, <2>4 DEF CheckRouteStillValid, WpChecked
    <2>6. CASE t = point /\ arrived \in {NoMark, marks.previous}
      <3>1. PollForNextActiveRouteWp(marks) = "under way"
        BY <2>2, <2>3, <2>6 DEF PollForNextActiveRouteWp
      <3>2. marks' = marks
        BY <2>2, <2>5, <3>1 DEF Followed
      <3> QED BY <1>1, <1>6, <3>2 DEF RegularInv, OnLeg
    <2>7. CASE /\ t = arrived /\ arrivedNext = point
               /\ point = After[rte][arrived][{}]
      <3>1. point \in Range(Courses[rte])
        BY <1>6 DEF MessageInv
      <3>2. point # NoMark
        BY <2>1, <3>1, CourseIs
      <3>3. point # t
        <4>1. arrived \in Marks /\ {} \in Lost
          BY <2>1, <2>7, CourseIs DEF Lost
        <4> QED BY <2>1, <2>7, <3>2, <4>1, AfterFollows, FollowsTwo
      <3>4. PollForNextActiveRouteWp(marks) = "arrived"
        BY <2>2, <2>3, <2>7 DEF PollForNextActiveRouteWp
      <3>5. ~ChangeFails(marks, {})
        BY <2>7, <3>3 DEF ChangeFails
      <3>6. marks' = Changed(marks, {})
        BY <2>2, <2>5, <3>4, <3>5 DEF Followed
      <3> DEFINE y == [marks EXCEPT !.previous = t, !.target = arrivedNext]
      <3>7. /\ y \in MarksType /\ y.race = rte /\ y.previous = t
            /\ y.target = point
        BY <1>2, <2>1, <2>7 DEF MarksType, CourseTypeOK
      <3>8. marks' = WithNextLegs(y, {})
        BY <3>6 DEF Changed
      <3> HIDE DEF y
      <3>9. marks'.race = rte /\ marks'.previous = t /\ marks'.target = point
        BY <1>6, <3>7, <3>8, WithNextLegsIs DEF Lost
      <3>10. t = Before[rte][point][{}]
        <4>1. arrived \in Marks
          BY <2>1, <2>7, CourseIs
        <4> QED BY <2>1, <2>7, <3>2, <4>1, BeforeNext
      <3> QED BY <1>1, <1>6, <2>7, <3>1, <3>9, <3>10 DEF RegularInv, OnLeg
    <2> QED BY <1>6, <2>6, <2>7 DEF OnLeg
  <1> QED BY <1>1, <1>3, <1>4, <1>5, <1>6 DEF RegularInv

\* The tick of the instrument.
LEMMA TickCourse == ASSUME CourseIInv, RaceMarkTick PROVE CourseIInv'
  <1> USE DEF CourseIInv
  <1>1. PICK gone \in Lost :
          LET a == Adopted(marks)
              f == IF a.race = NoCourse THEN [to |-> a, lost |-> FALSE]
                   ELSE IF CheckRouteStillValid(a)
                   THEN Followed(Targeted(a, gone), gone)
                   ELSE [to |-> Cleared, lost |-> FALSE]
          IN  /\ marks' = f.to /\ dialog' = f.lost
              /\ regular' = (regular /\ gone = {})
    BY DEF RaceMarkTick
  <1> DEFINE a == Adopted(marks)
             m == Targeted(a, gone)
  <1>2. marks' = IF a.race = NoCourse THEN a
                 ELSE IF CheckRouteStillValid(a) THEN Followed(m, gone).to
                 ELSE Cleared
    BY <1>1
  <1>3. UNCHANGED <<rte, act, arrived, arrivedNext, point>>
    BY DEF RaceMarkTick, msgVars
  <1>4. regular' \in BOOLEAN
    BY <1>1
  <1>5. marks' \in MarksType /\ Ordered(marks')
    <2>1. CASE a.race = NoCourse
      <3>1. marks.race = NoCourse /\ rte = NoCourse /\ a = marks
        BY <2>1 DEF Adopted, CourseTypeOK, MarksType
      <3> QED BY <1>2, <2>1, <3>1 DEF CourseTypeOK
    <2>2. CASE a.race # NoCourse /\ CheckRouteStillValid(a)
      <3>1. m \in MarksType /\ Ordered(m)
        BY <2>2, TargetedIs
      <3>2. marks' = Followed(m, gone).to
        BY <1>2, <2>2
      <3> HIDE DEF m
      <3> QED BY <3>1, <3>2, FollowedIs
    <2>3. CASE a.race # NoCourse /\ ~CheckRouteStillValid(a)
      BY <1>2, <2>3, ClearedIs
    <2> QED BY <2>1, <2>2, <2>3
  <1>6. CourseTypeOK' /\ MessageInv'
    BY <1>3, <1>4, <1>5 DEF CourseTypeOK, MessageInv
  <1>7. RegularInv'
    <2>1. CASE regular' = TRUE
      BY <2>1, TickRegular
    <2>2. CASE regular' = FALSE
      BY <2>2 DEF RegularInv
    <2> QED BY <1>4, <2>1, <2>2
  <1> QED BY <1>5, <1>6, <1>7

\* The chart plotter before any route.
LEMMA NoRouteCourse ==
    ASSUME marks = Cleared, rte = NoCourse, act = NoMark, arrived = NoMark,
           arrivedNext = NoMark, point = NoMark, regular = TRUE
    PROVE  CourseIInv
  BY ClearedIs DEF CourseIInv, CourseTypeOK, MessageInv, RegularInv

\* Every step keeps the invariant of the course.
LEMMA StepCourse == ASSUME CourseIInv, [Next]_vars PROVE CourseIInv'
  <1>1. CASE UNCHANGED <<marks, rte, act, arrived, arrivedNext, point, regular>>
    BY <1>1 DEF CourseIInv, CourseTypeOK, MessageInv, Ordered, RegularInv, OnLeg
  <1>2. CASE RouteManager
    BY <1>2, RouteManagerCourse
  <1>3. CASE RaceMarkTick
    BY <1>3, TickCourse
  <1>4. CASE Restart
    <2>1. /\ marks' = Cleared /\ rte' = NoCourse /\ act' = NoMark
          /\ arrived' = NoMark /\ arrivedNext' = NoMark /\ point' = NoMark
          /\ regular' = TRUE
      BY <1>4 DEF Restart, ClearActiveRouteMessages
    <2> QED BY <2>1, ClearedIs
            DEF CourseIInv, CourseTypeOK, MessageInv, RegularInv
  <1>5. CASE DialogOver \/ Poll \/ Serve \/ Push \/ PageTimers \/ Click
             \/ Close \/ UNCHANGED vars
    <2>1. UNCHANGED <<marks, rte, act, arrived, arrivedNext, point, regular>>
      BY <1>5 DEF DialogOver, Poll, Serve, Push, PageTimers, Click, Close,
                  vars, markVars, ocpnVars, msgVars
    <2> QED BY <1>1, <2>1
  <1> QED BY <1>2, <1>3, <1>4, <1>5 DEF Next

-----------------------------------------------------------------------------
(***************************************************************************)
(* The properties.                                                         *)
(***************************************************************************)

\* The inductive invariant.
IInv == PageIInv /\ CourseIInv

\* The inductive invariant holds always.
THEOREM Invariance == Spec => []IInv
  <1>1. Init => IInv
    <2> SUFFICES ASSUME Init PROVE IInv
      OBVIOUS
    <2>1. CppTypeOK
      BY DEF Init, CppInit, CppTypeOK, HandShakes, IStates, Sources
    <2>2. PageIInv
      BY <2>1, StartPage DEF Init, PageInit, CppInit
    <2>3. CourseIInv
      BY NoRouteCourse DEF Init, MarkInit
    <2> QED BY <2>2, <2>3 DEF IInv
  <1>2. IInv /\ [Next]_vars => IInv'
    BY StepPage, StepCourse DEF IInv
  <1> QED BY <1>1, <1>2, PTL DEF Spec

\* TypeOK: the states of page and plug-in, the messages and the marks are of
\* their kinds, and a panel that waits for its animation is one of two.
THEOREM TypeCorrect == Spec => []TypeOK
  <1>1. IInv => TypeOK
    BY DEF IInv, PageIInv, CourseIInv, TypeOK
  <1> QED BY <1>1, Invariance, PTL

\* PanelMatchesState: the table is there while a route is active, else the
\* standby text, however fast routes come and go.
THEOREM PanelFollowsState == Spec => []PanelMatchesState
  <1>1. IInv => PanelMatchesState
    BY DEF IInv, PageIInv, PanelInv, PanelMatchesState
  <1> QED BY <1>1, Invariance, PTL

\* The place of a mark on a course of different marks.
LEMMA PositionIs ==
    ASSUME marks.race \in DOMAIN Courses, NEW i \in DOMAIN Courses[marks.race]
    PROVE  Position(Courses[marks.race][i]) = i
  BY CourseIs DEF Position

\* LegsInOrder: the next legs on the display lie behind the present one on
\* the course, whatever was deleted, reached or activated.
THEOREM LegsFollowEachOther == Spec => []LegsInOrder
  <1>1. IInv => LegsInOrder
    <2> SUFFICES ASSUME IInv, marks.race # NoCourse PROVE LegsInOrder
      BY DEF LegsInOrder
    <2>1. marks.race \in DOMAIN Courses /\ Ordered(marks)
      BY DEF IInv, CourseIInv, CourseTypeOK, MarksType
    <2>2. ASSUME NEW v, NEW w, Follows(marks.race, v, w)
          PROVE  Position(v) < Position(w)
      BY <2>1, <2>2, PositionIs DEF Follows
    <2> QED BY <2>1, <2>2 DEF Ordered, LegsInOrder
  <1> QED BY <1>1, Invariance, PTL

\* LegIsSailed: on a route that is sailed from mark to mark the leg on the
\* display ends at the mark that has been activated or just been reached, and
\* begins at the mark before it on the course.
THEOREM LegIsTheOneSailed == Spec => []LegIsSailed
  <1>1. IInv => LegIsSailed
    BY DEF IInv, CourseIInv, RegularInv, OnLeg, LegIsSailed, Cleared
  <1> QED BY <1>1, Invariance, PTL
=============================================================================
