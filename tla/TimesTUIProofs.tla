--------------------------- MODULE TimesTUIProofs ---------------------------
(***************************************************************************)
(* The line chart asks one query at a time and its points stand in order,  *)
(* for all paths, stored configurations, lengths of the chart and times.   *)
(* IInv has to say what the page knows in each state (SchemaInv): that a   *)
(* schema is set and the client ready whenever a query is made, and that   *)
(* the request the plug-in answers is the one of the page's configuration. *)
(* The order of the chart rests on the order of the rows and on the last   *)
(* point of the chart being the one new points are compared with.          *)
(*                                                                         *)
(* Of the client of the data base, which the page relies on: a query ends  *)
(* once, for every set of answers, every chunking and every break of the   *)
(* connection.  Nothing is needed of what the reader makes of the bytes,   *)
(* only that each call that ends the query looks at the two flags first.   *)
(***************************************************************************)
EXTENDS TimesTUI, FluxQuery, WellFoundedInduction, NaturalsInduction,
        SequenceTheorems, TLAPS

-----------------------------------------------------------------------------
(* Sequences of points.                                                    *)

\* A set of positions has a first one.
LEMMA FirstOf ==
    ASSUME NEW S \in SUBSET Nat, S # {}
    PROVE  Min(S) \in S /\ \A y \in S : Min(S) <= y
  <1> DEFINE R == OpToRel(LAMBDA a, b : a < b, Nat)
  <1>1. IsWellFoundedOn(R, Nat)
    BY NatLessThanWellFounded
  <1>2. \A a \in Nat, b \in Nat : a < b => <<a, b>> \in R
    BY DEF OpToRel
  <1> HIDE DEF R
  <1>3. PICK Q : /\ IsWellFoundedOn(Q, Nat)
                 /\ \A a \in Nat, b \in Nat : a < b => <<a, b>> \in Q
    BY <1>1, <1>2, Zenon
  <1>4. PICK x \in S : \A y \in S : ~(<<y, x>> \in Q)
    <2>1. IsWellFoundedOn(Q, Nat) /\ S \subseteq Nat
      BY <1>3
    <2> QED BY <2>1, WFMin
  <1>5. ASSUME NEW y \in S PROVE x <= y
    <2>1. x \in Nat /\ y \in Nat
      OBVIOUS
    <2>2. ~(y < x)
      BY <1>3, <1>4, <2>1, Zenon
    <2> QED BY <2>1, <2>2
  <1> QED BY <1>5 DEF Min

\* t is the end of s that begins behind position k.
End(t, s, k) ==
    /\ k \in Nat /\ Len(t) = Len(s) - k
    /\ \A i \in 1..Len(t) : t[i] = s[i + k]

\* Points in the order of time, the blank ones of a new chart aside.
Ordered(s) ==
    \A i, j \in 1..Len(s) : i < j /\ s[i] # Blank => s[i].stmp < s[j].stmp

\* The end of a sequence from a position on.
LEMMA EndOf ==
    ASSUME NEW S, NEW s \in Seq(S), NEW k \in 1..(Len(s) + 1)
    PROVE  /\ SubSeq(s, k, Len(s)) \in Seq(S)
           /\ End(SubSeq(s, k, Len(s)), s, k - 1)
  <1>1. Len(s) \in Nat
    OBVIOUS
  <1> DEFINE t == SubSeq(s, k, Len(s))
  <1>2. t \in Seq(S) /\ Len(t) = Len(s) - k + 1
    BY <1>1
  <1>3. \A i \in 1..(Len(s) - k + 1) : t[i] = s[k + i - 1]
    BY <1>1
  <1> HIDE DEF t
  <1>4. ASSUME NEW i \in 1..Len(t) PROVE t[i] = s[i + (k - 1)]
    <2>1. i \in 1..(Len(s) - k + 1) /\ k + i - 1 = i + (k - 1)
      BY <1>1, <1>2
    <2> QED BY <1>3, <2>1
  <1>5. k - 1 \in Nat /\ Len(t) = Len(s) - (k - 1)
    BY <1>1, <1>2
  <1> QED BY <1>2, <1>4, <1>5 DEF End, t

\* The last rows are an end of the rows.
LEMMA LastRowsAre ==
    ASSUME NEW S, NEW s \in Seq(S)
    PROVE  LastRows(s) \in Seq(S) /\ \E k \in Nat : End(LastRows(s), s, k)
  <1>1. Len(s) \in Nat /\ NofGraphPoints \in Nat /\ NofGraphPoints >= 1
    BY ChartAssumption
  <1>2. CASE Len(s) > NofGraphPoints
    <2> DEFINE k == Len(s) - NofGraphPoints + 1
    <2>1. k \in 1..(Len(s) + 1) /\ k - 1 \in Nat
      BY <1>1, <1>2
    <2>2. LastRows(s) = SubSeq(s, k, Len(s))
      BY <1>2 DEF LastRows
    <2> HIDE DEF k
    <2> QED BY <2>1, <2>2, EndOf
  <1>3. CASE ~(Len(s) > NofGraphPoints)
    <2>1. LastRows(s) = s
      BY <1>3 DEF LastRows
    <2>2. End(s, s, 0)
      BY <1>1 DEF End
    <2> QED BY <2>1, <2>2
  <1> QED BY <1>2, <1>3

\* The rows younger than what has been drawn are an end of the rows, the first
\* of which is younger, or there is none.
LEMMA YoungerAre ==
    ASSUME NEW S, NEW s \in Seq(S)
    PROVE  /\ Younger(s) \in Seq(S)
           /\ \/ Younger(s) = <<>>
              \/ \E k \in Nat : /\ End(Younger(s), s, k) /\ k + 1 \in 1..Len(s)
                                /\ s[k + 1].stmp > lastStamp
  <1> DEFINE hits == {i \in 1..Len(s) : s[i].stmp > lastStamp}
             k == IF hits # {} THEN Min(hits) ELSE 0
  <1>1. Younger(s) = IF k = 0 THEN <<>> ELSE SubSeq(s, k, Len(s))
    BY DEF Younger, From, SelectInSeq
  <1>2. k # 0 => k \in hits
    <2>1. hits \in SUBSET Nat
      OBVIOUS
    <2> HIDE DEF hits
    <2> QED BY <2>1, FirstOf
  <1>3. CASE k = 0
    BY <1>1, <1>3
  <1>4. CASE k # 0
    <2>1. k \in 1..Len(s) /\ s[k].stmp > lastStamp /\ Len(s) \in Nat
      BY <1>2, <1>4
    <2> HIDE DEF k
    <2>2. k \in 1..(Len(s) + 1) /\ k - 1 \in Nat /\ (k - 1) + 1 = k
      BY <2>1
    <2>3. /\ SubSeq(s, k, Len(s)) \in Seq(S)
          /\ End(SubSeq(s, k, Len(s)), s, k - 1)
      BY <2>2, EndOf
    <2> QED BY <1>1, <1>4, <2>1, <2>2, <2>3
  <1> QED BY <1>3, <1>4

-----------------------------------------------------------------------------
(* The chart.                                                              *)

\* Points, with the time in which they were written, and those of the chart.
Rows   == [of : Paths, stmp : Nat \ {0}]
Points == [of : Paths \cup {""}, stmp : Nat]

\* The rows of a query in the order of time, and a chart that ends with the
\* last point that has been drawn.
ChartInv ==
    /\ lastStamp \in Nat /\ now \in Nat
    /\ collected \in Seq(Rows) /\ Ordered(collected)
    /\ chart \in Seq(Points) /\ Ordered(chart)
    /\ \A i \in 1..Len(chart) : chart[i].stmp <= lastStamp

\* A blank point is no row.
LEMMA RowsAre == Rows \subseteq Points \ {Blank}
  <1> SUFFICES ASSUME NEW r \in Rows PROVE r \in Points /\ r # Blank
    OBVIOUS
  <1>1. r \in Points /\ r.stmp # 0
    BY DEF Rows, Points
  <1>2. Blank.stmp = 0
    BY DEF Blank, Point
  <1> QED BY <1>1, <1>2

\* The end of ordered rows is ordered.
LEMMA EndOrdered ==
    ASSUME NEW s \in Seq(Points), NEW t \in Seq(Points), NEW k \in Nat,
           End(t, s, k), Ordered(s)
    PROVE  Ordered(t)
  <1>1. Len(s) \in Nat /\ Len(t) \in Nat /\ Len(t) = Len(s) - k
    BY DEF End
  <1> SUFFICES ASSUME NEW i \in 1..Len(t), NEW j \in 1..Len(t), i < j, t[i] # Blank
               PROVE  t[i].stmp < t[j].stmp
    BY DEF Ordered
  <1>2. /\ i + k \in 1..Len(s) /\ j + k \in 1..Len(s) /\ i + k < j + k
        /\ t[i] = s[i + k] /\ t[j] = s[j + k]
    BY <1>1 DEF End
  <1> QED BY <1>2 DEF Ordered

\* The points that are drawn are rows in order, younger than those before.
LEMMA NewPointsAre ==
    ASSUME ChartInv
    PROVE  /\ NewPoints \in Seq(Rows) /\ Ordered(NewPoints)
           /\ \A i \in 1..Len(NewPoints) : NewPoints[i].stmp > lastStamp
  <1> DEFINE s == LastRows(collected)
             t == NewPoints
  <1>0. Seq(Rows) \subseteq Seq(Points)
    BY RowsAre
  <1>1. s \in Seq(Rows) /\ Ordered(s)
    <2>1. collected \in Seq(Rows) /\ Ordered(collected)
      BY DEF ChartInv
    <2> HIDE DEF s
    <2>2. s \in Seq(Rows) /\ \E k \in Nat : End(s, collected, k)
      BY <2>1, LastRowsAre DEF s
    <2> QED BY <1>0, <2>1, <2>2, EndOrdered
  <1> HIDE DEF s
  <1>2. t = Younger(s)
    BY DEF NewPoints, s
  <1> HIDE DEF t
  <1>3. t \in Seq(Rows)
    BY <1>1, <1>2, YoungerAre
  <1>4. CASE t = <<>>
    <2>1. Len(t) = 0 /\ 1..0 = {}
      BY <1>4
    <2>2. 1..Len(t) = {}
      BY <2>1
    <2> QED BY <1>3, <2>2 DEF Ordered, t
  <1>5. CASE t # <<>>
    <2>1. PICK k \in Nat : /\ End(t, s, k) /\ k + 1 \in 1..Len(s)
                           /\ s[k + 1].stmp > lastStamp
      BY <1>1, <1>2, <1>5, YoungerAre
    <2>2. Ordered(t)
      BY <1>0, <1>1, <1>3, <2>1, EndOrdered
    <2>3. ASSUME NEW i \in 1..Len(t) PROVE t[i].stmp > lastStamp
      <3>1. /\ i + k \in 1..Len(s) /\ t[i] = s[i + k] /\ k + 1 <= i + k
            /\ Len(s) \in Nat
        BY <1>1, <1>3, <2>1 DEF End
      <3>2. s[i + k] \in Rows /\ s[k + 1] \in Rows
        BY <1>1, <2>1, <3>1
      <3>3. s[k + 1] # Blank /\ s[k + 1].stmp \in Nat /\ s[i + k].stmp \in Nat
        BY <3>2, RowsAre DEF Rows
      <3>4. k + 1 < i + k => s[k + 1].stmp < s[i + k].stmp
        BY <1>1, <2>1, <3>1, <3>3 DEF Ordered
      <3>5. k + 1 = i + k => s[k + 1] = s[i + k]
        OBVIOUS
      <3>6. lastStamp \in Nat
        BY DEF ChartInv
      <3>7. k + 1 < i + k \/ k + 1 = i + k
        BY <3>1
      <3> QED BY <2>1, <3>1, <3>3, <3>4, <3>5, <3>6, <3>7
    <2> QED BY <1>3, <2>2, <2>3 DEF t
  <1> QED BY <1>4, <1>5

\* Drawing keeps the order: the new points are younger than those before.
LEMMA DrawnKeeps ==
    ASSUME ChartInv, chart' = Drawn(NewPoints), collected' = <<>>, now' = now,
           lastStamp' = IF NewPoints = <<>> THEN lastStamp ELSE Last(NewPoints).stmp
    PROVE  ChartInv'
  <1> DEFINE new  == NewPoints
             both == chart \o new
             m == Len(chart)
             n == Len(new)
  <1>1. /\ chart \in Seq(Points) /\ Ordered(chart) /\ lastStamp \in Nat
        /\ \A i \in 1..m : chart[i].stmp <= lastStamp
    BY DEF ChartInv
  <1>2. /\ new \in Seq(Rows) /\ Ordered(new)
        /\ \A i \in 1..n : new[i].stmp > lastStamp
    BY NewPointsAre
  <1> HIDE DEF new
  <1>3. new \in Seq(Points) /\ m \in Nat /\ n \in Nat
    BY <1>1, <1>2, RowsAre
  <1>4. both \in Seq(Points) /\ Len(both) = m + n
    BY <1>1, <1>3
  <1>5. /\ \A i \in 1..m : both[i] = chart[i]
        /\ \A i \in 1..(m + n) : i > m => both[i] = new[i - m]
    <2>1. \A i \in 1..(m + n) :
            both[i] = IF i <= m THEN chart[i] ELSE new[i - m]
      BY <1>1, <1>3, ConcatProperties
    <2> QED BY <1>3, <2>1
  <1> HIDE DEF both
  <1>6. \A i \in 1..(m + n) : both[i] \in Points /\ both[i].stmp \in Nat
    <2>1. \A i \in 1..(m + n) : both[i] \in Points
      BY <1>4
    <2>2. \A p \in Points : p.stmp \in Nat
      BY DEF Points
    <2> QED BY <2>1, <2>2
  <1>7. Ordered(both)
    <2> SUFFICES ASSUME NEW i \in 1..(m + n), NEW j \in 1..(m + n), i < j,
                        both[i] # Blank
                 PROVE  both[i].stmp < both[j].stmp
      BY <1>4 DEF Ordered
    <2>1. CASE j <= m
      <3>1. i \in 1..m /\ j \in 1..m
        BY <1>3, <2>1
      <3> QED BY <1>1, <1>5, <3>1 DEF Ordered
    <2>2. CASE i > m
      <3>1. i - m \in 1..n /\ j - m \in 1..n /\ i - m < j - m /\ j > m
        BY <1>3, <2>2
      <3>2. both[i] = new[i - m] /\ both[j] = new[j - m]
        BY <1>5, <2>2, <3>1
      <3> QED BY <1>2, <3>1, <3>2 DEF Ordered
    <2>3. CASE i <= m /\ j > m
      <3>1. i \in 1..m /\ j - m \in 1..n
        BY <1>3, <2>3
      <3>2. both[i].stmp <= lastStamp /\ both[j].stmp > lastStamp
        BY <1>1, <1>2, <1>5, <2>3, <3>1
      <3> QED BY <1>1, <1>6, <3>2
    <2> QED BY <1>3, <2>1, <2>2, <2>3
  <1>8. /\ lastStamp' \in Nat
        /\ \A i \in 1..(m + n) : both[i].stmp <= lastStamp'
    <2>1. CASE new = <<>>
      <3>1. lastStamp' = lastStamp /\ n = 0
        BY <2>1 DEF new
      <3> QED BY <1>1, <1>3, <1>5, <3>1
    <2>2. CASE new # <<>>
      <3>1. lastStamp' = new[n].stmp
        BY <2>2 DEF Last, new
      <3>2. n \in 1..n
        BY <1>2, <1>3, <2>2
      <3>3. new[n] \in Rows
        BY <1>2, <3>2
      <3>4. new[n].stmp \in Nat /\ new[n].stmp > lastStamp
        BY <1>2, <3>2, <3>3 DEF Rows
      <3>5. \A i \in 1..n : new[i].stmp <= new[n].stmp
        <4> SUFFICES ASSUME NEW i \in 1..n PROVE new[i].stmp <= new[n].stmp
          OBVIOUS
        <4>1. new[i] \in Rows
          BY <1>2
        <4>2. new[i] # Blank /\ new[i].stmp \in Nat
          BY <4>1, RowsAre DEF Rows
        <4>3. i < n => new[i].stmp < new[n].stmp
          BY <1>2, <3>2, <4>2 DEF Ordered
        <4>4. i < n \/ i = n
          BY <1>3
        <4> QED BY <3>4, <4>2, <4>3, <4>4
      <3>6. ASSUME NEW i \in 1..(m + n) PROVE both[i].stmp <= new[n].stmp
        <4>1. CASE i <= m
          <5>1. both[i].stmp <= lastStamp
            BY <1>1, <1>3, <1>5, <4>1
          <5> QED BY <1>1, <1>6, <3>4, <5>1
        <4>2. CASE i > m
          <5>1. i - m \in 1..n
            BY <1>3, <4>2
          <5> QED BY <1>5, <3>5, <4>2, <5>1
        <4> QED BY <1>3, <4>1, <4>2
      <3> QED BY <3>1, <3>4, <3>6
    <2> QED BY <2>1, <2>2
  <1>9. chart' = LastRows(both)
    BY DEF Drawn, both, new
  <1>10. /\ chart' \in Seq(Points)
         /\ \E k \in Nat : End(chart', both, k)
    BY <1>4, <1>9, LastRowsAre
  <1>11. Ordered(chart')
    BY <1>4, <1>7, <1>10, EndOrdered
  <1>12. ASSUME NEW i \in 1..Len(chart') PROVE chart'[i].stmp <= lastStamp'
    <2>1. PICK k \in Nat : End(chart', both, k)
      BY <1>10
    <2>2. i + k \in 1..(m + n) /\ chart'[i] = both[i + k]
      BY <1>3, <1>4, <1>10, <2>1 DEF End
    <2> QED BY <1>8, <2>2
  <1>13. collected' \in Seq(Rows) /\ Ordered(collected')
    BY DEF Ordered
  <1> QED BY <1>8, <1>10, <1>11, <1>12, <1>13 DEF ChartInv, Ordered

\* A row comes behind those before it, and is younger.
LEMMA RowKeeps ==
    ASSUME ChartInv, Row, queries # <<>> => Head(queries) \in Paths
    PROVE  ChartInv'
  <1>1. PICK t \in 1..now :
          /\ collected # <<>> => t > Last(collected).stmp
          /\ collected' = Append(collected, Point(Head(queries), t))
    BY DEF Row
  <1> DEFINE r == Point(Head(queries), t)
             n == Len(collected)
  <1>2. collected \in Seq(Rows) /\ Ordered(collected) /\ now \in Nat /\ n \in Nat
    BY DEF ChartInv
  <1>3. r \in Rows /\ r.stmp = t /\ t \in Nat
    BY <1>1, <1>2 DEF Row, Rows, Point
  <1> HIDE DEF r
  <1>4. /\ collected' \in Seq(Rows) /\ Len(collected') = n + 1
        /\ collected'[n + 1] = r
        /\ \A i \in 1..n : collected'[i] = collected[i]
    BY <1>1, <1>2, <1>3 DEF r
  <1>5. ASSUME NEW i \in 1..n PROVE collected[i].stmp < t
    <2>1. collected # <<>> /\ Last(collected) = collected[n] /\ n \in 1..n
      BY <1>2 DEF Last
    <2>2. collected[i] \in Rows /\ collected[n] \in Rows
      BY <1>2, <2>1
    <2>3. collected[i] # Blank /\ collected[i].stmp \in Nat /\ collected[n].stmp \in Nat
      BY <2>2, RowsAre DEF Rows
    <2>4. collected[n].stmp < t
      BY <1>1, <1>3, <2>1, <2>3
    <2>5. i < n => collected[i].stmp < collected[n].stmp
      BY <1>2, <2>1, <2>3 DEF Ordered
    <2>6. i < n \/ i = n
      BY <1>2
    <2> QED BY <1>3, <2>3, <2>4, <2>5, <2>6
  <1>6. Ordered(collected')
    <2> SUFFICES ASSUME NEW i \in 1..(n + 1), NEW j \in 1..(n + 1), i < j,
                        collected'[i] # Blank
                 PROVE  collected'[i].stmp < collected'[j].stmp
      BY <1>4 DEF Ordered
    <2>1. i \in 1..n /\ collected'[i] = collected[i]
      BY <1>2, <1>4
    <2>2. CASE j = n + 1
      BY <1>3, <1>4, <1>5, <2>1, <2>2
    <2>3. CASE j # n + 1
      <3>1. j \in 1..n /\ collected'[j] = collected[j]
        BY <1>2, <1>4, <2>3
      <3> QED BY <1>2, <2>1, <3>1 DEF Ordered
    <2> QED BY <2>2, <2>3
  <1>7. UNCHANGED <<lastStamp, now, chart>>
    BY DEF Row
  <1> QED BY <1>4, <1>6, <1>7 DEF ChartInv, Ordered

-----------------------------------------------------------------------------
(* The invariant.                                                          *)

\* Between the acknowledgement of the schema and a change of the path the page
\* knows what to ask for; it waits for a schema of the path of its
\* configuration, and the plug-in has not read another request.  A page whose
\* menu is shown asks for nothing.
SchemaInv ==
    /\ locstate = "RDY"
    /\ iface = [selectedpath |-> iface.selectedpath, dbschema |-> iface.dbschema]
    /\ fsm \in {"loading", "initga", "getid"} => title = NoPath
    /\ fsm = "showmenu" => flag = NoRequest /\ request = wxEmptyString
    /\ fsm = "getschema" =>
          flag = conf.path /\ request \in {wxEmptyString, conf.path}
    /\ fsm \in {"getdata", "showdata"} =>
          /\ conf.path \in Paths \ {""}
          /\ schema = conf.path /\ htmlTitle = conf.path

\* One query is on its way while the page is in "getdata", and the rows are
\* those of the query.
QueryInv ==
    /\ queries = IF fsm = "getdata" THEN <<conf.path>> ELSE <<>>
    /\ \A i \in 1..Len(collected) : fsm = "getdata" /\ collected[i].of = conf.path
    /\ title \in {NoPath, conf.path}

\* The inductive invariant.
IInv == SchemaInv /\ QueryInv /\ ChartInv

-----------------------------------------------------------------------------
(* The page.                                                               *)

\* The states in which a page hears the calls of plug-in, menu and client.
LEMMA Hears ==
    /\ Can("setalldb") => fsm = "getalldb"
    /\ Can("rescan") => fsm = "showmenu"
    /\ Can("selected") => fsm = "showmenu"
    /\ Can("ackschema") => fsm = "getschema"
    /\ Can("newdata") => fsm = "getdata"
    /\ Can("errdata") => fsm = "getdata"
    /\ Can("chgconf") => fsm \in ChangeStates
    /\ Can("closing") => fsm \in {"nodata", "showdata"}
  <1>1. \A x \in Transitions :
          /\ x[1] = "setalldb" => x[2] = "getalldb"
          /\ x[1] = "rescan" => x[2] = "showmenu"
          /\ x[1] = "selected" => x[2] = "showmenu"
          /\ x[1] = "ackschema" => x[2] = "getschema"
          /\ x[1] = "newdata" => x[2] = "getdata"
          /\ x[1] = "errdata" => x[2] = "getdata"
          /\ x[1] = "chgconf" => x[2] \in ChangeStates
          /\ x[1] = "closing" => x[2] \in {"nodata", "showdata"}
    BY DEF Transitions
  <1> QED BY <1>1 DEF Can, CanIn

\* A call that passes an argument stores it.
LEMMA Stores ==
    ASSUME SchemaInv
    PROVE  /\ \A p : Stored("setselected", p) = [iface EXCEPT !.selectedpath = p]
           /\ \A p : Stored("ackschema", p) = [iface EXCEPT !.dbschema = p]
  <1>1. \A t \in CallTables \ {PathCalls} : "setselected" \notin DOMAIN t
    BY DEF CallTables, SchemaCalls, DataCalls, ReadyCalls, StartLineCalls,
           RaceMarkCalls, MuteCalls, CommonCalls
  <1>2. \A t \in CallTables \ {SchemaCalls} : "ackschema" \notin DOMAIN t
    BY DEF CallTables, PathCalls, DataCalls, ReadyCalls, StartLineCalls,
           RaceMarkCalls, MuteCalls, CommonCalls
  <1>3. /\ "setselected" \in DOMAIN PathCalls
        /\ PathCalls["setselected"].field = "selectedpath"
    BY DEF PathCalls, Plain
  <1>4. "ackschema" \in DOMAIN SchemaCalls /\ SchemaCalls["ackschema"].field = "dbschema"
    BY DEF SchemaCalls, Plain
  <1>5. PathCalls \in CallTables /\ SchemaCalls \in CallTables
    BY DEF CallTables
  <1>6. Calls["setselected"] = PathCalls["setselected"]
    BY <1>1, <1>3, <1>5 DEF Calls
  <1>7. Calls["ackschema"] = SchemaCalls["ackschema"]
    BY <1>2, <1>4, <1>5 DEF Calls
  <1>8. DOMAIN iface = {"selectedpath", "dbschema"}
    BY DEF SchemaInv
  <1>9. /\ Calls["setselected"].field = "selectedpath"
        /\ Calls["ackschema"].field = "dbschema"
    BY <1>3, <1>4, <1>6, <1>7
  <1> QED BY <1>8, <1>9 DEF Stored

\* A step of which the page does not hear, or hears only what it ignores.
LEMMA PageStays ==
    ASSUME IInv, UNCHANGED <<fsm, flag, conf, title, dbVars>>,
           iface' = [selectedpath |-> iface'.selectedpath, dbschema |-> iface'.dbschema],
           request' \in {request, wxEmptyString, flag}, now' \in Nat
    PROVE  IInv'
  <1>1. SchemaInv'
    BY DEF IInv, SchemaInv, dbVars, NoRequest, wxEmptyString
  <1>2. QueryInv'
    BY DEF IInv, QueryInv, dbVars
  <1>3. ChartInv'
    BY DEF IInv, ChartInv, Ordered, dbVars
  <1> QED BY <1>1, <1>2, <1>3 DEF IInv

\* In particular, one that leaves the page as it is.
LEMMA PageUnchanged ==
    ASSUME IInv, UNCHANGED jsVars, request' \in {request, wxEmptyString, flag},
           now' \in Nat
    PROVE  IInv'
  <1>1. /\ iface' = [selectedpath |-> iface'.selectedpath, dbschema |-> iface'.dbschema]
        /\ UNCHANGED <<fsm, flag, conf, title, dbVars>>
    BY DEF IInv, SchemaInv, jsVars, confVars
  <1> QED BY <1>1, PageStays

\* A step that leaves chart and rows alone.
LEMMA ChartStays ==
    ASSUME IInv, UNCHANGED <<collected, lastStamp, chart, now>>
    PROVE  ChartInv'
  BY DEF IInv, ChartInv, Ordered

\* Outside of "getdata" there are no rows and no queries.
LEMMA NothingAsked ==
    ASSUME IInv, fsm # "getdata"
    PROVE  queries = <<>> /\ collected = <<>> /\ 1..Len(collected) = {}
  <1>1. collected \in Seq(Rows) /\ queries = <<>>
    BY DEF IInv, ChartInv, QueryInv
  <1>2. \A i \in 1..Len(collected) : FALSE
    BY DEF IInv, QueryInv
  <1>3. Len(collected) = 0
    <2>1. Len(collected) \in Nat
      BY <1>1
    <2>2. 1 \notin 1..Len(collected)
      BY <1>2
    <2> QED BY <2>1, <2>2
  <1> QED BY <1>1, <1>2, <1>3

\* The page is loaded, and starts to ask.
LEMMA LoadKeeps ==
    ASSUME IInv, Loaded \/ InitOk
    PROVE  IInv'
  <1>1. CASE Loaded
    <2>1. /\ fsm = "loading" /\ fsm' = "initga" /\ conf' = EmptyConf
          /\ chart' = [i \in 1 .. NofGraphPoints |-> Blank]
          /\ UNCHANGED <<iface, title, locstate, queries, collected, lastStamp, now>>
      BY <1>1 DEF Loaded, OnInitga, InitPaths, InitData
    <2>2. Blank \in Points /\ Blank.stmp = 0 /\ NofGraphPoints \in Nat
      BY ChartAssumption DEF Blank, Point, Points
    <2> HIDE DEF Blank
    <2>3. /\ chart' \in Seq(Points) /\ Len(chart') = NofGraphPoints
          /\ \A i \in 1..Len(chart') : chart'[i] = Blank
      BY <2>1, <2>2
    <2>4. ChartInv'
      <3>1. /\ lastStamp' \in Nat /\ now' \in Nat
            /\ collected' \in Seq(Rows) /\ Ordered(collected')
        BY <2>1 DEF IInv, ChartInv
      <3>2. Ordered(chart')
        BY <2>3 DEF Ordered
      <3>3. \A i \in 1..Len(chart') : chart'[i].stmp <= lastStamp'
        BY <2>2, <2>3, <3>1
      <3> QED BY <2>3, <3>1, <3>2, <3>3 DEF ChartInv, Ordered
    <2>5. SchemaInv'
      BY <2>1 DEF IInv, SchemaInv
    <2>6. QueryInv'
      BY <2>1, NothingAsked DEF IInv, SchemaInv, QueryInv
    <2> QED BY <2>4, <2>5, <2>6 DEF IInv
  <1>2. CASE InitOk
    <2>1. /\ fsm = "initga" /\ fsm' = "getid"
          /\ UNCHANGED <<iface, conf, title, locstate, queries, collected, lastStamp,
                         chart, now>>
      BY <1>2 DEF InitOk, confVars, dbVars
    <2>2. SchemaInv'
      BY <2>1 DEF IInv, SchemaInv
    <2>3. QueryInv'
      BY <2>1, NothingAsked DEF IInv, QueryInv
    <2> QED BY <2>1, <2>2, <2>3, ChartStays DEF IInv
  <1> QED BY <1>1, <1>2

\* The program is started again.
LEMMA RestartKeeps ==
    ASSUME IInv, Restart
    PROVE  IInv'
  <1>1. /\ fsm' = "loading" /\ title' = NoPath /\ locstate' = "RDY"
        /\ iface' = [selectedpath |-> NoPath, dbschema |-> ""]
        /\ queries' = <<>> /\ collected' = <<>> /\ lastStamp' = 0
        /\ chart' = <<>> /\ now' = now
    BY DEF Restart, ConfRestart
  <1>2. /\ collected' \in Seq(Rows) /\ chart' \in Seq(Points)
        /\ 1..Len(collected') = {} /\ 1..Len(chart') = {}
    <2>1. Len(<<>>) = 0 /\ 1..0 = {}
      OBVIOUS
    <2>2. <<>> \in Seq(Rows) /\ <<>> \in Seq(Points)
      OBVIOUS
    <2> QED BY <1>1, <2>1, <2>2
  <1>3. ChartInv'
    BY <1>1, <1>2 DEF IInv, ChartInv, Ordered
  <1>4. SchemaInv'
    BY <1>1 DEF SchemaInv
  <1>5. QueryInv'
    BY <1>1, <1>2 DEF QueryInv
  <1> QED BY <1>3, <1>4, <1>5 DEF IInv

\* The answer to the question for an identity: the configuration that has been
\* kept is loaded.
LEMMA SetidKeeps ==
    ASSUME IInv, Setid, request' = wxEmptyString, now' = now
    PROVE  IInv'
  <1>1. CASE fsm # "getid"
    <2>1. UNCHANGED jsVars
      BY <1>1 DEF Setid, jsVars
    <2> QED BY <2>1, PageUnchanged DEF IInv, ChartInv
  <1>2. CASE fsm = "getid"
    <2>1. iface' = iface /\ UNCHANGED dbVars
      BY <1>2 DEF Setid
    <2>2. \/ /\ perspath' = TRUE /\ title' = NoPath
             /\ fsm' = "getschema" /\ flag' = conf'.path
          \/ title' = title /\ fsm' = "getalldb"
      BY <1>2 DEF Setid, SetMenuRunTime, SetMenu, PathAsked
    <2>3. title = NoPath
      BY <1>2 DEF IInv, SchemaInv
    <2>4. SchemaInv'
      BY <2>1, <2>2 DEF IInv, SchemaInv, dbVars
    <2>5. QueryInv'
      BY <1>2, <2>1, <2>2, <2>3, NothingAsked DEF QueryInv, dbVars
    <2>6. ChartInv'
      BY <2>1, ChartStays DEF dbVars
    <2> QED BY <2>4, <2>5, <2>6 DEF IInv
  <1> QED BY <1>1, <1>2

\* The list of paths becomes a menu.
LEMMA SetalldbKeeps ==
    ASSUME IInv, Setalldb(discovered), request' = wxEmptyString, now' = now
    PROVE  IInv'
  <1>1. CASE Refused("setalldb")
    <2>1. UNCHANGED jsVars
      BY <1>1 DEF Setalldb, Refused, jsVars
    <2> QED BY <2>1, PageUnchanged DEF IInv, ChartInv
  <1>2. CASE ~Refused("setalldb")
    <2>1. /\ Can("setalldb") /\ fsm' = "showmenu" /\ flag' = NoRequest
          /\ title' = NoPath /\ UNCHANGED <<iface, conf, dbVars>>
      BY <1>2 DEF Setalldb, SetMenuAllPaths, SetMenu
    <2>2. fsm = "getalldb"
      BY <2>1, Hears
    <2>3. SchemaInv'
      BY <2>1 DEF IInv, SchemaInv, dbVars
    <2>4. QueryInv'
      BY <2>1, <2>2, NothingAsked DEF QueryInv, dbVars
    <2>5. ChartInv'
      BY <2>1, ChartStays DEF dbVars
    <2> QED BY <2>3, <2>4, <2>5 DEF IInv
  <1> QED BY <1>1, <1>2

\* The user picks a path, or asks for another one.
LEMMA MenuKeeps ==
    ASSUME IInv, Click
    PROVE  IInv'
  <1>1. UNCHANGED <<request, now>>
    BY DEF Click, cppVars
  <1>2. PICK call \in MenuCalls :
           \/ Selected(call[2]) \/ AskAgain("chgconf") \/ AskAgain("rescan")
    BY DEF Click
  <1>3. ASSUME NEW p, Selected(p) PROVE IInv'
    <2>1. iface' = [iface EXCEPT !.selectedpath = p]
      BY <1>3, Stores DEF IInv, Selected
    <2>2. iface = [selectedpath |-> iface.selectedpath, dbschema |-> iface.dbschema]
      BY DEF IInv, SchemaInv
    <2>3. iface' = [selectedpath |-> iface'.selectedpath, dbschema |-> iface'.dbschema]
          /\ iface'.selectedpath = p
      BY <2>1, <2>2
    <2>4. CASE Refused("selected")
      BY <1>1, <2>3, <2>4, PageStays DEF Refused, confVars, IInv, ChartInv
    <2>5. CASE ~Refused("selected")
      <3>1. /\ Can("selected") /\ fsm' = "getschema" /\ title' = NoPath
            /\ perspath' = perspath /\ path' = p /\ conf' = ConfOfSelected(p)
            /\ flag' = (IF perspath' THEN conf'.path ELSE path')
            /\ UNCHANGED dbVars
        BY <1>3, <2>3, <2>5 DEF Selected, SetMenuRunTime, SetMenu, PathAsked
      <3>2. conf'.path = p
        <4>1. /\ DefaultsOf(p).path = p /\ DefaultsOf(p).version = 1
              /\ DefaultsOf(p).sameKeys /\ EmptyConf.path = NoPath
              /\ NoConf.version = 0
          BY DEF DefaultsOf, EmptyConf, NoConf
        <4>2. CheckConf(DefaultsOf(p)) = NoConf => p = NoPath
          BY <4>1 DEF CheckConf
        <4> QED BY <3>1, <4>1, <4>2 DEF ConfOfSelected
      <3>3. fsm = "showmenu"
        BY <3>1, Hears
      <3>4. request = wxEmptyString /\ locstate = "RDY"
        BY <3>3 DEF IInv, SchemaInv
      <3>5. SchemaInv'
        BY <1>1, <2>3, <3>1, <3>2, <3>4 DEF SchemaInv, dbVars
      <3>6. QueryInv'
        BY <3>1, <3>3, NothingAsked DEF QueryInv, dbVars
      <3>7. ChartInv'
        BY <1>1, <3>1, ChartStays DEF dbVars
      <3> QED BY <3>5, <3>6, <3>7 DEF IInv
    <2> QED BY <2>4, <2>5
  <1>4. ASSUME NEW e \in {"chgconf", "rescan"}, AskAgain(e) PROVE IInv'
    <2>1. CASE Refused(e)
      <3>1. UNCHANGED jsVars
        BY <1>4, <2>1 DEF AskAgain, Refused, jsVars
      <3> QED BY <1>1, <3>1, PageUnchanged DEF IInv, ChartInv
    <2>2. CASE ~Refused(e)
      <3>1. /\ Can(e) /\ fsm' = "getalldb" /\ title' = NoPath
            /\ UNCHANGED <<iface, dbVars>>
        BY <1>4, <2>2 DEF AskAgain, SetMenuBackToLoading, SetMenu
      <3>2. fsm # "getdata"
        BY <3>1, Hears DEF ChangeStates
      <3>3. SchemaInv'
        BY <3>1 DEF IInv, SchemaInv, dbVars
      <3>4. QueryInv'
        BY <3>1, <3>2, NothingAsked DEF QueryInv, dbVars
      <3>5. ChartInv'
        BY <1>1, <3>1, ChartStays DEF dbVars
      <3> QED BY <3>3, <3>4, <3>5 DEF IInv
    <2> QED BY <2>1, <2>2
  <1> QED BY <1>2, <1>3, <1>4
\* What is appended to nothing.
LEMMA OnlyOne == \A x : Append(<<>>, x) = <<x>>
  <1> SUFFICES ASSUME NEW x PROVE Append(<<>>, x) = <<x>>
    OBVIOUS
  <1>1. <<>> \in Seq({x}) /\ Len(<<>>) = 0
    OBVIOUS
  <1> DEFINE s == Append(<<>>, x)
  <1>2. s \in Seq({x}) /\ Len(s) = 1 /\ s[1] = x
    BY <1>1, AppendProperties
  <1> HIDE DEF s
  <1>3. s = <<s[1]>>
    BY <1>2
  <1> QED BY <1>2, <1>3 DEF s

\* The query that is made while no other one is on its way.
LEMMA OneAsked ==
    ASSUME NEW others, others = <<>>, DataQuery(others), locstate' = "RDY",
           schema' # ""
    PROVE  queries' = <<schema'>>
  <1>1. queries' = Append(<<>>, schema')
    BY DEF DataQuery
  <1> QED BY <1>1, OnlyOne

\* The answer of the plug-in: the page makes the first query for the path it
\* has asked the schema of, or throws.
LEMMA AckschemaKeeps ==
    ASSUME IInv, request \in Paths, Ackschema(SchemaOf(request)),
           request' = wxEmptyString, now' = now
    PROVE  IInv'
  <1> DEFINE p == SchemaOf(request)
  <1>1. iface' = [iface EXCEPT !.dbschema = p]
    BY Stores DEF IInv, Ackschema
  <1>2. iface = [selectedpath |-> iface.selectedpath, dbschema |-> iface.dbschema]
    BY DEF IInv, SchemaInv
  <1>3. /\ iface' = [selectedpath |-> iface'.selectedpath,
                     dbschema |-> iface'.dbschema]
        /\ iface'.dbschema = p
    BY <1>1, <1>2
  <1>4. CASE UNCHANGED <<fsm, flag, confVars, dbVars>>
    <2>1. UNCHANGED <<fsm, flag, conf, title, dbVars>>
      BY <1>4 DEF confVars
    <2> QED BY <1>3, <2>1, PageStays DEF IInv, ChartInv
  <1>5. CASE Can("ackschema") /\ p # ""
    <2>1. /\ fsm = "getschema" /\ fsm' = "getdata" /\ FirstQuery
          /\ UNCHANGED <<conf, collected, lastStamp, chart>>
      <3>1. ~Refused("ackschema")
        BY <1>5 DEF Refused
      <3> QED BY <1>5, <3>1, Hears DEF Ackschema
    <2>2. conf.path = p /\ p \in Paths \ {""} /\ locstate = "RDY"
      BY <1>5, <2>1 DEF IInv, SchemaInv, SchemaOf, wxEmptyString
    <2>3. /\ schema' = conf.path /\ title' = conf.path /\ htmlTitle' = conf.path
          /\ locstate' = locstate
      BY <1>3, <2>1, <2>2
      DEF FirstQuery, OnWaitdataFinalCheck, TitleShown, NoPath
    <2>4. queries' = <<conf.path>>
      <3>1. queries = <<>>
        BY <2>1, NothingAsked
      <3>2. schema' # "" /\ locstate' = "RDY" /\ DataQuery(queries)
        BY <2>1, <2>2, <2>3 DEF FirstQuery
      <3> QED BY <2>3, <3>1, <3>2, OneAsked
    <2>5. SchemaInv'
      BY <1>3, <2>1, <2>2, <2>3 DEF SchemaInv
    <2>6. QueryInv'
      BY <2>1, <2>3, <2>4, NothingAsked DEF QueryInv
    <2>7. ChartInv'
      BY <2>1, ChartStays
    <2> QED BY <2>5, <2>6, <2>7 DEF IInv
  <1>6. \/ UNCHANGED <<fsm, flag, confVars, dbVars>>
        \/ Can("ackschema") /\ p # ""
    BY DEF Ackschema, Refused
  <1> QED BY <1>4, <1>5, <1>6

\* What the page knows of the query that is on its way.
LEMMA Asked ==
    ASSUME IInv, fsm \in {"getdata", "showdata"}
    PROVE  /\ conf.path \in Paths \ {""} /\ schema = conf.path
           /\ htmlTitle = conf.path /\ locstate = "RDY"
           /\ fsm = "getdata" => queries = <<conf.path>> /\ Tail(queries) = <<>>
           /\ iface = [selectedpath |-> iface.selectedpath,
                       dbschema |-> iface.dbschema]
  <1>1. fsm = "getdata" => queries = <<conf.path>>
    BY DEF IInv, QueryInv
  <1>2. Tail(<<conf.path>>) = <<>>
    OBVIOUS
  <1> QED BY <1>1, <1>2 DEF IInv, SchemaInv

\* The end of a query: what has been collected is drawn.
LEMMA EndOfQueryKeeps ==
    ASSUME IInv, EndOfQuery
    PROVE  IInv'
  <1>1. UNCHANGED <<request, now, iface>>
    BY DEF EndOfQuery, Newdata, cppVars
  <1>2. CASE Refused("newdata")
    <2>1. UNCHANGED jsVars
      BY <1>1, <1>2 DEF Refused, jsVars
    <2> QED BY <1>1, <2>1, PageUnchanged DEF IInv, ChartInv
  <1>3. CASE ~Refused("newdata")
    <2>1. /\ Can("newdata") /\ locstate' = "RDY" /\ fsm' = "showdata"
          /\ chart' = Drawn(NewPoints)
          /\ lastStamp' = IF NewPoints = <<>> THEN lastStamp
                                              ELSE Last(NewPoints).stmp
          /\ collected' = <<>> /\ queries' = Tail(queries)
          /\ title' = (IF NewPoints = <<>> THEN title ELSE htmlTitle)
          /\ UNCHANGED <<conf, schema, htmlTitle>>
      BY <1>3 DEF EndOfQuery, Newdata, UpdateTitleWithValue
    <2>2. fsm = "getdata"
      BY <2>1, Hears
    <2>3. title' \in {NoPath, conf.path}
      BY <2>1, <2>2, Asked DEF IInv, QueryInv
    <2>4. SchemaInv'
      BY <1>1, <2>1, <2>2, Asked DEF SchemaInv
    <2>5. QueryInv'
      <3>1. Len(collected') = 0 /\ 1..0 = {}
        BY <2>1
      <3>2. queries' = <<>>
        BY <2>1, <2>2, Asked
      <3>3. 1..Len(collected') = {}
        BY <3>1
      <3> QED BY <2>1, <2>3, <3>2, <3>3 DEF QueryInv
    <2>6. ChartInv'
      BY <1>1, <2>1, DrawnKeeps DEF IInv
    <2> QED BY <2>4, <2>5, <2>6 DEF IInv
  <1> QED BY <1>2, <1>3

\* An error: what has been collected is dropped, and the query made again.
LEMMA FailKeeps ==
    ASSUME IInv, Fail
    PROVE  IInv'
  <1>1. UNCHANGED <<request, now, iface>>
    BY DEF Fail, Errdata, cppVars
  <1>2. CASE Refused("errdata")
    <2>1. UNCHANGED jsVars
      BY <1>1, <1>2 DEF Refused, jsVars
    <2> QED BY <1>1, <2>1, PageUnchanged DEF IInv, ChartInv
  <1>3. CASE ~Refused("errdata")
    <2>1. /\ Can("errdata") /\ RetryAfterError
          /\ UNCHANGED <<fsm, flag, conf, lastStamp, chart>>
      BY <1>3 DEF Fail, Errdata
    <2>2. fsm = "getdata"
      BY <2>1, Hears
    <2>3. /\ locstate' = "RDY" /\ collected' = <<>> /\ title' = NoPath
          /\ UNCHANGED <<schema, htmlTitle>> /\ DataQuery(Tail(queries))
      BY <2>1 DEF RetryAfterError, ForRetry, SetMenuBackToLoading, SetMenu
    <2>4. queries' = <<conf.path>>
      <3>1. schema' = conf.path /\ schema' # "" /\ Tail(queries) = <<>>
        BY <2>2, <2>3, Asked
      <3> QED BY <2>3, <3>1, OneAsked
    <2>5. Len(collected') = 0 /\ collected' \in Seq(Rows) /\ 1..0 = {}
      BY <2>3
    <2>6. 1..Len(collected') = {}
      BY <2>5
    <2>7. SchemaInv'
      BY <1>1, <2>1, <2>2, <2>3, Asked DEF SchemaInv
    <2>8. QueryInv'
      BY <2>1, <2>2, <2>3, <2>4, <2>6 DEF QueryInv
    <2>9. ChartInv'
      BY <1>1, <2>1, <2>5, <2>6 DEF IInv, ChartInv, Ordered
    <2> QED BY <2>7, <2>8, <2>9 DEF IInv
  <1> QED BY <1>2, <1>3

\* The timer makes the next query.
LEMMA PollShowdataKeeps ==
    ASSUME IInv, PollShowdata
    PROVE  IInv'
  <1>1. /\ fsm = "showdata" /\ fsm' = "getdata" /\ DataQuery(queries)
        /\ UNCHANGED <<locstate, schema, htmlTitle, iface, conf, title, collected,
                       lastStamp, chart, now>>
    BY DEF PollShowdata, confVars
  <1>2. queries' = <<conf.path>>
    <2>1. schema' = conf.path /\ schema' # "" /\ locstate' = "RDY"
      BY <1>1, Asked
    <2>2. queries = <<>>
      BY <1>1, NothingAsked
    <2> QED BY <1>1, <2>1, <2>2, OneAsked
  <1>3. SchemaInv'
    BY <1>1, Asked DEF SchemaInv
  <1>4. QueryInv'
    BY <1>1, <1>2, NothingAsked DEF IInv, QueryInv
  <1>5. ChartInv'
    BY <1>1, ChartStays
  <1> QED BY <1>3, <1>4, <1>5 DEF IInv
\* A row is one of the query that is on its way.
LEMMA RowOfTheQuery ==
    ASSUME IInv, Row
    PROVE  IInv'
  <1>1. /\ queries # <<>>
        /\ UNCHANGED <<fsm, flag, iface, conf, title, locstate, schema, htmlTitle,
                       queries, request>>
    BY DEF Row, confVars, cppVars
  <1>2. fsm = "getdata" /\ queries = <<conf.path>>
    BY <1>1 DEF IInv, QueryInv
  <1>3. Head(queries) = conf.path /\ conf.path \in Paths
    <2>1. Head(<<conf.path>>) = conf.path
      OBVIOUS
    <2> QED BY <1>2, <2>1, Asked
  <1>4. ChartInv'
    BY <1>3, RowKeeps DEF IInv
  <1>5. SchemaInv'
    BY <1>1 DEF IInv, SchemaInv
  <1>6. QueryInv'
    <2>1. PICK t : collected' = Append(collected, Point(conf.path, t))
      BY <1>3 DEF Row
    <2>2. Point(conf.path, t).of = conf.path
      BY DEF Point
    <2>3. collected \in Seq(Rows)
      BY DEF IInv, ChartInv
    <2>4. \A i \in 1..Len(collected) : collected[i].of = conf.path
      BY DEF IInv, QueryInv
    <2>5. ASSUME NEW i \in 1..Len(collected') PROVE collected'[i].of = conf.path
      <3> DEFINE r == Point(conf.path, t)
      <3> HIDE DEF r
      <3>1. collected' = Append(collected, r) /\ r.of = conf.path
        BY <2>1, <2>2 DEF r
      <3>2. collected'[i] = (IF i <= Len(collected) THEN collected[i] ELSE r)
            /\ (i <= Len(collected) => i \in 1..Len(collected))
        BY <2>3, <3>1
      <3> QED BY <2>4, <3>1, <3>2
    <2> QED BY <1>1, <1>2, <2>5 DEF IInv, QueryInv
  <1> QED BY <1>4, <1>5, <1>6 DEF IInv

-----------------------------------------------------------------------------
(* The plug-in.                                                            *)

\* The plug-in looks at the page, and answers what it has read there.
LEMMA TickKeeps ==
    ASSUME IInv, Poll \/ Serve
    PROVE  IInv'
  <1>1. CASE Poll
    <2>1. UNCHANGED jsVars /\ request' = flag /\ now' = now
      BY <1>1 DEF Poll, ReadPage
    <2> QED BY <2>1, PageUnchanged DEF IInv, ChartInv
  <1>2. CASE Serve
    <2>1. now' = now
      BY <1>2 DEF Serve
    <2>2. CASE UNCHANGED jsVars /\ request' = wxEmptyString
      BY <2>1, <2>2, PageUnchanged DEF IInv, ChartInv
    <2>3. CASE request = "getid" /\ Answered("GETID", source) /\ Setid
      BY <2>1, <2>3, SetidKeeps DEF Answered, EndTick
    <2>4. CASE ServeGetalldb /\ Setalldb(discovered)
      BY <2>1, <2>4, SetalldbKeeps DEF ServeGetalldb, Answered, EndTick
    <2>5. CASE GiveSchema(Paths) /\ Ackschema(SchemaOf(request))
      BY <2>1, <2>5, AckschemaKeeps DEF GiveSchema, Answered, EndTick
    <2>6. NothingToServe => request' = wxEmptyString
      BY DEF NothingToServe, EndTick
    <2>7. CollectPaths => request' = wxEmptyString
      BY DEF CollectPaths, Unanswered, EndTick
    <2>8. CollectSchemas(Paths) => request' = wxEmptyString
      BY DEF CollectSchemas, Unanswered, EndTick
    <2> QED BY <1>2, <2>2, <2>3, <2>4, <2>5, <2>6, <2>7, <2>8 DEF Serve
  <1> QED BY <1>1, <1>2

\* A path turns up, a point is written, the window is closed.
LEMMA OthersKeep ==
    ASSUME IInv, TurnsUp \/ Write \/ Close
    PROVE  IInv'
  <1>1. CASE TurnsUp
    BY <1>1, PageUnchanged DEF TurnsUp, PathTurnsUp, cppVars, IInv, ChartInv
  <1>2. CASE Write
    <2>1. now' = now + 1 /\ UNCHANGED <<jsVars, request>> /\ now \in Nat
      BY <1>2 DEF Write, cppVars, IInv, ChartInv
    <2>2. now' \in Nat
      BY <2>1
    <2> QED BY <2>1, <2>2, PageUnchanged
  <1>3. CASE Close
    <2>1. UNCHANGED <<request, now>>
      BY <1>3 DEF Close, CloseInstruJS
    <2>2. CASE UNCHANGED jsVars
      BY <2>1, <2>2, PageUnchanged DEF IInv, ChartInv
    <2>3. CASE Closing /\ Can("closing")
      <3>1. fsm' = "halt" /\ UNCHANGED <<flag, iface, conf, title, dbVars>>
        BY <2>3 DEF Closing, Refused
      <3>2. fsm # "getdata"
        BY <2>3, Hears
      <3>3. SchemaInv'
        BY <3>1 DEF IInv, SchemaInv, dbVars
      <3>4. QueryInv'
        BY <3>1, <3>2, NothingAsked DEF IInv, QueryInv, dbVars
      <3>5. ChartInv'
        BY <2>1, <3>1, ChartStays DEF dbVars
      <3> QED BY <3>3, <3>4, <3>5 DEF IInv
    <2>4. Closing /\ ~Can("closing") => UNCHANGED jsVars
      BY DEF Closing, Refused, jsVars
    <2> QED BY <1>3, <2>2, <2>3, <2>4 DEF Close
  <1> QED BY <1>1, <1>2, <1>3

-----------------------------------------------------------------------------
(* The theorems.                                                           *)

\* The first page has asked and drawn nothing.
LEMMA InitIInv == Init => IInv
  <1> SUFFICES ASSUME Init PROVE IInv
    OBVIOUS
  <1>1. /\ fsm = "loading" /\ title = NoPath /\ locstate = "RDY"
        /\ iface = [selectedpath |-> NoPath, dbschema |-> ""]
        /\ queries = <<>> /\ collected = <<>> /\ lastStamp = 0
        /\ chart = <<>> /\ now = 0
    BY DEF Init, PageInit, ConfInit
  <1>2. /\ collected \in Seq(Rows) /\ chart \in Seq(Points)
        /\ 1..Len(collected) = {} /\ 1..Len(chart) = {}
    <2>1. Len(<<>>) = 0 /\ 1..0 = {}
      OBVIOUS
    <2>2. <<>> \in Seq(Rows) /\ <<>> \in Seq(Points)
      OBVIOUS
    <2> QED BY <1>1, <2>1, <2>2
  <1>3. ChartInv
    BY <1>1, <1>2 DEF ChartInv, Ordered
  <1>4. SchemaInv
    BY <1>1 DEF SchemaInv
  <1>5. QueryInv
    BY <1>1, <1>2 DEF QueryInv
  <1> QED BY <1>3, <1>4, <1>5 DEF IInv

\* Every step keeps it.
LEMMA NextIInv == IInv /\ [Next]_vars => IInv'
  <1> SUFFICES ASSUME IInv, [Next]_vars PROVE IInv'
    OBVIOUS
  <1>1. CASE UNCHANGED vars
    BY <1>1, PageUnchanged DEF vars, cppVars, IInv, ChartInv
  <1>2. CASE Next
    BY <1>2, LoadKeeps, TickKeeps, RowOfTheQuery, EndOfQueryKeeps, FailKeeps,
       PollShowdataKeeps, MenuKeeps, OthersKeep, RestartKeeps DEF Next
  <1> QED BY <1>1, <1>2

\* The inductive invariant holds in every reachable state.
THEOREM Invariance == Spec => []IInv
  <1> QED BY InitIInv, NextIInv, PTL DEF Spec

\* At most one query is on its way, for the path the user has picked, and what
\* has been collected are its rows; the title names no other path.
THEOREM AsksOneQuery == Spec => []OneQuery
  <1>1. ASSUME IInv PROVE OneQuery
    <2>1. queries = IF fsm = "getdata" THEN <<conf.path>> ELSE <<>>
      BY <1>1 DEF IInv, QueryInv
    <2>2. Len(<<conf.path>>) = 1 /\ Head(<<conf.path>>) = conf.path /\ Len(<<>>) = 0
      OBVIOUS
    <2>3. Range(collected) = {collected[i] : i \in 1..Len(collected)}
      BY <1>1 DEF IInv, ChartInv, Range
    <2>4. \A r \in Range(collected) : fsm = "getdata" /\ r.of = conf.path
      BY <1>1, <2>3 DEF IInv, QueryInv
    <2> QED BY <1>1, <2>1, <2>2, <2>4 DEF IInv, QueryInv, OneQuery
  <1> QED BY <1>1, Invariance, PTL

\* The points on the chart stand in the order of time, none of them twice.
THEOREM ChartStaysInOrder == Spec => []ChartInOrder
  <1>1. ASSUME IInv PROVE ChartInOrder
    <2>1. DOMAIN chart = 1..Len(chart) /\ Ordered(chart)
      BY <1>1 DEF IInv, ChartInv
    <2> QED BY <2>1 DEF Ordered, ChartInOrder
  <1> QED BY <1>1, Invariance, PTL

-----------------------------------------------------------------------------
(* One query of the client.                                                *)

\* EndedOnce is inductive once the types of what it speaks of are known.
EndInv ==
    /\ ended \in Seq({"error", "complete"})
    /\ state \in {"open", "failed", "completed"}
    /\ EndedOnce

\* One call to a page that has not been told an end yet.
LEMMA OneCall ==
    ASSUME EndInv, ~finished, NEW call \in {"error", "complete"}
    PROVE  /\ Append(ended, call) \in Seq({"error", "complete"})
           /\ Len(Append(ended, call)) = 1
           /\ Append(ended, call) # <<>>
  <1>1. ended = <<>>
    BY DEF EndInv, EndedOnce
  <1>2. QED
    BY <1>1

\* The page has not been told anything yet.
LEMMA InitEndInv == FluxInit => EndInv
  BY DEF FluxInit, EndInv, EndedOnce

\* A chunk, which ends the query when the reader throws.
LEMMA QueryChunkKeeps ==
    ASSUME EndInv, NEW chunk, NextChunk(chunk)
    PROVE  EndInv'
  <1>1. CASE state # "open" \/ finished
    BY <1>1 DEF NextChunk, Keep, EndInv, EndedOnce
  <1>2. CASE state = "open" /\ ~finished
    <2> DEFINE r == BufferReceived(chunk)
    <2>1. /\ UNCHANGED <<state, rejected>>
          /\ IF r.reader.thrown
             THEN Finish /\ ended' = Append(ended, "error")
             ELSE UNCHANGED <<finished, ended>>
      BY <1>2 DEF NextChunk
    <2>2. CASE r.reader.thrown
      BY <1>2, <2>1, <2>2, OneCall DEF Finish, EndInv, EndedOnce
    <2>3. CASE ~r.reader.thrown
      BY <2>1, <2>3 DEF EndInv, EndedOnce
    <2>4. QED
      BY <2>2, <2>3
  <1>3. QED
    BY <1>1, <1>2

\* An error of the connection.
LEMMA QueryErrorKeeps ==
    ASSUME EndInv, Error
    PROVE  EndInv'
  <1>1. CASE state # "open"
    BY <1>1 DEF Error, Keep, EndInv, EndedOnce
  <1>2. CASE state = "open" /\ finished
    BY <1>2 DEF Error, EndInv, EndedOnce
  <1>3. CASE state = "open" /\ ~finished
    BY <1>3, OneCall DEF Error, Finish, EndInv, EndedOnce
  <1>4. QED
    BY <1>1, <1>2, <1>3

\* The end of the answer, whose last line may still make the reader throw.
LEMMA QueryEndKeeps ==
    ASSUME EndInv, Complete
    PROVE  EndInv'
  <1>1. CASE state # "open"
    BY <1>1 DEF Complete, Keep, EndInv, EndedOnce
  <1>2. CASE state = "open" /\ finished
    BY <1>2 DEF Complete, EndInv, EndedOnce
  <1>3. CASE state = "open" /\ ~finished
    <2> DEFINE thrown == LastLine.thrown
    <2>1. /\ state' = "completed" /\ rejected' = thrown
          /\ IF thrown THEN UNCHANGED <<finished, ended>>
                       ELSE Finish /\ ended' = Append(ended, "complete")
      BY <1>3 DEF Complete, PassedOn
    <2>2. CASE thrown
      BY <2>1, <2>2 DEF EndInv, EndedOnce
    <2>3. CASE ~thrown
      BY <1>3, <2>1, <2>3, OneCall DEF Finish, EndInv, EndedOnce
    <2>4. QED
      BY <2>2, <2>3
  <1>4. QED
    BY <1>1, <1>2, <1>3

\* Every step keeps it.
LEMMA NextEndInv == EndInv /\ [FluxNext]_fluxVars => EndInv'
  <1> SUFFICES ASSUME EndInv, [FluxNext]_fluxVars PROVE EndInv'
    OBVIOUS
  <1>1. CASE Respond
    BY <1>1 DEF Respond, Keep, EndInv, EndedOnce
  <1>2. CASE FetchFails
    BY <1>2, QueryErrorKeeps DEF FetchFails
  <1>3. CASE ErrorText
    BY <1>3, QueryErrorKeeps DEF ErrorText
  <1>4. CASE ReadChunk
    BY <1>4, QueryChunkKeeps DEF ReadChunk
  <1>5. CASE ReadFails
    BY <1>5, QueryErrorKeeps DEF ReadFails
  <1>6. CASE ReadDone
    BY <1>6, QueryEndKeeps DEF ReadDone
  <1>7. CASE QueryRows
    BY <1>7 DEF QueryRows, EndInv, EndedOnce
  <1>8. CASE UNCHANGED fluxVars
    BY <1>8 DEF fluxVars, EndInv, EndedOnce
  <1>9. QED
    BY <1>1, <1>2, <1>3, <1>4, <1>5, <1>6, <1>7, <1>8 DEF FluxNext

\* The page is told the end of a query at most once, and once it has been told
\* the flag that keeps everything else from it is set (ChunksToLines.ts:
\* finished).
THEOREM EndedOnceHolds == FluxSpec => []EndedOnce
  <1>1. EndInv => EndedOnce
    BY DEF EndInv
  <1>2. QED
    BY <1>1, InitEndInv, NextEndInv, PTL DEF FluxSpec

\* A page that has been told the end of a query is not given another row of it.
THEOREM NothingAfterTheEnd ==
    FluxSpec => [][ended # <<>> => rows' = rows \/ ended' = <<>>]_fluxVars
  <1> DEFINE Quiet == ended # <<>> => rows' = rows \/ ended' = <<>>
  <1>1. ASSUME EndInv, [FluxNext]_fluxVars PROVE [Quiet]_fluxVars
    <2> SUFFICES ASSUME ended # <<>>, FluxNext PROVE rows' = rows \/ ended' = <<>>
      BY <1>1
    <2>1. finished
      BY <1>1 DEF EndInv, EndedOnce
    <2>2. Error => rows' = rows
      BY DEF Error, Keep
    <2>3. ReadDone => rows' = rows
      BY <2>1 DEF ReadDone, Complete, Keep
    <2>4. ReadChunk => rows' = rows
      BY <2>1 DEF ReadChunk, NextChunk, Keep
    <2>5. QED
      BY <2>2, <2>3, <2>4
      DEF FluxNext, Respond, Keep, FetchFails, ErrorText, ReadFails, QueryRows
  <1>2. QED
    BY <1>1, InitEndInv, NextEndInv, PTL DEF FluxSpec
=============================================================================
