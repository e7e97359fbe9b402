--------------------------- MODULE NavDataProofs ---------------------------
(***************************************************************************)
(* Proofs about NavData: for every time-out and every set of inputs aboard,*)
(* claims are released and numbers taken back after silence, and neither   *)
(* earlier nor by a worse source.                                          *)
(*                                                                         *)
(* A handler is a chain of small changes of the members of dashboard_pi.   *)
(* What each of them may do is the relation Moves, which is transitive, so *)
(* that an action is followed through its chain, and the invariants are    *)
(* proved from Moves, not from thirty handlers.                            *)
(***************************************************************************)
EXTENDS NavData, TLAPS

\* The values of nav that TypeOK allows.
Navs == [pri   : [Data -> 1..6 \cup {Free}],
         by    : [Data -> Channels],
         mVar  : {"nan", "number"},
         mHdm  : {"nan", "number"},
         wd    : [Watchdogs -> 0..Timeout],
         keel  : BOOLEAN,
         fixOk : BOOLEAN,
         shown : [Shown -> {"nan", "number"}]]

\* From m to n a handler of an input of channel ch may come: priorities do
\* not fall in rank, a watchdog is left alone or armed, a datum is taken for
\* ch or left to whom it belongs, the variation is not lost, and without a
\* variation no heading is calculated.
Moves(m, n, ch) ==
    /\ n \in Navs
    /\ \A d \in Data \ {"COGSOG"} : n.pri[d] <= m.pri[d]
    /\ \A w \in Watchdogs : n.wd[w] \in {m.wd[w], Timeout}
    /\ \A d \in Data : n.by[d] \in {m.by[d], ch}
    /\ n.mVar = "nan" =>
          /\ m.mVar = "nan"
          /\ n.pri["HeadingT"] \in {3, 4} => m.pri["HeadingT"] \in {3, 4}

-----------------------------------------------------------------------------
(***************************************************************************)
(* What the steps of the handlers do.                                      *)
(***************************************************************************)

\* A handler may leave everything alone.
LEMMA MovesNot == ASSUME NEW n \in Navs, NEW ch PROVE Moves(n, n, ch)
  BY DEF Moves, Navs, Data, Free

\* A move ends in a value of the type.
LEMMA MovesType ==
    ASSUME NEW m, NEW n, NEW ch, Moves(m, n, ch) PROVE n \in Navs
  BY DEF Moves

\* One change after another.
LEMMA MovesOn ==
    ASSUME NEW m \in Navs, NEW n, NEW o, NEW ch,
           Moves(m, n, ch), Moves(n, o, ch)
    PROVE  Moves(m, o, ch)
  <1>1. n \in Navs /\ o \in Navs
    BY DEF Moves
  <1>2. \A d \in Data \ {"COGSOG"} : o.pri[d] <= m.pri[d]
    <2> SUFFICES ASSUME NEW d \in Data \ {"COGSOG"} PROVE o.pri[d] <= m.pri[d]
      OBVIOUS
    <2>1. o.pri[d] <= n.pri[d] /\ n.pri[d] <= m.pri[d]
      BY DEF Moves
    <2>2. o.pri[d] \in Int /\ n.pri[d] \in Int /\ m.pri[d] \in Int
      BY <1>1 DEF Navs, Free
    <2> QED BY <2>1, <2>2
  <1>3. \A w \in Watchdogs : o.wd[w] \in {m.wd[w], Timeout}
    BY DEF Moves
  <1>4. \A d \in Data : o.by[d] \in {m.by[d], ch}
    BY DEF Moves
  <1>5. o.mVar = "nan" =>
           /\ m.mVar = "nan"
           /\ o.pri["HeadingT"] \in {3, 4} => m.pri["HeadingT"] \in {3, 4}
    BY DEF Moves
  <1> QED BY <1>1, <1>2, <1>3, <1>4, <1>5 DEF Moves

\* Arming a watchdog.
LEMMA ArmMoves ==
    ASSUME NEW n \in Navs, NEW w \in Watchdogs, NEW ch
    PROVE  /\ Moves(n, Arm(n, w), ch) /\ Arm(n, w) \in Navs
           /\ Arm(n, w).wd[w] = Timeout
           /\ Arm(n, w).mVar = n.mVar /\ Arm(n, w).pri = n.pri
  BY TimeoutAssumption DEF Moves, Navs, Arm, Data, Free

\* Showing a number.
LEMMA ShowMoves ==
    ASSUME NEW n \in Navs, NEW q \in Shown, NEW ch
    PROVE  /\ Moves(n, Show(n, q), ch) /\ Show(n, q) \in Navs
           /\ Show(n, q).mVar = n.mVar /\ Show(n, q).pri = n.pri
  BY DEF Moves, Navs, Show, Data, Free

\* A claim of a rank that no calculated heading has is a move, and it leaves
\* the datum at that rank or a better one.
LEMMA ClaimMoves ==
    ASSUME NEW n \in Navs, NEW d \in Data, NEW p \in 1..6,
           NEW ch \in Channels,
           d = "HeadingT" => p \notin {3, 4} \/ n.mVar = "number"
    PROVE  /\ Moves(n, Claim(n, d, p, ch), ch)
           /\ Claim(n, d, p, ch) \in Navs /\ Claim(n, d, p, ch).pri[d] <= p
           /\ Claim(n, d, p, ch).mVar = n.mVar
  <1>1. CASE Claimable(n, d, p)
    <2> DEFINE o == [n EXCEPT !.pri[d] = p, !.by[d] = ch]
    <2>1. o \in Navs
      BY DEF Navs
    <2>2. o.pri = [n.pri EXCEPT ![d] = p] /\ o.by = [n.by EXCEPT ![d] = ch]
          /\ o.wd = n.wd /\ o.mVar = n.mVar
      BY DEF Navs
    <2>3. o.pri[d] = p /\ \A e \in Data \ {d} : o.pri[e] = n.pri[e]
      BY <2>2 DEF Navs
    <2>4. \A e \in Data : n.pri[e] <= n.pri[e]
      BY DEF Navs, Free
    <2>5. \A e \in Data \ {"COGSOG"} : o.pri[e] <= n.pri[e]
      BY <1>1, <2>3, <2>4 DEF Claimable
    <2>6. \A e \in Data : o.by[e] \in {n.by[e], ch}
      BY <2>2 DEF Navs
    <2>7. o.mVar = "nan" /\ o.pri["HeadingT"] \in {3, 4} =>
                               n.pri["HeadingT"] \in {3, 4}
      BY <2>2, <2>3 DEF Data
    <2>8. Moves(n, o, ch)
      BY <2>1, <2>2, <2>5, <2>6, <2>7 DEF Moves
    <2>9. Claim(n, d, p, ch) = o
      BY <1>1 DEF Claim
    <2>10. p <= p
      OBVIOUS
    <2> QED BY <2>1, <2>2, <2>3, <2>8, <2>9, <2>10
  <1>2. CASE ~Claimable(n, d, p)
    <2>1. Claim(n, d, p, ch) = n
      BY <1>2 DEF Claim
    <2>2. n.pri[d] <= p
      BY <1>2 DEF Claimable, Navs, Free
    <2> QED BY <2>1, <2>2, MovesNot
  <1> QED BY <1>1, <1>2

\* A claim of a datum that is not the true heading.
LEMMA ClaimOther ==
    ASSUME NEW n \in Navs, NEW d \in Data \ {"HeadingT"}, NEW p \in 1..6,
           NEW ch \in Channels
    PROVE  /\ Moves(n, Claim(n, d, p, ch), ch)
           /\ Claim(n, d, p, ch) \in Navs
           /\ Claim(n, d, p, ch).mVar = n.mVar
  BY ClaimMoves

\* A variation; only a known one gives a variation where there was none.
LEMMA VariationMoves ==
    ASSUME NEW n \in Navs, NEW x, NEW p \in 1..6, NEW ch \in Channels
    PROVE  /\ Moves(n, Variation(n, x, p, ch), ch)
           /\ Variation(n, x, p, ch) \in Navs
           /\ x # "known" => Variation(n, x, p, ch).mVar = n.mVar
  <1> DEFINE c == Claim(n, "Var", p, ch)
             m == Arm(c, "Var")
             v == IF x = "known" THEN "number" ELSE n.mVar
             o == [m EXCEPT !.mVar = v, !.shown["HMV"] = v]
  <1>1. Moves(n, c, ch)
    BY ClaimOther DEF Data
  <1>2. c \in Navs /\ c.mVar = n.mVar
    BY ClaimOther DEF Data
  <1>3. Moves(c, m, ch) /\ m.mVar = c.mVar /\ m \in Navs
    BY <1>2, ArmMoves DEF Watchdogs
  <1>4. Moves(m, o, ch) /\ o.mVar = v
    <2>1. v \in {"nan", "number"} /\ (v = "nan" => m.mVar = "nan")
      BY <1>2, <1>3 DEF Navs
    <2> HIDE DEF m, v
    <2>2. o \in Navs /\ o.mVar = v
      BY <1>3, <2>1 DEF Navs, Shown
    <2>3. o.pri = m.pri /\ o.by = m.by /\ o.wd = m.wd
      BY <1>3 DEF Navs
    <2>4. Moves(m, m, ch)
      BY <1>3, MovesNot
    <2> QED BY <2>1, <2>2, <2>3, <2>4 DEF Moves
  <1>5. Moves(n, o, ch)
    BY <1>1, <1>2, <1>3, <1>4, MovesOn
  <1>6. Variation(n, x, p, ch) \in {o, n}
    BY DEF Variation
  <1>7. x # "known" => o.mVar = n.mVar
    BY <1>4
  <1>8. o \in Navs
    BY <1>5, MovesType
  <1> QED BY <1>5, <1>6, <1>7, <1>8, MovesNot

\* The magnetic heading of a compass.
LEMMA MagneticMoves ==
    ASSUME NEW n \in Navs, NEW p \in 1..6, NEW ch \in Channels
    PROVE  /\ Moves(n, Magnetic(n, p, ch), ch)
           /\ Magnetic(n, p, ch) \in Navs
           /\ Magnetic(n, p, ch).mVar = n.mVar
  <1> DEFINE c == Claim(n, "HeadingM", p, ch)
             m == Show(c, "HDM")
             o == [m EXCEPT !.mHdm = "number"]
  <1>1. Moves(n, c, ch) /\ c \in Navs /\ c.mVar = n.mVar
    BY ClaimOther DEF Data
  <1>2. Moves(c, m, ch) /\ m \in Navs /\ m.mVar = c.mVar
    BY <1>1, ShowMoves DEF Shown
  <1>3. Moves(m, o, ch) /\ o.mVar = m.mVar
    <2> HIDE DEF m
    <2> QED BY <1>2 DEF Moves, Navs, Data, Free
  <1>4. Moves(n, o, ch)
    BY <1>1, <1>2, <1>3, MovesOn
  <1>5. Magnetic(n, p, ch) \in {o, n}
    BY DEF Magnetic
  <1>6. o \in Navs
    BY <1>4, MovesType
  <1> QED BY <1>1, <1>2, <1>3, <1>4, <1>5, <1>6, MovesNot

\* The calculated heading, for which there is a variation.
LEMMA CalculatedMoves ==
    ASSUME NEW n \in Navs, NEW p \in 1..6, NEW ch \in Channels
    PROVE  /\ Moves(n, Calculated(n, p, ch), ch)
           /\ Calculated(n, p, ch) \in Navs
           /\ Calculated(n, p, ch).mVar = n.mVar
  <1> DEFINE c == Claim(n, "HeadingT", p, ch)
             m == Arm(c, "HDT")
             o == [m EXCEPT !.shown["HDT"] = n.mHdm]
  <1> SUFFICES ASSUME n.mVar = "number", Claimable(n, "HeadingT", p)
               PROVE  Moves(n, o, ch) /\ o.mVar = n.mVar /\ o \in Navs
    BY MovesNot DEF Calculated
  <1>1. Moves(n, c, ch) /\ c \in Navs /\ c.mVar = n.mVar
    <2>1. "HeadingT" \in Data
      BY DEF Data
    <2> QED BY <2>1, ClaimMoves
  <1>2. Moves(c, m, ch) /\ m \in Navs /\ m.mVar = c.mVar
    BY <1>1, ArmMoves DEF Watchdogs
  <1>3. Moves(m, o, ch) /\ o.mVar = m.mVar
    <2> HIDE DEF m
    <2> QED BY <1>2 DEF Moves, Navs, Data, Free, Shown
  <1>4. Moves(n, o, ch)
    BY <1>1, <1>2, <1>3, MovesOn
  <1>5. o \in Navs
    BY <1>4, MovesType
  <1> QED BY <1>1, <1>2, <1>3, <1>4, <1>5

\* The heading after a delta message.
LEMMA SkCalculatedMoves ==
    ASSUME NEW n \in Navs
    PROVE  /\ Moves(n, SkCalculated(n), "sk")
           /\ SkCalculated(n) \in Navs /\ SkCalculated(n).mVar = n.mVar
  BY CalculatedMoves, MovesNot DEF SkCalculated, Channels

-----------------------------------------------------------------------------
(***************************************************************************)
(* What the handling of an input leaves behind.                            *)
(***************************************************************************)

\* The changes of nav that the proofs need of the handler of i, which ends
\* in n.
Leaves(i, n) ==
    /\ i \in aboard /\ i.ch \in Channels
    /\ Moves(nav, n, i.ch)
    /\ i.ch = "sk" => n.wd["SiK"] = Timeout
    /\ i.ch \in {"ocpn", "sk"} => n.wd["Src"] = Timeout
    /\ NoVariation(aboard) => n.mVar = nav.mVar
    /\ TrueClaimed(aboard) /\ CarriesTrue(i) => n.pri["HeadingT"] <= 2

\* The part of the handlers that is the same for all sentences, and for all
\* delta messages.
LEMMA HeardMoves ==
    ASSUME nav \in Navs
    PROVE  /\ Moves(nav, NmeaHeard, "ocpn") /\ NmeaHeard \in Navs
           /\ NmeaHeard.wd["Src"] = Timeout /\ NmeaHeard.mVar = nav.mVar
           /\ NmeaHeard.pri = nav.pri /\ NmeaHeard.by = nav.by
           /\ Moves(nav, DeltaHeard, "sk") /\ DeltaHeard \in Navs
           /\ DeltaHeard.wd["Src"] = Timeout /\ DeltaHeard.wd["SiK"] = Timeout
           /\ DeltaHeard.mVar = nav.mVar /\ DeltaHeard.pri = nav.pri
  <1>1. "Src" \in Watchdogs /\ "SiK" \in Watchdogs
    BY DEF Watchdogs
  <1>2. Moves(nav, NmeaHeard, "ocpn") /\ NmeaHeard.wd["Src"] = Timeout
    BY <1>1, ArmMoves DEF NmeaHeard
  <1>3. NmeaHeard \in Navs
    BY <1>2 DEF Moves
  <1>4. /\ NmeaHeard.mVar = nav.mVar
        /\ NmeaHeard.pri = nav.pri /\ NmeaHeard.by = nav.by
    BY DEF NmeaHeard, Arm, Navs
  <1> DEFINE s == Arm(nav, "SiK")
  <1>5. Moves(nav, s, "sk") /\ s \in Navs /\ s.wd["SiK"] = Timeout
    BY <1>1, ArmMoves DEF Moves
  <1>6. s.mVar = nav.mVar /\ s.pri = nav.pri
    BY DEF Arm, Navs
  <1> HIDE DEF s
  <1>7. Moves(s, Arm(s, "Src"), "sk") /\ Arm(s, "Src").wd["Src"] = Timeout
    BY <1>1, <1>5, ArmMoves
  <1>8. Arm(s, "Src") \in Navs /\ Arm(s, "Src").wd["SiK"] = Timeout
    BY <1>1, <1>5, <1>7 DEF Moves
  <1>9. Arm(s, "Src").mVar = s.mVar /\ Arm(s, "Src").pri = s.pri
    BY <1>5 DEF Arm, Navs
  <1>10. DeltaHeard = Arm(s, "Src")
    BY DEF DeltaHeard, s
  <1>11. Moves(nav, DeltaHeard, "sk")
    BY <1>5, <1>7, <1>10, MovesOn
  <1> QED BY <1>2, <1>3, <1>4, <1>6, <1>7, <1>8, <1>9, <1>10, <1>11

\* From there a sentence goes on by moves.
LEMMA NmeaLeaves ==
    ASSUME nav \in Navs, NEW i \in aboard, i.ch = "ocpn", NEW n,
           Moves(NmeaHeard, n, "ocpn"),
           NoVariation(aboard) => n.mVar = nav.mVar,
           CarriesTrue(i) => n.pri["HeadingT"] <= 2
    PROVE  Leaves(i, n)
  <1>1. Moves(nav, n, "ocpn")
    BY HeardMoves, MovesOn
  <1>2. n.wd["Src"] = Timeout
    BY HeardMoves DEF Moves, Watchdogs
  <1> QED BY <1>1, <1>2 DEF Leaves, Channels

\* From there a delta message goes on by moves.
LEMMA DeltaLeaves ==
    ASSUME nav \in Navs, NEW i \in aboard, i.ch = "sk", NEW n,
           Moves(DeltaHeard, n, "sk"),
           NoVariation(aboard) => n.mVar = nav.mVar,
           TrueClaimed(aboard) /\ CarriesTrue(i) => n.pri["HeadingT"] <= 2
    PROVE  Leaves(i, n)
  <1>1. Moves(nav, n, "sk")
    BY HeardMoves, MovesOn
  <1>2. n.wd["Src"] = Timeout /\ n.wd["SiK"] = Timeout
    BY HeardMoves DEF Moves, Watchdogs
  <1> QED BY <1>1, <1>2 DEF Leaves, Channels

\* The tables of simple claims name data other than the headings, and inputs
\* other than true headings.
LEMMA Tables ==
    ASSUME NEW t \in {NmeaPosition, NmeaWind, NmeaOther, SkPositions, SkWind,
                      SkRMC, SkOther, N2kWind, N2kOther},
           NEW id \in DOMAIN t
    PROVE  /\ t[id][1] \in Data \ {"HeadingT", "HeadingM", "Var"}
           /\ t[id][2] \in 1..6
           /\ id \notin {"HDT", "VHW", "VHW_headingTrue", "headingTrue"}
  BY DEF NmeaPosition, NmeaWind, NmeaOther, SkPositions, SkWind, SkRMC,
         SkOther, N2kWind, N2kOther, Data

\* SetNMEASentence() with a sentence that claims one datum, or none.
LEMMA NmeaClaimLeaves ==
    ASSUME nav \in Navs, NmeaClaim \/ NmeaPlain
    PROVE  \E i \in aboard : Done(i, nav') /\ Leaves(i, nav')
  <1>1. CASE NmeaClaim
    <2>1. PICK t \in {NmeaPosition, NmeaWind, NmeaOther} : \E id \in DOMAIN t :
                \E i \in Nmea(id) :
                    Done(i, Claim(NmeaHeard, t[id][1], t[id][2], "ocpn"))
      BY <1>1 DEF NmeaClaim
    <2>2. PICK id \in DOMAIN t : \E i \in Nmea(id) :
                    Done(i, Claim(NmeaHeard, t[id][1], t[id][2], "ocpn"))
      BY <2>1
    <2>3. PICK i \in Nmea(id) :
                    Done(i, Claim(NmeaHeard, t[id][1], t[id][2], "ocpn"))
      BY <2>2
    <2> DEFINE d == t[id][1]
               p == t[id][2]
               n == Claim(NmeaHeard, d, p, "ocpn")
    <2>4. /\ d \in Data /\ d # "HeadingT" /\ p \in 1..6
          /\ id \notin {"HDT", "VHW", "VHW_headingTrue", "headingTrue"}
      BY Tables
    <2>5. i \in aboard /\ i.ch = "ocpn" /\ i.id = id
      BY DEF Nmea
    <2> HIDE DEF d, p
    <2>6. Moves(NmeaHeard, n, "ocpn") /\ n.mVar = nav.mVar
      BY <2>4, HeardMoves, ClaimMoves DEF Channels
    <2>7. ~CarriesTrue(i)
      BY <2>4, <2>5 DEF CarriesTrue
    <2>8. Leaves(i, n)
      BY <2>5, <2>6, <2>7, NmeaLeaves
    <2>9. nav' = n /\ Done(i, n)
      BY <2>3 DEF Done, d, p
    <2> QED BY <2>5, <2>8, <2>9
  <1>2. CASE NmeaPlain
    <2>1. PICK id \in {"XDR", "MTW"} : \E i \in Nmea(id) : Done(i, NmeaHeard)
      BY <1>2 DEF NmeaPlain
    <2>2. PICK i \in Nmea(id) : Done(i, NmeaHeard)
      BY <2>1
    <2>3. i \in aboard /\ i.ch = "ocpn" /\ i.id = id
      BY DEF Nmea
    <2>4. Moves(NmeaHeard, NmeaHeard, "ocpn") /\ ~CarriesTrue(i)
      BY <2>3, HeardMoves, MovesNot DEF CarriesTrue
    <2>5. Leaves(i, NmeaHeard)
      BY <2>3, <2>4, HeardMoves, NmeaLeaves
    <2> QED BY <2>2, <2>3, <2>5 DEF Done
  <1> QED BY <1>1, <1>2

\* Headings of HDG and HDM: the magnetic one, and the calculated one, after a
\* variation of HDG.
LEMMA CompassLeaves ==
    ASSUME nav \in Navs, HDG \/ HDM
    PROVE  \E i \in aboard : Done(i, nav') /\ Leaves(i, nav')
  <1> "HDx" \in Watchdogs /\ "ocpn" \in Channels
    BY DEF Watchdogs, Channels
  <1>1. CASE HDG
    <2> DEFINE v(i) == Variation(NmeaHeard, i.x, 2, "ocpn")
               m(i) == Magnetic(v(i), 1, "ocpn")
               a(i) == Arm(m(i), "HDx")
               n(i) == Calculated(a(i), 4, "ocpn")
    <2>1. PICK i \in Nmea("HDG") : Done(i, n(i))
      BY <1>1 DEF HDG
    <2>2. i \in aboard /\ i.ch = "ocpn" /\ i.id = "HDG"
      BY DEF Nmea
    <2>3. /\ Moves(NmeaHeard, v(i), "ocpn") /\ v(i) \in Navs
          /\ i.x # "known" => v(i).mVar = nav.mVar
      <3>1. NmeaHeard \in Navs /\ NmeaHeard.mVar = nav.mVar /\ 2 \in 1..6
        BY HeardMoves
      <3> QED BY <3>1, VariationMoves
    <2> HIDE DEF v
    <2>4. Moves(v(i), m(i), "ocpn") /\ m(i) \in Navs /\ m(i).mVar = v(i).mVar
      BY <2>3, MagneticMoves
    <2> HIDE DEF m
    <2>5. Moves(m(i), a(i), "ocpn") /\ a(i) \in Navs /\ a(i).mVar = m(i).mVar
      BY <2>4, ArmMoves
    <2> HIDE DEF a
    <2>6. Moves(a(i), n(i), "ocpn") /\ n(i).mVar = a(i).mVar
      BY <2>5, CalculatedMoves
    <2> HIDE DEF n
    <2>7. Moves(v(i), n(i), "ocpn")
      BY <2>3, <2>4, <2>5, <2>6, MovesOn
    <2>8. Moves(NmeaHeard, n(i), "ocpn")
      BY <2>3, <2>7, HeardMoves, MovesOn
    <2>9. NoVariation(aboard) => n(i).mVar = nav.mVar
      BY <2>2, <2>3, <2>4, <2>5, <2>6 DEF NoVariation
    <2>10. ~CarriesTrue(i)
      BY <2>2 DEF CarriesTrue
    <2>11. Leaves(i, n(i))
      BY <2>2, <2>8, <2>9, <2>10, NmeaLeaves
    <2> QED BY <2>1, <2>2, <2>11 DEF Done
  <1>2. CASE HDM
    <2> DEFINE m == Magnetic(NmeaHeard, 2, "ocpn")
               a == Arm(m, "HDx")
               n == Calculated(a, 3, "ocpn")
    <2>1. PICK i \in Nmea("HDM") : Done(i, n)
      BY <1>2 DEF HDM
    <2>2. i \in aboard /\ i.ch = "ocpn" /\ i.id = "HDM"
      BY DEF Nmea
    <2>3. Moves(NmeaHeard, m, "ocpn") /\ m \in Navs /\ m.mVar = nav.mVar
      BY HeardMoves, MagneticMoves
    <2> HIDE DEF m
    <2>4. Moves(m, a, "ocpn") /\ a \in Navs /\ a.mVar = m.mVar
      BY <2>3, ArmMoves
    <2> HIDE DEF a
    <2>5. Moves(a, n, "ocpn") /\ n.mVar = a.mVar
      BY <2>4, CalculatedMoves
    <2> HIDE DEF n
    <2>6. Moves(m, n, "ocpn")
      BY <2>3, <2>4, <2>5, MovesOn
    <2>7. Moves(NmeaHeard, n, "ocpn")
      BY <2>3, <2>6, HeardMoves, MovesOn
    <2>8. ~CarriesTrue(i)
      BY <2>2 DEF CarriesTrue
    <2>9. Leaves(i, n)
      BY <2>2, <2>3, <2>4, <2>5, <2>7, <2>8, NmeaLeaves
    <2> QED BY <2>1, <2>2, <2>9 DEF Done
  <1> QED BY <1>1, <1>2

\* True headings, of HDT and of the water speed sentence.
LEMMA TrueLeaves ==
    ASSUME nav \in Navs, HDT \/ VHW
    PROVE  \E i \in aboard : Done(i, nav') /\ Leaves(i, nav')
  <1> {"HDx", "HDT"} \subseteq Watchdogs /\ "ocpn" \in Channels
      /\ {"HeadingT", "HeadingM"} \subseteq Data /\ {"HDT", "HDM"} \subseteq Shown
    BY DEF Watchdogs, Channels, Data, Shown
  <1>1. CASE HDT
    <2> DEFINE c == Claim(NmeaHeard, "HeadingT", 1, "ocpn")
               m == Arm(c, "HDT")
               n(i) == IF i.x = "known" THEN Show(m, "HDT") ELSE m
    <2>1. PICK i \in Nmea("HDT") : Done(i, n(i))
      BY <1>1 DEF HDT
    <2>2. i \in aboard /\ i.ch = "ocpn"
      BY DEF Nmea
    <2>3. /\ Moves(NmeaHeard, c, "ocpn") /\ c.mVar = nav.mVar
          /\ c.pri["HeadingT"] <= 1 /\ c \in Navs
      BY HeardMoves, ClaimMoves
    <2> HIDE DEF c
    <2>4. Moves(c, m, "ocpn") /\ m \in Navs /\ m.mVar = c.mVar /\ m.pri = c.pri
      BY <2>3, ArmMoves
    <2> HIDE DEF m
    <2>5. /\ Moves(m, n(i), "ocpn") /\ n(i).mVar = m.mVar
          /\ n(i).pri = m.pri
      BY <2>4, ShowMoves, MovesNot
    <2> HIDE DEF n
    <2>6. Moves(c, n(i), "ocpn")
      BY <2>3, <2>4, <2>5, MovesOn
    <2>7. Moves(NmeaHeard, n(i), "ocpn")
      BY <2>3, <2>6, HeardMoves, MovesOn
    <2>8. n(i).pri["HeadingT"] <= 2
      BY <2>3, <2>4, <2>5 DEF Navs, Free
    <2>9. Leaves(i, n(i))
      BY <2>2, <2>3, <2>4, <2>5, <2>7, <2>8, NmeaLeaves
    <2> QED BY <2>1, <2>2, <2>9 DEF Done
  <1>2. CASE VHW
    <2> DEFINE k == NmeaHeard
               c == Claim(k, "HeadingT", 2, "ocpn")
               t(i) == IF i.x = "known" /\ Claimable(k, "HeadingT", 2)
                       THEN Show(c, "HDT") ELSE k
               e(i) == Claim(t(i), "HeadingM", 3, "ocpn")
               n(i) == IF Claimable(t(i), "HeadingM", 3)
                       THEN Show(e(i), "HDM") ELSE t(i)
               o(i) == Arm(n(i), "HDx")
               q(i) == Arm(o(i), "HDT")
    <2>1. PICK i \in Nmea("VHW") : Done(i, q(i))
      BY <1>2 DEF VHW
    <2>2. i \in aboard /\ i.ch = "ocpn"
      BY DEF Nmea
    <2>3. /\ Moves(k, c, "ocpn") /\ c.mVar = nav.mVar
          /\ c.pri["HeadingT"] <= 2 /\ c \in Navs /\ k \in Navs
      BY HeardMoves, ClaimMoves
    <2>4. /\ Moves(c, Show(c, "HDT"), "ocpn")
          /\ Show(c, "HDT").mVar = c.mVar /\ Show(c, "HDT").pri = c.pri
      BY <2>3, ShowMoves
    <2>5. Moves(k, Show(c, "HDT"), "ocpn")
      BY <2>3, <2>4, MovesOn
    <2>6. ~Claimable(k, "HeadingT", 2) => k.pri["HeadingT"] <= 2
      BY <2>3 DEF Claimable, Navs, Free
    <2>7. /\ Moves(k, t(i), "ocpn") /\ t(i).mVar = nav.mVar
          /\ i.x = "known" => t(i).pri["HeadingT"] <= 2
      BY <2>3, <2>4, <2>5, <2>6, HeardMoves, MovesNot
    <2>8. t(i) \in Navs
      BY <2>7 DEF Moves
    <2> HIDE DEF k, c, t
    <2>9. Moves(t(i), e(i), "ocpn") /\ e(i).mVar = t(i).mVar /\ e(i) \in Navs
      BY <2>8, ClaimOther DEF Data
    <2> HIDE DEF e
    <2>10. /\ Moves(e(i), Show(e(i), "HDM"), "ocpn")
           /\ Show(e(i), "HDM").mVar = e(i).mVar
      BY <2>9, ShowMoves
    <2>11. Moves(t(i), Show(e(i), "HDM"), "ocpn")
      BY <2>8, <2>9, <2>10, MovesOn
    <2>12. Moves(t(i), n(i), "ocpn") /\ n(i).mVar = t(i).mVar /\ n(i) \in Navs
      <3>1. Moves(t(i), t(i), "ocpn")
        BY <2>8, MovesNot
      <3>2. Show(e(i), "HDM") \in Navs
        BY <2>10, MovesType
      <3> QED BY <2>8, <2>9, <2>10, <2>11, <3>1, <3>2
    <2> HIDE DEF n
    <2>13. Moves(n(i), o(i), "ocpn") /\ o(i).mVar = n(i).mVar /\ o(i) \in Navs
      BY <2>12, ArmMoves
    <2> HIDE DEF o
    <2>14. Moves(o(i), q(i), "ocpn") /\ q(i).mVar = o(i).mVar /\ q(i) \in Navs
      BY <2>13, ArmMoves
    <2> HIDE DEF q
    <2>15. Moves(n(i), q(i), "ocpn")
      BY <2>12, <2>13, <2>14, MovesOn
    <2>16. Moves(t(i), q(i), "ocpn")
      BY <2>8, <2>12, <2>15, MovesOn
    <2>17. Moves(NmeaHeard, q(i), "ocpn")
      BY <2>3, <2>7, <2>16, MovesOn DEF k
    <2>18. CarriesTrue(i) => q(i).pri["HeadingT"] <= 2
      <3>1. q(i).pri["HeadingT"] <= t(i).pri["HeadingT"]
        BY <2>16 DEF Moves
      <3>2. q(i).pri["HeadingT"] \in Int /\ t(i).pri["HeadingT"] \in Int
        BY <2>8, <2>14 DEF Navs, Free
      <3> QED BY <2>7, <3>1, <3>2 DEF CarriesTrue
    <2>19. q(i).mVar = nav.mVar
      BY <2>7, <2>9, <2>12, <2>13, <2>14
    <2>20. Leaves(i, q(i))
      BY <2>2, <2>17, <2>18, <2>19, NmeaLeaves
    <2> QED BY <2>1, <2>2, <2>20 DEF Done
  <1> QED BY <1>1, <1>2

\* The recommended minimum sentence, with variation.
LEMMA RMCLeaves ==
    ASSUME nav \in Navs, RMC
    PROVE  \E i \in aboard : Done(i, nav') /\ Leaves(i, nav')
  <1> DEFINE p == Claim(NmeaHeard, "Position", 4, "ocpn")
             c == Claim(p, "COGSOG", 3, "ocpn")
             v(i) == Variation(c, i.x, 3, "ocpn")
             n(i) == Claim(v(i), "DateTime", 3, "ocpn")
  <1> "ocpn" \in Channels
    BY DEF Channels
  <1>1. PICK i \in Nmea("RMC") : Done(i, n(i))
    BY DEF RMC
  <1>2. i \in aboard /\ i.ch = "ocpn" /\ i.id = "RMC"
    BY DEF Nmea
  <1>3. Moves(NmeaHeard, p, "ocpn") /\ p \in Navs /\ p.mVar = nav.mVar
    BY HeardMoves, ClaimOther DEF Data
  <1> HIDE DEF p
  <1>4. Moves(p, c, "ocpn") /\ c \in Navs /\ c.mVar = p.mVar
    BY <1>3, ClaimOther DEF Data
  <1> HIDE DEF c
  <1>5. /\ Moves(c, v(i), "ocpn") /\ v(i) \in Navs
        /\ i.x # "known" => v(i).mVar = c.mVar
    <2>1. 3 \in 1..6
      OBVIOUS
    <2> QED BY <1>4, <2>1, VariationMoves
  <1> HIDE DEF v
  <1>6. Moves(v(i), n(i), "ocpn") /\ n(i).mVar = v(i).mVar
    BY <1>5, ClaimOther DEF Data
  <1> HIDE DEF n
  <1>7. Moves(c, n(i), "ocpn")
    BY <1>4, <1>5, <1>6, MovesOn
  <1>8. Moves(p, n(i), "ocpn")
    BY <1>3, <1>4, <1>7, MovesOn
  <1>9. Moves(NmeaHeard, n(i), "ocpn")
    BY <1>3, <1>8, HeardMoves, MovesOn
  <1>10. NoVariation(aboard) => n(i).mVar = nav.mVar
    BY <1>2, <1>3, <1>4, <1>5, <1>6 DEF NoVariation
  <1>11. ~CarriesTrue(i)
    BY <1>2 DEF CarriesTrue
  <1>12. Leaves(i, n(i))
    BY <1>2, <1>9, <1>10, <1>11, NmeaLeaves
  <1> QED BY <1>1, <1>2, <1>12 DEF Done

\* The own vessel's AIS message, which claims nothing.
LEMMA AIVDOLeaves ==
    ASSUME nav \in Navs, AIVDO
    PROVE  \E i \in aboard : Done(i, nav') /\ Leaves(i, nav')
  <1> DEFINE m == [NmeaHeard EXCEPT !.by["Position"] = "ocpn",
                                    !.by["COGSOG"] = "ocpn"]
             h == [m EXCEPT !.by["HeadingT"] = "ocpn"]
             s == Show(h, "HDT")
             a == Arm(s, "HDT")
             n(i) == IF i.x = "known" THEN a ELSE m
  <1>1. PICK i \in Nmea("AIVDO") : Done(i, n(i))
    BY DEF AIVDO
  <1>2. i \in aboard /\ i.ch = "ocpn" /\ i.id = "AIVDO"
    BY DEF Nmea
  <1>3. Moves(NmeaHeard, m, "ocpn") /\ m \in Navs /\ m.mVar = nav.mVar
    BY HeardMoves DEF Moves, Navs, Data, Channels, Free
  <1> HIDE DEF m
  <1>4. Moves(m, h, "ocpn") /\ h \in Navs /\ h.mVar = m.mVar
    BY <1>3 DEF Moves, Navs, Data, Channels, Free
  <1> HIDE DEF h
  <1>5. Moves(h, s, "ocpn") /\ s \in Navs /\ s.mVar = h.mVar
    BY <1>4, ShowMoves DEF Shown
  <1> HIDE DEF s
  <1>6. Moves(s, a, "ocpn") /\ a \in Navs /\ a.mVar = s.mVar
    BY <1>5, ArmMoves DEF Watchdogs
  <1> HIDE DEF a
  <1>7. Moves(h, a, "ocpn")
    BY <1>4, <1>5, <1>6, MovesOn
  <1>8. Moves(m, a, "ocpn")
    BY <1>3, <1>4, <1>7, MovesOn
  <1>9. Moves(NmeaHeard, a, "ocpn")
    BY <1>3, <1>8, HeardMoves, MovesOn
  <1>10. Moves(NmeaHeard, n(i), "ocpn") /\ n(i).mVar = nav.mVar
    BY <1>3, <1>4, <1>5, <1>6, <1>9
  <1>11. ~CarriesTrue(i)
    BY <1>2 DEF CarriesTrue
  <1>12. Leaves(i, n(i))
    BY <1>2, <1>10, <1>11, NmeaLeaves
  <1> QED BY <1>1, <1>2, <1>12 DEF Done

\* SetNMEASentence() with a delta message that claims one datum, or none.
LEMMA SkClaimLeaves ==
    ASSUME nav \in Navs, SkClaim \/ SkPlain
    PROVE  \E i \in aboard :
              Done(i, nav') /\ Leaves(i, nav') /\ i.ch # "ocpn"
  <1>1. CASE SkClaim
    <2> DEFINE All == {SkPositions, SkWind, SkRMC, SkOther, N2kWind, N2kOther}
    <2>1. PICK t \in All : \E id \in DOMAIN t : \E i \in Delta(id) :
                    Done(i, Claim(DeltaHeard, t[id][1], t[id][2], "sk"))
      BY <1>1 DEF SkClaim
    <2>2. PICK id \in DOMAIN t : \E i \in Delta(id) :
                    Done(i, Claim(DeltaHeard, t[id][1], t[id][2], "sk"))
      BY <2>1
    <2>3. PICK i \in Delta(id) :
                    Done(i, Claim(DeltaHeard, t[id][1], t[id][2], "sk"))
      BY <2>2
    <2> DEFINE d == t[id][1]
               p == t[id][2]
               n == Claim(DeltaHeard, d, p, "sk")
    <2>4. /\ d \in Data \ {"HeadingT"} /\ p \in 1..6
          /\ id \notin {"HDT", "VHW", "VHW_headingTrue", "headingTrue"}
      BY Tables
    <2>5. i \in aboard /\ i.ch = "sk" /\ i.id = id
      BY DEF Delta
    <2> HIDE DEF d, p
    <2>6. Moves(DeltaHeard, n, "sk") /\ n.mVar = nav.mVar
      BY <2>4, HeardMoves, ClaimOther DEF Channels
    <2>7. ~CarriesTrue(i)
      BY <2>4, <2>5 DEF CarriesTrue
    <2>8. Leaves(i, n)
      BY <2>5, <2>6, <2>7, DeltaLeaves
    <2>9. nav' = n /\ Done(i, n)
      BY <2>3 DEF Done, d, p
    <2> QED BY <2>5, <2>8, <2>9
  <1>2. CASE SkPlain
    <2>1. PICK i \in Delta("rudderAngle") : Done(i, DeltaHeard)
      BY <1>2 DEF SkPlain
    <2>2. i \in aboard /\ i.ch = "sk" /\ i.id = "rudderAngle"
      BY DEF Delta
    <2>3. Moves(DeltaHeard, DeltaHeard, "sk") /\ ~CarriesTrue(i)
      BY <2>2, HeardMoves, MovesNot DEF CarriesTrue
    <2>4. Leaves(i, DeltaHeard)
      BY <2>2, <2>3, HeardMoves, DeltaLeaves
    <2> QED BY <2>1, <2>2, <2>4 DEF Done
  <1> QED BY <1>1, <1>2

\* Magnetic heading and variation of a delta message.
LEMMA SkCompassLeaves ==
    ASSUME nav \in Navs, SkHDG_headingMagnetic \/ SkVariation \/ SkMagnetic
    PROVE  \E i \in aboard :
              Done(i, nav') /\ Leaves(i, nav') /\ i.ch # "ocpn"
  <1> "HDx" \in Watchdogs /\ "sk" \in Channels /\ 1 \in 1..6 /\ 2 \in 1..6
    BY DEF Watchdogs, Channels
  <1>1. CASE SkHDG_headingMagnetic
    <2> DEFINE m == Magnetic(DeltaHeard, 1, "sk")
               a == Arm(m, "HDx")
               n == SkCalculated(a)
    <2>1. PICK i \in Delta("HDG_headingMagnetic") : Done(i, n)
      BY <1>1 DEF SkHDG_headingMagnetic
    <2>2. i \in aboard /\ i.ch = "sk" /\ i.id = "HDG_headingMagnetic"
      BY DEF Delta
    <2>3. Moves(DeltaHeard, m, "sk") /\ m \in Navs /\ m.mVar = nav.mVar
      BY HeardMoves, MagneticMoves
    <2> HIDE DEF m
    <2>4. Moves(m, a, "sk") /\ a \in Navs /\ a.mVar = m.mVar
      BY <2>3, ArmMoves
    <2> HIDE DEF a
    <2>5. Moves(a, n, "sk") /\ n.mVar = a.mVar
      BY <2>4, SkCalculatedMoves
    <2> HIDE DEF n
    <2>6. Moves(m, n, "sk")
      BY <2>3, <2>4, <2>5, MovesOn
    <2>7. Moves(DeltaHeard, n, "sk")
      BY <2>3, <2>6, HeardMoves, MovesOn
    <2>8. ~CarriesTrue(i)
      BY <2>2 DEF CarriesTrue
    <2>9. Leaves(i, n)
      BY <2>2, <2>3, <2>4, <2>5, <2>7, <2>8, DeltaLeaves
    <2> QED BY <2>1, <2>2, <2>9 DEF Done
  <1>2. CASE SkVariation
    <2> DEFINE v(i) == Variation(DeltaHeard, i.x, 2, "sk")
               n(i) == SkCalculated(v(i))
    <2>1. PICK id \in {"HDG_magneticVariation", "magneticVariation"} :
                \E i \in Delta(id) : Done(i, n(i))
      BY <1>2 DEF SkVariation
    <2>2. PICK i \in Delta(id) : Done(i, n(i))
      BY <2>1
    <2>3. i \in aboard /\ i.ch = "sk" /\ i.id = id
      BY DEF Delta
    <2>4. /\ Moves(DeltaHeard, v(i), "sk") /\ v(i) \in Navs
          /\ i.x # "known" => v(i).mVar = nav.mVar
      <3>1. DeltaHeard \in Navs /\ DeltaHeard.mVar = nav.mVar
        BY HeardMoves
      <3> QED BY <3>1, VariationMoves
    <2> HIDE DEF v
    <2>5. Moves(v(i), n(i), "sk") /\ n(i).mVar = v(i).mVar
      BY <2>4, SkCalculatedMoves
    <2> HIDE DEF n
    <2>6. Moves(DeltaHeard, n(i), "sk")
      BY <2>4, <2>5, HeardMoves, MovesOn
    <2>7. NoVariation(aboard) => n(i).mVar = nav.mVar
      BY <2>3, <2>4, <2>5 DEF NoVariation
    <2>8. ~CarriesTrue(i)
      BY <2>3 DEF CarriesTrue
    <2>9. Leaves(i, n(i))
      BY <2>3, <2>6, <2>7, <2>8, DeltaLeaves
    <2> QED BY <2>2, <2>3, <2>9 DEF Done
  <1>3. CASE SkMagnetic
    <2> DEFINE m(p) == Magnetic(DeltaHeard, p, "sk")
               n(p) == IF Claimable(DeltaHeard, "HeadingM", p)
                       THEN Arm(m(p), "HDx") ELSE DeltaHeard
    <2>1. PICK r \in {<<"HDM_headingMagnetic", 2>>, <<"headingMagnetic", 1>>} :
                \E i \in Delta(r[1]) : Done(i, n(r[2]))
      BY <1>3 DEF SkMagnetic
    <2>2. PICK i \in Delta(r[1]) : Done(i, n(r[2]))
      BY <2>1
    <2>3. /\ i \in aboard /\ i.ch = "sk" /\ r[2] \in 1..6
          /\ i.id \in {"HDM_headingMagnetic", "headingMagnetic"}
      BY DEF Delta
    <2> DEFINE p == r[2]
    <2> HIDE DEF p
    <2>4. Moves(DeltaHeard, m(p), "sk") /\ m(p) \in Navs /\ m(p).mVar = nav.mVar
      BY <2>3, HeardMoves, MagneticMoves DEF p
    <2> HIDE DEF m
    <2>5. /\ Moves(m(p), Arm(m(p), "HDx"), "sk")
          /\ Arm(m(p), "HDx").mVar = m(p).mVar
      BY <2>4, ArmMoves
    <2>6. Moves(DeltaHeard, Arm(m(p), "HDx"), "sk")
      BY <2>4, <2>5, HeardMoves, MovesOn
    <2>7. Moves(DeltaHeard, DeltaHeard, "sk") /\ DeltaHeard.mVar = nav.mVar
      BY HeardMoves, MovesNot
    <2>8. Moves(DeltaHeard, n(p), "sk") /\ n(p).mVar = nav.mVar
      BY <2>4, <2>5, <2>6, <2>7
    <2> HIDE DEF n
    <2>9. ~CarriesTrue(i)
      BY <2>3 DEF CarriesTrue
    <2>10. Leaves(i, n(p))
      BY <2>3, <2>8, <2>9, DeltaLeaves
    <2> QED BY <2>2, <2>3, <2>10 DEF Done, p
  <1> QED BY <1>1, <1>2, <1>3

\* True heading of a delta message: only the one of the water speed sentence
\* claims the heading.
LEMMA SkTrueLeaves ==
    ASSUME nav \in Navs, SkTrue \/ SkVHW
    PROVE  \E i \in aboard :
              Done(i, nav') /\ Leaves(i, nav') /\ i.ch # "ocpn"
  <1> {"HDx", "HDT"} \subseteq Watchdogs /\ "sk" \in Channels
      /\ {"HDT", "HDM"} \subseteq Shown /\ {"HeadingT", "HeadingM"} \subseteq Data
    BY DEF Watchdogs, Channels, Shown, Data
  <1>1. CASE SkTrue
    <2> DEFINE n == [DeltaHeard EXCEPT !.pri["HeadingM"] = 1,
                        !.mHdm = "number", !.by["HeadingT"] = "sk"]
               s == Show(n, "HDT")
               a == Arm(s, "HDT")
    <2>1. PICK id \in {"HDT", "headingTrue"} : \E i \in Delta(id) : Done(i, a)
      BY <1>1 DEF SkTrue
    <2>2. PICK i \in Delta(id) : Done(i, a)
      BY <2>1
    <2>3. i \in aboard /\ i.ch = "sk" /\ i.id \in {"HDT", "headingTrue"}
      BY DEF Delta
    <2>4. Moves(DeltaHeard, n, "sk") /\ n.mVar = nav.mVar /\ n \in Navs
      <3>1. DeltaHeard \in Navs /\ DeltaHeard.mVar = nav.mVar
        BY HeardMoves
      <3> HIDE DEF DeltaHeard
      <3>2. /\ n.wd = DeltaHeard.wd /\ n.mVar = DeltaHeard.mVar
            /\ n.pri = [DeltaHeard.pri EXCEPT !["HeadingM"] = 1]
            /\ n.by = [DeltaHeard.by EXCEPT !["HeadingT"] = "sk"]
        <4>1. n.wd = DeltaHeard.wd /\ n.mVar = DeltaHeard.mVar
          BY <3>1 DEF Navs
        <4>2. n.pri = [DeltaHeard.pri EXCEPT !["HeadingM"] = 1]
          BY <3>1 DEF Navs
        <4>3. n.by = [DeltaHeard.by EXCEPT !["HeadingT"] = "sk"]
          BY <3>1 DEF Navs
        <4> QED BY <4>1, <4>2, <4>3
      <3>6. n \in Navs
        <4>1. n.pri \in [Data -> 1..6 \cup {Free}]
          BY <3>1, <3>2 DEF Navs
        <4>2. n.by \in [Data -> Channels]
          BY <3>1, <3>2 DEF Navs
        <4>3. [DeltaHeard EXCEPT !.pri = n.pri, !.mHdm = "number",
                                 !.by = n.by] \in Navs
          BY <3>1, <4>1, <4>2 DEF Navs
        <4>4. n = [DeltaHeard EXCEPT !.pri = n.pri, !.mHdm = "number",
                                     !.by = n.by]
          BY <3>1, <3>2 DEF Navs
        <4> QED BY <4>3, <4>4
      <3>3. \A d \in Data : n.pri[d] <= DeltaHeard.pri[d]
        BY <3>1, <3>2 DEF Navs, Free
      <3>4. \A d \in Data : n.by[d] \in {DeltaHeard.by[d], "sk"}
        BY <3>1, <3>2 DEF Navs
      <3>5. n.pri["HeadingT"] = DeltaHeard.pri["HeadingT"]
        BY <3>1, <3>2 DEF Navs
      <3> QED BY <3>1, <3>2, <3>3, <3>4, <3>5, <3>6 DEF Moves
    <2> HIDE DEF n
    <2>5. Moves(n, s, "sk") /\ s.mVar = n.mVar /\ s \in Navs
      BY <2>4, ShowMoves
    <2> HIDE DEF s
    <2>6. Moves(s, a, "sk") /\ a.mVar = s.mVar
      BY <2>5, ArmMoves
    <2> HIDE DEF a
    <2>7. Moves(n, a, "sk")
      BY <2>4, <2>5, <2>6, MovesOn
    <2>8. Moves(DeltaHeard, a, "sk")
      BY <2>4, <2>7, HeardMoves, MovesOn
    <2>9. ~(TrueClaimed(aboard) /\ CarriesTrue(i))
      BY <2>3 DEF TrueClaimed
    <2>10. Leaves(i, a)
      BY <2>3, <2>4, <2>5, <2>6, <2>8, <2>9, DeltaLeaves
    <2> QED BY <2>2, <2>3, <2>10 DEF Done
  <1>2. CASE SkVHW
    <2> DEFINE c(d, p) == Claim(DeltaHeard, d, p, "sk")
               n(d, p, q, w) == IF Claimable(nav, d, p)
                                THEN Arm(Show(c(d, p), q), w) ELSE c(d, p)
    <2>1. PICK r \in {<<"VHW_headingTrue", "HeadingT", 2, "HDT", "HDT">>,
                      <<"VHW_headingMagnetic", "HeadingM", 3, "HDM", "HDx">>} :
              \E i \in Delta(r[1]) : Done(i, n(r[2], r[3], r[4], r[5]))
      BY <1>2 DEF SkVHW
    <2>2. PICK i \in Delta(r[1]) : Done(i, n(r[2], r[3], r[4], r[5]))
      BY <2>1
    <2>3. i \in aboard /\ i.ch = "sk" /\ i.id = r[1]
      BY DEF Delta
    <2> DEFINE d == r[2]
               p == r[3]
               q == r[4]
               w == r[5]
    <2>4. /\ d \in Data /\ p \in 1..6 /\ q \in Shown /\ w \in Watchdogs
          /\ d = "HeadingT" => p = 2
          /\ CarriesTrue(i) => d = "HeadingT"
      BY <2>3 DEF CarriesTrue
    <2> HIDE DEF d, p, q, w
    <2>5. /\ Moves(DeltaHeard, c(d, p), "sk") /\ c(d, p).mVar = nav.mVar
          /\ c(d, p) \in Navs /\ c(d, p).pri[d] <= p
      <3>1. DeltaHeard \in Navs /\ DeltaHeard.mVar = nav.mVar
        BY HeardMoves
      <3>2. d = "HeadingT" => p \notin {3, 4} \/ DeltaHeard.mVar = "number"
        BY <2>4
      <3> QED BY <2>4, <3>1, <3>2, ClaimMoves
    <2> HIDE DEF c
    <2> DEFINE s == Show(c(d, p), q)
    <2>6. /\ Moves(c(d, p), s, "sk") /\ s.mVar = c(d, p).mVar
          /\ s.pri = c(d, p).pri /\ s \in Navs
      BY <2>4, <2>5, ShowMoves
    <2> HIDE DEF s
    <2>7. Moves(s, Arm(s, w), "sk") /\ Arm(s, w).mVar = s.mVar
          /\ Arm(s, w).pri = s.pri
      BY <2>4, <2>6, ArmMoves
    <2>8. Moves(c(d, p), Arm(s, w), "sk")
      BY <2>5, <2>6, <2>7, MovesOn
    <2>9. Moves(DeltaHeard, Arm(s, w), "sk")
      BY <2>5, <2>8, HeardMoves, MovesOn
    <2>10. n(d, p, q, w) \in {Arm(s, w), c(d, p)}
      BY DEF s
    <2> HIDE DEF n
    <2>11. /\ Moves(DeltaHeard, n(d, p, q, w), "sk")
           /\ n(d, p, q, w).mVar = nav.mVar
           /\ n(d, p, q, w).pri = c(d, p).pri
      BY <2>5, <2>6, <2>7, <2>9, <2>10
    <2>12. CarriesTrue(i) => n(d, p, q, w).pri["HeadingT"] <= 2
      BY <2>4, <2>5, <2>11
    <2>13. Leaves(i, n(d, p, q, w))
      BY <2>3, <2>11, <2>12, DeltaLeaves
    <2>14. nav' = n(d, p, q, w) /\ Done(i, n(d, p, q, w))
      BY <2>2 DEF Done, d, p, q, w
    <2> QED BY <2>3, <2>13, <2>14
  <1> QED BY <1>1, <1>2

\* Quality of the fix, position, depth, and the course that has no value.
LEMMA SkRestLeaves ==
    ASSUME nav \in Navs, SkQuality \/ SkPosition \/ SkDepth \/ SkCourseMagnetic
    PROVE  \E i \in aboard :
              Done(i, nav') /\ Leaves(i, nav') /\ i.ch # "ocpn"
  <1> DEFINE h == DeltaHeard
  <1>1. "sk" \in Channels /\ h \in Navs /\ h.mVar = nav.mVar
        /\ Moves(h, h, "sk")
    BY HeardMoves, MovesNot DEF Channels
  <1> HIDE DEF h
  <1>2. CASE SkQuality
    <2> DEFINE n(i) == [h EXCEPT !.fixOk = (i.x = "known")]
    <2>1. PICK i \in Delta("methodQuality") : Done(i, n(i))
      BY <1>2 DEF SkQuality, h
    <2>2. i \in aboard /\ i.ch = "sk" /\ ~CarriesTrue(i)
      BY DEF Delta, CarriesTrue
    <2>3. Moves(h, n(i), "sk") /\ n(i).mVar = nav.mVar
      BY <1>1 DEF Moves, Navs
    <2> HIDE DEF n
    <2>4. Leaves(i, n(i))
      BY <2>2, <2>3, DeltaLeaves DEF h
    <2> QED BY <2>1, <2>2, <2>4 DEF Done
  <1>3. CASE SkPosition
    <2> DEFINE n == IF nav.fixOk THEN Claim(h, "Position", 3, "sk") ELSE h
    <2>1. PICK i \in Delta("position") : Done(i, n)
      BY <1>3 DEF SkPosition, h
    <2>2. i \in aboard /\ i.ch = "sk" /\ ~CarriesTrue(i)
      BY DEF Delta, CarriesTrue
    <2>3. Moves(h, n, "sk") /\ n.mVar = nav.mVar
      BY <1>1, ClaimOther DEF Data
    <2> HIDE DEF n
    <2>4. Leaves(i, n)
      BY <2>2, <2>3, DeltaLeaves DEF h
    <2> QED BY <2>1, <2>2, <2>4 DEF Done
  <1>4. CASE SkDepth
    <2> DEFINE Ids == {"DPT_belowKeel", "DPT_belowTransducer",
                       "belowKeel", "belowTransducer"}
               keel(id) == id \in {"DPT_belowKeel", "belowKeel"}
               n(id) == [h EXCEPT !.keel = @ \/ keel(id)]
               r(id) == IF nav.keel /\ ~keel(id) THEN n(id)
                        ELSE IF id \in {"DPT_belowKeel", "DPT_belowTransducer"}
                        THEN Claim(n(id), "Depth", 1, "sk")
                        ELSE [n(id) EXCEPT !.by["Depth"] = "sk"]
    <2>1. PICK id \in Ids : \E i \in Delta(id) : Done(i, r(id))
      BY <1>4 DEF SkDepth, h
    <2>2. PICK i \in Delta(id) : Done(i, r(id))
      BY <2>1
    <2>3. i \in aboard /\ i.ch = "sk" /\ ~CarriesTrue(i)
      BY DEF Delta, CarriesTrue
    <2>4. Moves(h, n(id), "sk") /\ n(id).mVar = nav.mVar /\ n(id) \in Navs
      BY <1>1 DEF Moves, Navs
    <2> HIDE DEF n
    <2>5. /\ Moves(n(id), [n(id) EXCEPT !.by["Depth"] = "sk"], "sk")
          /\ [n(id) EXCEPT !.by["Depth"] = "sk"].mVar = n(id).mVar
      BY <2>4 DEF Moves, Navs, Channels, Free
    <2>6. /\ Moves(n(id), Claim(n(id), "Depth", 1, "sk"), "sk")
          /\ Claim(n(id), "Depth", 1, "sk").mVar = n(id).mVar
      BY <1>1, <2>4, ClaimOther DEF Data
    <2>7. Moves(n(id), n(id), "sk")
      BY <2>4, MovesNot
    <2>8. Moves(n(id), r(id), "sk") /\ r(id).mVar = nav.mVar
      BY <2>4, <2>5, <2>6, <2>7
    <2> HIDE DEF r
    <2>9. Moves(h, r(id), "sk")
      BY <1>1, <2>4, <2>8, MovesOn
    <2>10. Leaves(i, r(id))
      BY <2>3, <2>8, <2>9, DeltaLeaves DEF h
    <2> QED BY <2>2, <2>3, <2>10 DEF Done
  <1>5. CASE SkCourseMagnetic
    <2> DEFINE n == [h EXCEPT !.pri["COGSOG"] = 3]
    <2>1. PICK i \in Delta("courseOverGroundMagnetic") : Done(i, n)
      BY <1>5 DEF SkCourseMagnetic, h
    <2>2. i \in aboard /\ i.ch = "sk" /\ ~CarriesTrue(i)
      BY DEF Delta, CarriesTrue
    <2>3. Moves(h, n, "sk") /\ n.mVar = nav.mVar
      <3>1. n \in Navs /\ n.wd = h.wd /\ n.mVar = h.mVar /\ n.by = h.by
            /\ n.pri = [h.pri EXCEPT !["COGSOG"] = 3]
        BY <1>1 DEF Navs
      <3>2. \A d \in Data \ {"COGSOG"} : n.pri[d] = h.pri[d]
        BY <1>1, <3>1 DEF Navs
      <3>3. n.pri["HeadingT"] = h.pri["HeadingT"]
        BY <3>2 DEF Data
      <3> HIDE DEF n
      <3> QED BY <1>1, <3>1, <3>2, <3>3 DEF Moves
    <2> HIDE DEF n
    <2>4. Leaves(i, n)
      BY <2>2, <2>3, DeltaLeaves DEF h
    <2> QED BY <2>1, <2>2, <2>4 DEF Done
  <1> QED BY <1>2, <1>3, <1>4, <1>5

\* The position fix and the variation of the magnetic model, which re-arm
\* no watchdog but the one of the variation.
LEMMA FixLeaves ==
    ASSUME nav \in Navs, SetPositionFix \/ SetPluginMessage
    PROVE  \E i \in aboard :
              Done(i, nav') /\ Leaves(i, nav') /\ i.ch # "ocpn"
  <1> "fix" \in Channels /\ "wmm" \in Channels
    BY DEF Channels
  <1>1. Moves(nav, nav, "fix")
    BY MovesNot
  <1>2. CASE SetPositionFix
    <2> DEFINE n == Claim(nav, "Position", 1, "fix")
               p(moving) == IF moving THEN Claim(n, "COGSOG", 1, "fix") ELSE n
               v(i, moving) == IF i.x = "known"
                               THEN Variation(p(moving), "known", 1, "fix")
                               ELSE p(moving)
               r(i, moving) == Claim(v(i, moving), "DateTime", 6, "fix")
    <2>1. PICK i \in {j \in aboard : j.ch = "fix"}, moving \in BOOLEAN :
                Done(i, r(i, moving))
      BY <1>2 DEF SetPositionFix
    <2>2. i \in aboard /\ i.ch = "fix"
      BY <2>1
    <2>3. Moves(nav, n, "fix") /\ n \in Navs /\ n.mVar = nav.mVar
      BY ClaimOther DEF Data
    <2> HIDE DEF n
    <2>4. /\ Moves(n, p(moving), "fix") /\ p(moving) \in Navs
          /\ p(moving).mVar = n.mVar
      <3>1. Moves(n, n, "fix")
        BY <2>3, MovesNot
      <3>2. "COGSOG" \in Data \ {"HeadingT"} /\ 1 \in 1..6
        BY DEF Data
      <3>3. /\ Moves(n, Claim(n, "COGSOG", 1, "fix"), "fix")
            /\ Claim(n, "COGSOG", 1, "fix") \in Navs
            /\ Claim(n, "COGSOG", 1, "fix").mVar = n.mVar
        BY <2>3, <3>2, ClaimOther
      <3> QED BY <2>3, <3>1, <3>3
    <2> HIDE DEF p
    <2>5. /\ Moves(p(moving), v(i, moving), "fix") /\ v(i, moving) \in Navs
          /\ i.x # "known" => v(i, moving).mVar = p(moving).mVar
      <3>1. 1 \in 1..6
        OBVIOUS
      <3> QED BY <2>4, <3>1, VariationMoves, MovesNot
    <2> HIDE DEF v
    <2>6. /\ Moves(v(i, moving), r(i, moving), "fix")
          /\ r(i, moving).mVar = v(i, moving).mVar
      BY <2>5, ClaimOther DEF Data
    <2> HIDE DEF r
    <2>7. Moves(p(moving), r(i, moving), "fix")
      BY <2>4, <2>5, <2>6, MovesOn
    <2>8. Moves(n, r(i, moving), "fix")
      BY <2>3, <2>4, <2>7, MovesOn
    <2>9. Moves(nav, r(i, moving), "fix")
      BY <2>3, <2>8, MovesOn
    <2>10. NoVariation(aboard) => r(i, moving).mVar = nav.mVar
      BY <2>2, <2>3, <2>4, <2>5, <2>6 DEF NoVariation
    <2>11. ~(TrueClaimed(aboard) /\ CarriesTrue(i))
      BY <2>2 DEF TrueClaimed
    <2>12. Leaves(i, r(i, moving))
      BY <2>2, <2>9, <2>10, <2>11 DEF Leaves
    <2> QED BY <2>1, <2>2, <2>12 DEF Done
  <1>3. CASE SetPluginMessage
    <2> DEFINE v == Variation(nav, "known", 4, "wmm")
    <2>1. PICK i \in {j \in aboard : j.ch = "wmm"} : Done(i, v)
      BY <1>3 DEF SetPluginMessage
    <2>2. i \in aboard /\ i.ch = "wmm"
      BY <2>1
    <2>3. Moves(nav, v, "wmm")
      <3>1. 4 \in 1..6
        OBVIOUS
      <3> QED BY <3>1, VariationMoves
    <2>4. ~NoVariation(aboard) /\ ~(TrueClaimed(aboard) /\ CarriesTrue(i))
      BY <2>2 DEF TrueClaimed, NoVariation
    <2>5. Leaves(i, v)
      BY <2>2, <2>3, <2>4 DEF Leaves
    <2> QED BY <2>1, <2>2, <2>5 DEF Done
  <1> QED BY <1>2, <1>3

\* Every input is handled that way.
LEMMA InputLeaves ==
    ASSUME TypeOK, OpenCPN \/ SignalK \/ SetPositionFix \/ SetPluginMessage
    PROVE  \E i \in aboard : Done(i, nav') /\ Leaves(i, nav')
  <1>1. nav \in Navs
    BY DEF TypeOK, Navs
  <1> QED BY <1>1, NmeaClaimLeaves, CompassLeaves, TrueLeaves, RMCLeaves,
             AIVDOLeaves, SkClaimLeaves, SkCompassLeaves, SkTrueLeaves,
             SkRestLeaves, FixLeaves DEF OpenCPN, SignalK

-----------------------------------------------------------------------------
(***************************************************************************)
(* The inductive invariant: a watchdog and the time since the input that   *)
(* arms it move in opposite directions.                                    *)
(***************************************************************************)

\* The one that keeps the other channel out is armed by every delta, and the
\* one of all claims by every sentence and delta, so that neither expires
\* before its time-out.
NotBefore ==
    /\ nav.wd["SiK"] + since["sk"] >= Timeout
    /\ nav.wd["Src"] + since["sentence"] >= Timeout

\* A watchdog, and the displayed datum that it takes back.
Guarded == {<<"HDx", "HDM">>, <<"HDT", "HDT">>, <<"Var", "HMV">>}

\* None is armed without an input, so that none expires after its time-out;
\* until it is, it has taken back all that it guards.
NotAfter ==
    /\ \/ nav.wd["Src"] + since["any"] <= Timeout
       \/ \A d \in Data : nav.pri[d] = Free
    /\ \A g \in Guarded : \/ nav.wd[g[1]] + since["any"] <= Timeout
                          \/ nav.shown[g[2]] = "nan"

\* Without a variation no heading is calculated.  A true heading that claims
\* comes with a sentence or a delta, and keeps the claim.
TrueInv ==
    /\ NoVariation(aboard) =>
          nav.mVar = "nan" /\ nav.pri["HeadingT"] \notin {3, 4}
    /\ TrueClaimed(aboard) =>
          /\ since["true"] >= since["sentence"]
          /\ since["true"] < Timeout => nav.pri["HeadingT"] <= 2

\* The inductive invariant.
IInv == TypeOK /\ NotBefore /\ NotAfter /\ TrueInv

\* What the times since the inputs become.
LEMMA DoneTimes ==
    ASSUME TypeOK, NEW i, i.ch \in Channels, Done(i, nav')
    PROVE  /\ since' \in [Events -> 0..Timeout]
           /\ since'["any"] = 0
           /\ i.ch = "sk" => since'["sk"] = 0
           /\ i.ch # "sk" => since'["sk"] = since["sk"]
           /\ i.ch \in {"ocpn", "sk"} => since'["sentence"] = 0
           /\ i.ch \notin {"ocpn", "sk"} => since'["sentence"] = since["sentence"]
           /\ CarriesTrue(i) => since'["true"] = 0
           /\ ~CarriesTrue(i) => since'["true"] = since["true"]
           /\ aboard' = aboard
  BY TimeoutAssumption DEF TypeOK, Done, Events, EventsOf

\* The initial state.
LEMMA InitIInv == Init => IInv
  <1> SUFFICES ASSUME Init PROVE IInv
    OBVIOUS
  <1> USE TimeoutAssumption
  <1>1. TypeOK
    BY DEF Init, Initially, TypeOK, Free, Channels, Watchdogs, Shown, Events
  <1>2. NotBefore
    BY DEF Init, Initially, NotBefore, Watchdogs, Events
  <1>3. \A d \in Data : nav.pri[d] = Free
    BY DEF Init, Initially
  <1>4. NotAfter
    BY <1>3 DEF Init, Initially, NotAfter, Guarded, Shown
  <1>5. TrueInv
    BY <1>3 DEF Init, Initially, TrueInv, Events, Data, Free
  <1> QED BY <1>1, <1>2, <1>4, <1>5 DEF IInv

\* An input keeps the invariant, whatever its handler.
LEMMA InputIInv ==
    ASSUME IInv, NEW i \in aboard, Done(i, nav'), Leaves(i, nav')
    PROVE  IInv'
  <1> USE TimeoutAssumption
  <1>1. /\ Moves(nav, nav', i.ch) /\ i.ch \in Channels
        /\ i.ch = "sk" => nav'.wd["SiK"] = Timeout
        /\ i.ch \in {"ocpn", "sk"} => nav'.wd["Src"] = Timeout
    BY DEF Leaves
  <1>2. nav \in Navs /\ nav' \in Navs
    BY <1>1 DEF IInv, TypeOK, Navs, Moves
  <1>3. /\ since \in [Events -> 0..Timeout]
        /\ since' \in [Events -> 0..Timeout]
        /\ since'["any"] = 0
        /\ i.ch = "sk" => since'["sk"] = 0
        /\ i.ch # "sk" => since'["sk"] = since["sk"]
        /\ i.ch \in {"ocpn", "sk"} => since'["sentence"] = 0
        /\ i.ch \notin {"ocpn", "sk"} => since'["sentence"] = since["sentence"]
        /\ CarriesTrue(i) => since'["true"] = 0
        /\ ~CarriesTrue(i) => since'["true"] = since["true"]
        /\ aboard' = aboard
    BY <1>1, DoneTimes DEF IInv, TypeOK
  <1>4. \A w \in Watchdogs :
           /\ nav'.wd[w] \in {nav.wd[w], Timeout}
           /\ nav.wd[w] \in 0..Timeout /\ nav'.wd[w] \in 0..Timeout
    BY <1>1, <1>2 DEF Moves, Navs
  <1>5. TypeOK'
    <2>1. \A w \in Watchdogs \ {"SiK"} : nav'.wd[w] > 0
      BY <1>4 DEF IInv, TypeOK
    <2> QED BY <1>2, <1>3, <2>1 DEF IInv, TypeOK, Navs
  <1>6. NotBefore'
    BY <1>1, <1>3, <1>4 DEF IInv, NotBefore, Watchdogs, Events
  <1>7. NotAfter'
    BY <1>3, <1>4 DEF NotAfter, Guarded, Watchdogs
  <1>8. TrueInv'
    <2>1. NoVariation(aboard)' =>
             nav'.mVar = "nan" /\ nav'.pri["HeadingT"] \notin {3, 4}
      BY <1>1, <1>3 DEF IInv, TrueInv, Leaves, Moves, NoVariation
    <2>2. ASSUME TrueClaimed(aboard)
          PROVE  since'["true"] >= since'["sentence"]
      <3>1. CarriesTrue(i) => i.ch \in {"ocpn", "sk"}
        BY <2>2 DEF TrueClaimed
      <3> QED BY <1>3, <2>2, <3>1 DEF IInv, TrueInv, Events
    <2>3. ASSUME TrueClaimed(aboard), since'["true"] < Timeout
          PROVE  nav'.pri["HeadingT"] <= 2
      <3>1. CASE CarriesTrue(i)
        BY <2>3, <3>1 DEF Leaves
      <3>2. CASE ~CarriesTrue(i)
        <4>1. nav.pri["HeadingT"] <= 2
          BY <1>3, <2>3, <3>2 DEF IInv, TrueInv
        <4>2. nav'.pri["HeadingT"] <= nav.pri["HeadingT"]
          BY <1>1 DEF Moves, Data
        <4>3. nav'.pri["HeadingT"] \in Int /\ nav.pri["HeadingT"] \in Int
          BY <1>2 DEF Navs, Data, Free
        <4> QED BY <4>1, <4>2, <4>3
      <3> QED BY <3>1, <3>2
    <2> QED BY <1>3, <2>1, <2>2, <2>3 DEF TrueInv, TrueClaimed
  <1> QED BY <1>5, <1>6, <1>7, <1>8 DEF IInv

\* What the timer leaves of watchdogs and times.
LEMMA NotifyCounts ==
    ASSUME TypeOK, Notify
    PROVE  /\ nav' \in Navs /\ aboard' = aboard
           /\ since' \in [Events -> 0..Timeout]
           /\ \A e \in Events : \/ since[e] < Timeout /\ since'[e] = since[e] + 1
                                \/ since[e] = Timeout /\ since'[e] = Timeout
           /\ \A w \in Watchdogs :
                 /\ nav.wd[w] > 1 => nav'.wd[w] = nav.wd[w] - 1
                 /\ nav.wd[w] <= 1 => nav'.wd[w] = IF w = "SiK" THEN 0
                                                    ELSE Timeout
           /\ \A d \in Data : nav'.pri[d] \in {nav.pri[d], Free}
           /\ \A d \in Data : nav.wd["Src"] <= 1 => nav'.pri[d] = Free
           /\ \A d \in Data \ {"Var"} :
                 nav.wd["Src"] > 1 => nav'.pri[d] = nav.pri[d]
           /\ \A g \in Guarded : nav'.shown[g[2]] =
                 IF nav.wd[g[1]] <= 1 THEN "nan" ELSE nav.shown[g[2]]
           /\ nav'.by = nav.by
           /\ nav'.mVar \in {nav.mVar, "nan"}
  <1> USE TimeoutAssumption
  <1> DEFINE Forget(q, w) == IF Expired(w) THEN "nan" ELSE nav.shown[q]
             wd == [w \in Watchdogs |-> CountDown(w)]
             pri == [d \in Data |-> IF Released(d) THEN Free ELSE nav.pri[d]]
             mVar == IF Expired("Src") \/ Expired("Var") THEN "nan"
                     ELSE nav.mVar
             mHdm == IF Expired("HDx") THEN "nan"
                     ELSE IF Expired("Src") THEN "number" ELSE nav.mHdm
             shown == [HDM |-> Forget("HDM", "HDx"),
                       HDT |-> Forget("HDT", "HDT"),
                       HMV |-> Forget("HMV", "Var")]
  <1>1. nav \in Navs /\ since \in [Events -> 0..Timeout]
    BY DEF TypeOK, Navs
  <1>2. nav' = [nav EXCEPT !.wd = wd, !.pri = pri, !.mVar = mVar,
                           !.mHdm = mHdm, !.shown = shown]
    BY DEF Notify
  <1>3. /\ since' = [e \in Events |-> IF since[e] < Timeout THEN since[e] + 1
                                      ELSE Timeout]
        /\ aboard' = aboard
    BY DEF Notify
  <1>4. wd \in [Watchdogs -> 0..Timeout]
    BY <1>1 DEF Navs, CountDown, Expired
  <1>5. pri \in [Data -> 1..6 \cup {Free}]
    BY <1>1 DEF Navs
  <1>6. mVar \in {"nan", "number"} /\ mHdm \in {"nan", "number"}
    BY <1>1 DEF Navs
  <1>7. shown \in [Shown -> {"nan", "number"}]
    BY <1>1 DEF Navs, Shown
  <1>8. \A w \in Watchdogs :
           /\ nav.wd[w] > 1 => wd[w] = nav.wd[w] - 1
           /\ nav.wd[w] <= 1 => wd[w] = IF w = "SiK" THEN 0 ELSE Timeout
    BY <1>1 DEF Navs, CountDown, Expired
  <1>9. /\ \A d \in Data : pri[d] \in {nav.pri[d], Free}
        /\ \A d \in Data : nav.wd["Src"] <= 1 => pri[d] = Free
        /\ \A d \in Data \ {"Var"} : nav.wd["Src"] > 1 => pri[d] = nav.pri[d]
    BY <1>1 DEF Navs, Released, Expired, Watchdogs
  <1>10. \A g \in Guarded : shown[g[2]] =
            IF nav.wd[g[1]] <= 1 THEN "nan" ELSE nav.shown[g[2]]
    BY DEF Guarded, Expired
  <1>11. mVar \in {nav.mVar, "nan"}
    OBVIOUS
  <1> HIDE DEF wd, pri, mVar, mHdm, shown
  <1>12. nav' \in Navs
    BY <1>1, <1>2, <1>4, <1>5, <1>6, <1>7 DEF Navs
  <1>13. /\ nav'.wd = wd /\ nav'.pri = pri /\ nav'.shown = shown
         /\ nav'.by = nav.by /\ nav'.mVar = mVar
    BY <1>1, <1>2 DEF Navs
  <1>14. /\ since' \in [Events -> 0..Timeout]
         /\ \A e \in Events : \/ since[e] < Timeout /\ since'[e] = since[e] + 1
                              \/ since[e] = Timeout /\ since'[e] = Timeout
    BY <1>1, <1>3
  <1> QED BY <1>3, <1>8, <1>9, <1>10, <1>11, <1>12, <1>13, <1>14

\* The timer keeps the invariant.
LEMMA NotifyIInv == ASSUME IInv, Notify PROVE IInv'
  <1> USE TimeoutAssumption
  <1>1. nav \in Navs /\ since \in [Events -> 0..Timeout] /\ TypeOK
    BY DEF IInv, TypeOK, Navs
  <1>2. /\ nav' \in Navs /\ aboard' = aboard
        /\ since' \in [Events -> 0..Timeout]
    BY <1>1, NotifyCounts
  <1>3. \A e \in Events : \/ since[e] < Timeout /\ since'[e] = since[e] + 1
                          \/ since[e] = Timeout /\ since'[e] = Timeout
    BY <1>1, NotifyCounts
  <1>4. \A w \in Watchdogs :
           /\ nav.wd[w] > 1 => nav'.wd[w] = nav.wd[w] - 1
           /\ nav.wd[w] <= 1 => nav'.wd[w] = IF w = "SiK" THEN 0 ELSE Timeout
    BY <1>1, NotifyCounts
  <1>5. \A w \in Watchdogs : nav.wd[w] \in 0..Timeout /\ nav'.wd[w] \in 0..Timeout
    BY <1>1, <1>2 DEF Navs
  <1>6. \A w \in Watchdogs \ {"SiK"} : nav.wd[w] > 0
    BY <1>1 DEF TypeOK
  <1>7. TypeOK'
    <2>1. \A w \in Watchdogs \ {"SiK"} : nav'.wd[w] > 0
      BY <1>4, <1>5, <1>6
    <2> QED BY <1>1, <1>2, <2>1 DEF TypeOK, Navs
  <1>8. \A e \in Events : since[e] \in 0..Timeout /\ since'[e] \in 0..Timeout
    BY <1>1, <1>2
  <1>9. NotBefore'
    BY <1>3, <1>4, <1>5, <1>6, <1>8 DEF IInv, NotBefore, Watchdogs, Events
  <1>10. NotAfter'
    <2>1. \/ nav'.wd["Src"] + since'["any"] <= Timeout
          \/ \A d \in Data : nav'.pri[d] = Free
      <3>1. CASE nav.wd["Src"] <= 1
        BY <1>1, <3>1, NotifyCounts
      <3>2. CASE nav.wd["Src"] > 1 /\ nav.wd["Src"] + since["any"] <= Timeout
        BY <1>3, <1>4, <1>5, <1>8, <3>2 DEF Watchdogs, Events
      <3>3. CASE \A d \in Data : nav.pri[d] = Free
        BY <1>1, <3>3, NotifyCounts
      <3> QED BY <1>5, <3>1, <3>2, <3>3 DEF IInv, NotAfter, Watchdogs
    <2>2. ASSUME NEW g \in Guarded
          PROVE  \/ nav'.wd[g[1]] + since'["any"] <= Timeout
                 \/ nav'.shown[g[2]] = "nan"
      <3>1. g[1] \in Watchdogs \ {"SiK"}
        BY DEF Guarded, Watchdogs
      <3>2. nav'.shown[g[2]] = IF nav.wd[g[1]] <= 1 THEN "nan"
                               ELSE nav.shown[g[2]]
        BY <1>1, NotifyCounts
      <3>3. CASE nav.wd[g[1]] <= 1
        BY <3>2, <3>3
      <3>4. CASE nav.wd[g[1]] > 1 /\ nav.wd[g[1]] + since["any"] <= Timeout
        BY <1>3, <1>4, <1>5, <1>8, <3>1, <3>4 DEF Events
      <3>5. CASE nav.shown[g[2]] = "nan"
        BY <3>2, <3>5
      <3> QED BY <1>5, <3>1, <3>3, <3>4, <3>5 DEF IInv, NotAfter
    <2> QED BY <2>1, <2>2 DEF NotAfter
  <1>11. TrueInv'
    <2>1. nav'.pri["HeadingT"] \in {nav.pri["HeadingT"], Free}
          /\ nav'.mVar \in {nav.mVar, "nan"}
      BY <1>1, NotifyCounts DEF Data
    <2>2. ASSUME NoVariation(aboard)
          PROVE  nav'.mVar = "nan" /\ nav'.pri["HeadingT"] \notin {3, 4}
      BY <2>1, <2>2 DEF IInv, TrueInv, Free
    <2>3. ASSUME TrueClaimed(aboard)
          PROVE  since'["true"] >= since'["sentence"]
      BY <1>3, <1>8, <2>3 DEF IInv, TrueInv, Events
    <2>4. ASSUME TrueClaimed(aboard), since'["true"] < Timeout
          PROVE  nav'.pri["HeadingT"] <= 2
      <3>1. since["true"] < Timeout - 1 /\ since["sentence"] < Timeout - 1
        BY <1>3, <1>8, <2>4 DEF IInv, TrueInv, Events
      <3>2. nav.wd["Src"] > 1
        BY <1>5, <1>8, <3>1 DEF IInv, NotBefore, Events, Watchdogs
      <3>3. nav'.pri["HeadingT"] = nav.pri["HeadingT"]
        BY <1>1, <3>2, NotifyCounts DEF Data
      <3> QED BY <1>8, <2>4, <3>1, <3>3 DEF IInv, TrueInv, Events
    <2> QED BY <1>2, <2>2, <2>3, <2>4 DEF TrueInv
  <1> QED BY <1>7, <1>9, <1>10, <1>11 DEF IInv

\* Every step keeps the invariant.
LEMMA StepIInv == IInv /\ [Next]_vars => IInv'
  <1> SUFFICES ASSUME IInv, [Next]_vars PROVE IInv'
    OBVIOUS
  <1>1. CASE OpenCPN \/ SignalK \/ SetPositionFix \/ SetPluginMessage
    <2>1. PICK i \in aboard : Done(i, nav') /\ Leaves(i, nav')
      BY <1>1, InputLeaves DEF IInv
    <2> QED BY <2>1, InputIInv
  <1>2. CASE Notify
    BY <1>2, NotifyIInv
  <1>3. CASE UNCHANGED vars
    BY <1>3 DEF vars, IInv, TypeOK, NotBefore, NotAfter, TrueInv
  <1> QED BY <1>1, <1>2, <1>3 DEF Next

\* The inductive invariant holds always.
THEOREM Invariance == Spec => []IInv
  BY InitIInv, StepIInv, PTL DEF Spec

\* TypeOK: priorities, channels and watchdogs of dashboard_pi stay in their
\* ranges.
THEOREM TypeCorrect == Spec => []TypeOK
  BY Invariance, PTL DEF IInv

-----------------------------------------------------------------------------
(***************************************************************************)
(* The properties.                                                         *)
(***************************************************************************)

\* SilenceIsShown: after the time-out without any input no claim is left and
\* no guarded number is shown, whatever the order of the watchdogs.
THEOREM SilenceTakesBack == Spec => []SilenceIsShown
  <1>1. IInv => SilenceIsShown
    <2> SUFFICES ASSUME IInv, since["any"] >= Timeout
                 PROVE  /\ \A d \in Data : nav.pri[d] = Free
                        /\ \A q \in Shown : nav.shown[q] = "nan"
      BY DEF SilenceIsShown
    <2>1. \A w \in Watchdogs \ {"SiK"} :
             /\ nav.wd[w] \in 0..Timeout /\ nav.wd[w] > 0
             /\ ~(nav.wd[w] + since["any"] <= Timeout)
      BY TimeoutAssumption DEF IInv, TypeOK, Events
    <2>2. \A d \in Data : nav.pri[d] = Free
      BY <2>1 DEF IInv, NotAfter, Watchdogs
    <2>3. nav.shown["HDM"] = "nan" /\ nav.shown["HDT"] = "nan"
          /\ nav.shown["HMV"] = "nan"
      BY <2>1 DEF IInv, NotAfter, Guarded, Watchdogs
    <2> QED BY <2>2, <2>3 DEF Shown
  <1> QED BY <1>1, Invariance, PTL

\* CompassTrueStands: a boat whose compasses of true heading all claim it, or
\* that has no variation to calculate one with, keeps that heading for the
\* time-out.  The true heading of Signal K that was no water speed sentence
\* claims nothing, so that the condition is needed.
THEOREM CompassTrueKept ==
    (\A b \in Boats : NoVariation(b) \/ TrueClaimed(b))
        => (Spec => []CompassTrueStands)
  <1> SUFFICES ASSUME \A b \in Boats : NoVariation(b) \/ TrueClaimed(b)
               PROVE  Spec => []CompassTrueStands
    OBVIOUS
  <1>1. IInv => CompassTrueStands
    <2> SUFFICES ASSUME IInv, since["true"] < Timeout
                 PROVE  nav.pri["HeadingT"] \notin {3, 4}
      BY DEF CompassTrueStands
    <2>1. NoVariation(aboard) \/ TrueClaimed(aboard)
      BY DEF IInv, TypeOK
    <2> QED BY <2>1 DEF IInv, TrueInv
  <1> QED BY <1>1, Invariance, PTL

\* No claim is dropped while sentences or deltas come within the time-out.
LEMMA StepClaims ==
    ASSUME IInv, [Next]_vars, NEW d \in Data \ {"Var", "COGSOG"},
           nav'.pri[d] > nav.pri[d]
    PROVE  since'["sentence"] >= Timeout
  <1>1. nav \in Navs /\ nav.pri[d] \in Int
    BY DEF IInv, TypeOK, Navs, Free
  <1>2. CASE OpenCPN \/ SignalK \/ SetPositionFix \/ SetPluginMessage
    <2>1. PICK i \in aboard : Leaves(i, nav')
      BY <1>2, InputLeaves DEF IInv
    <2>2. nav'.pri[d] <= nav.pri[d] /\ nav'.pri[d] \in Int
      BY <2>1 DEF Leaves, Moves, Navs, Free
    <2> QED BY <1>1, <2>2
  <1>3. CASE Notify
    <2>1. ~(nav.wd["Src"] > 1)
      BY <1>1, <1>3, NotifyCounts DEF IInv
    <2>2. nav.wd["Src"] \in Int /\ since["sentence"] \in 0..Timeout
      BY DEF IInv, TypeOK, Watchdogs, Events
    <2>3. since["sentence"] >= Timeout - 1
      BY <2>1, <2>2, TimeoutAssumption DEF IInv, NotBefore
    <2>4. \/ since["sentence"] < Timeout /\ since'["sentence"] = since["sentence"] + 1
          \/ since["sentence"] = Timeout /\ since'["sentence"] = Timeout
      BY <1>3, NotifyCounts DEF IInv, Events
    <2> QED BY <2>2, <2>3, <2>4, TimeoutAssumption
  <1>4. CASE UNCHANGED vars
    BY <1>1, <1>4 DEF vars
  <1> QED BY <1>2, <1>3, <1>4 DEF Next

\* ClaimsHold: while sentences or deltas keep coming within the time-out,
\* only a better source takes a datum from the one that has claimed it.
THEOREM ClaimsAreKept == Spec => ClaimsHold
  <1>1. IInv /\ [Next]_vars => [\A d \in Data \ {"Var", "COGSOG"} :
            nav'.pri[d] > nav.pri[d] => since'["sentence"] >= Timeout]_vars
    BY StepClaims
  <1> QED BY <1>1, Invariance, PTL DEF Spec, ClaimsHold

\* A sentence that is let in beside Signal K takes only what Signal K has not.
LEMMA ShutOut ==
    ASSUME TypeOK, OpenCPN, nav.wd["SiK"] > 0,
           NEW d \in Data \ {"TWA", "DateTime"}
    PROVE  nav'.by[d] = nav.by[d]
  <1>1. nav \in Navs
    BY DEF TypeOK, Navs
  <1>2. /\ ~HDG /\ ~HDM /\ ~HDT /\ ~VHW /\ ~RMC /\ ~AIVDO
    BY DEF HDG, HDM, HDT, VHW, RMC, AIVDO, Nmea, NotInSignalK
  <1>3. CASE NmeaClaim
    <2>0. PICK t \in {NmeaPosition, NmeaWind, NmeaOther} : \E id \in DOMAIN t :
                \E i \in Nmea(id) :
                    Done(i, Claim(NmeaHeard, t[id][1], t[id][2], "ocpn"))
      BY <1>3 DEF NmeaClaim
    <2>1. PICK id \in DOMAIN t : \E i \in Nmea(id) :
                    Done(i, Claim(NmeaHeard, t[id][1], t[id][2], "ocpn"))
      BY <2>0
    <2>2. id \in {"VWT", "ZDA"}
      <3>1. id \in NotInSignalK
        BY <2>1 DEF Nmea
      <3> QED BY <3>1 DEF NotInSignalK, NmeaPosition, NmeaWind, NmeaOther
    <2>3. t[id][1] \in {"TWA", "DateTime"}
      BY <2>2 DEF NmeaPosition, NmeaWind, NmeaOther
    <2> DEFINE e == t[id][1]
               p == t[id][2]
    <2> HIDE DEF e, p
    <2>4. nav' = Claim(NmeaHeard, e, p, "ocpn")
      BY <2>1 DEF Done, e, p
    <2>5. NmeaHeard \in Navs /\ NmeaHeard.by = nav.by
      BY <1>1, HeardMoves
    <2>6. e # d
      BY <2>3 DEF e
    <2> QED BY <2>4, <2>5, <2>6 DEF Claim, Navs
  <1>4. CASE NmeaPlain
    BY <1>1, <1>4, HeardMoves DEF NmeaPlain, Done
  <1> QED BY <1>2, <1>3, <1>4 DEF OpenCPN

\* Until Signal K has been silent for the time-out, it keeps what it has.
LEMMA StepSignalK ==
    ASSUME IInv, [Next]_vars, NEW d \in Data \ {"TWA", "DateTime"},
           nav.by[d] = "sk", nav'.by[d] = "ocpn"
    PROVE  since["sk"] >= Timeout
  <1>1. CASE OpenCPN
    <2>1. ~(nav.wd["SiK"] > 0)
      BY <1>1, ShutOut DEF IInv
    <2>2. nav.wd["SiK"] \in 0..Timeout /\ since["sk"] \in 0..Timeout
      BY DEF IInv, TypeOK, Watchdogs, Events
    <2> QED BY <2>1, <2>2, TimeoutAssumption DEF IInv, NotBefore
  <1>2. CASE SignalK \/ SetPositionFix \/ SetPluginMessage
    <2>1. nav \in Navs
      BY DEF IInv, TypeOK, Navs
    <2>2. PICK i \in aboard : Leaves(i, nav') /\ i.ch # "ocpn"
      BY <1>2, <2>1, SkClaimLeaves, SkCompassLeaves, SkTrueLeaves,
         SkRestLeaves, FixLeaves DEF SignalK
    <2>3. nav'.by[d] \in {nav.by[d], i.ch}
      BY <2>2 DEF Leaves, Moves
    <2> QED BY <2>2, <2>3
  <1>3. CASE Notify
    BY <1>3, NotifyCounts DEF IInv
  <1>4. CASE UNCHANGED vars
    BY <1>4 DEF vars
  <1> QED BY <1>1, <1>2, <1>3, <1>4 DEF Next

\* SignalKFirst: no sentence takes over what Signal K delivered before Signal
\* K has been silent for the whole time-out.
THEOREM SignalKKeepsPriority == Spec => SignalKFirst
  <1>1. IInv /\ [Next]_vars => [\A d \in Data \ {"TWA", "DateTime"} :
            nav.by[d] = "sk" /\ nav'.by[d] = "ocpn"
                => since["sk"] >= Timeout]_vars
    BY StepSignalK
  <1> QED BY <1>1, Invariance, PTL DEF Spec, SignalKFirst
=============================================================================
