--------------------------- MODULE EngineDJGProofs ---------------------------
(***************************************************************************)
(* Proofs about the engine monitor: the value on the display belongs to    *)
(* the path in the title, and what the user has picked is what is kept,    *)
(* for every set of paths, every grace time and every kind of browser.     *)
(***************************************************************************)
EXTENDS EngineDJG, NaturalsInduction, WellFoundedInduction, SequenceTheorems,
        TLAPS

-----------------------------------------------------------------------------
(* Sequences.                                                              *)

\* A set of positions has a first one.
LEMMA FirstOf ==
    ASSUME NEW S \in SUBSET Nat, S # {}
    PROVE  Min(S) \in S /\ \A y \in S : Min(S) <= y
  <1> DEFINE R == OpToRel(LAMBDA a, b : a < b, Nat)
  <1>1. IsWellFoundedOn(R, Nat)
    BY NatLessThanWellFounded
  <1>2. \A a \in Nat, b \in Nat : a < b => <<a, b>> \in R
    BY DEF OpToRel
  <1> HIDE DEF R
  <1>3. PICK Q : /\ IsWellFoundedOn(Q, Nat)
                 /\ \A a \in Nat, b \in Nat : a < b => <<a, b>> \in Q
    BY <1>1, <1>2, Zenon
  <1>4. PICK x \in S : \A y \in S : ~(<<y, x>> \in Q)
    <2>1. IsWellFoundedOn(Q, Nat) /\ S \subseteq Nat
      BY <1>3
    <2> QED BY <2>1, WFMin
  <1>5. ASSUME NEW y \in S PROVE x <= y
    <2>1. x \in Nat /\ y \in Nat
      OBVIOUS
    <2>2. ~(y < x)
      BY <1>3, <1>4, <2>1, Zenon
    <2> QED BY <2>1, <2>2
  <1> QED BY <1>5 DEF Min

\* The first cookie of a name.
First(jar, name) == SelectInSeq(jar, LAMBDA c : c.name = name)

\* It is none, or a cookie of the name with none of that name before it.
LEMMA FirstIs ==
    ASSUME NEW jar, Len(jar) \in Nat, NEW name
    PROVE  \/ First(jar, name) = 0 /\ \A i \in 1..Len(jar) : jar[i].name # name
           \/ /\ First(jar, name) \in 1..Len(jar)
              /\ jar[First(jar, name)].name = name
              /\ \A i \in 1..Len(jar) : jar[i].name = name => First(jar, name) <= i
  <1> DEFINE hits == {i \in 1..Len(jar) : jar[i].name = name}
  <1>1. First(jar, name) = IF hits # {} THEN Min(hits) ELSE 0
    BY DEF First, SelectInSeq
  <1>2. CASE hits = {}
    BY <1>1, <1>2
  <1>3. CASE hits # {}
    <2>1. hits \in SUBSET Nat
      OBVIOUS
    <2>2. Min(hits) \in hits /\ \A i \in hits : Min(hits) <= i
      <3> HIDE DEF hits
      <3> QED BY <1>3, <2>1, FirstOf
    <2> QED BY <1>1, <1>3, <2>2
  <1> QED BY <1>2, <1>3

-----------------------------------------------------------------------------
(* The table of paths.                                                     *)

\* A table of n entries that are dials or charts.
Styled(s, n) ==
    /\ n \in Nat /\ s = [i \in 1..n |-> s[i]]
    /\ \A i \in 1..n : s[i].display \in {"dial", "chart"}

\* Two of them, one behind the other.
LEMMA StyledBoth ==
    ASSUME NEW s, NEW n, Styled(s, n), NEW t, NEW m, Styled(t, m)
    PROVE  Styled(s \o t, n + m)
  <1> DEFINE S == {s[i] : i \in 1..n} \cup {t[i] : i \in 1..m}
  <1>1. /\ n \in Nat /\ s = [i \in 1..n |-> s[i]]
        /\ m \in Nat /\ t = [i \in 1..m |-> t[i]]
    BY DEF Styled
  <1>2. s \in [1..n -> S] /\ t \in [1..m -> S]
    BY <1>1
  <1> HIDE DEF S
  <1>3. s \in Seq(S) /\ t \in Seq(S) /\ Len(s) = n /\ Len(t) = m
    BY <1>1, <1>2
  <1>4. s \o t \in Seq(S) /\ Len(s \o t) = n + m
    BY <1>1, <1>3
  <1>5. s \o t = [i \in 1..(n + m) |-> (s \o t)[i]]
    BY <1>1, <1>4
  <1>6. \A i \in 1..(n + m) :
            (s \o t)[i] = IF i <= n THEN s[i] ELSE t[i - n]
    BY <1>1, <1>3, ConcatProperties
  <1>7. ASSUME NEW i \in 1..(n + m)
        PROVE  (s \o t)[i].display \in {"dial", "chart"}
    <2>1. CASE i <= n
      BY <1>1, <1>6, <2>1 DEF Styled
    <2>2. CASE ~(i <= n)
      <3>1. i - n \in 1..m
        BY <1>1, <2>2
      <3> QED BY <1>6, <2>2, <3>1 DEF Styled
    <2> QED BY <2>1, <2>2
  <1> QED BY <1>1, <1>5, <1>7 DEF Styled

\* An entry of the table is a dial or a chart.
LEMMA TableIs == Styled(KnownPaths, Len(KnownPaths))
  <1>1. Styled(EnergyPaths, 3)
    BY DEF EnergyPaths, Energy, Entry, Styled
  <1>2. Styled(EnginePaths1, 7)
    BY DEF EnginePaths1, Engine, Entry, Styled
  <1>3. Styled(EnginePaths2, 8)
    BY DEF EnginePaths2, Engine, Entry, Styled
  <1>4. Styled(SailingPaths, 6)
    BY DEF SailingPaths, Chart, Entry, Styled
  <1>5. Styled(PolarPaths, 4)
    BY DEF PolarPaths, Chart, Entry, Styled
  <1>6. Styled(EnergyPaths \o EnginePaths1, 10)
    BY <1>1, <1>2, StyledBoth
  <1>7. Styled(EnergyPaths \o EnginePaths1 \o EnginePaths2, 18)
    BY <1>3, <1>6, StyledBoth
  <1>8. Styled(EnergyPaths \o EnginePaths1 \o EnginePaths2 \o SailingPaths, 24)
    BY <1>4, <1>7, StyledBoth
  <1>9. Styled(KnownPaths, 28)
    BY <1>5, <1>8, StyledBoth DEF KnownPaths
  <1>10. Len(KnownPaths) = 28
    BY <1>9 DEF Styled
  <1> QED BY <1>9, <1>10

\* What the menu lets the user select becomes a configuration of that path.
LEMMA DefaultsAre ==
    ASSUME NEW p \in Paths, HasPathEntry(p)
    PROVE  /\ DefaultsOf(p) \in Confs /\ DefaultsOf(p).path = p
           /\ ConfOfSelected(p) \in Confs /\ ConfOfSelected(p).path = p
  <1> DEFINE e == Elements[p]
             hits == {i \in 1..Len(KnownPaths) : Matches(KnownPaths[i].path, e)}
             k == PathEntry(e)
  <1>1. k = IF hits # {} THEN Min(hits) ELSE 0
    BY DEF PathEntry, SelectInSeq
  <1>2. Len(KnownPaths) \in Nat
    BY TableIs DEF Styled
  <1>3. hits # {} /\ hits \in SUBSET Nat
    BY <1>1, <1>2 DEF HasPathEntry
  <1>4. Min(hits) \in hits
    <2> HIDE DEF hits
    <2> QED BY <1>3, FirstOf
  <1>5. k \in 1..Len(KnownPaths)
    BY <1>1, <1>3, <1>4
  <1> HIDE DEF k, hits
  <1>6. KnownPaths[k].display \in {"dial", "chart"}
    BY <1>5, TableIs DEF Styled
  <1>7. SkPathLookup(e).display \in Displays
    BY <1>6 DEF SkPathLookup, k, Displays
  <1>8. DefaultsOf(p) \in Confs /\ DefaultsOf(p).path = p
    BY <1>7 DEF DefaultsOf, EmptyConf, Confs, NoPath, e
  <1>9. EmptyConf \in Confs /\ EmptyConf.path = NoPath
    BY DEF EmptyConf, Confs, NoPath, Displays
  <1>10. CheckConf(DefaultsOf(p)) = NoConf => p = NoPath
    <2>1. DefaultsOf(p).version = 1 /\ DefaultsOf(p).sameKeys = TRUE
      BY <1>8 DEF Confs
    <2>2. NoConf.version = 0
      BY DEF NoConf, EmptyConf
    <2> QED BY <1>8, <2>1, <2>2 DEF CheckConf
  <1> QED BY <1>8, <1>9, <1>10 DEF ConfOfSelected

-----------------------------------------------------------------------------
(* Cookies.                                                                *)

\* Setting a cookie replaces the one of its name, if there is one.
LEMMA SetCookieIs ==
    ASSUME NEW jar, NEW cookie, "cookies" \in policy
    PROVE  SetCookie(jar, cookie) =
             IF First(jar, cookie.name) = 0 THEN Append(jar, cookie)
             ELSE ReplaceAt(jar, First(jar, cookie.name), cookie)
  BY DEF SetCookie, First

\* The cookie that getParam reads.
LEMMA GetParamIs ==
    ASSUME NEW C, NEW jar \in Seq(C), NEW name
    PROVE  GetParam(jar, name) = IF First(jar, name) = 0 THEN <<>>
                                 ELSE <<jar[First(jar, name)].value>>
  <1> DEFINE hits == {i \in 1..Len(jar) : jar[i].name = name}
  <1>1. {i \in DOMAIN jar : CellNames(jar)[i] = <<i # 1, name>>} = hits
    BY DEF CellNames
  <1>2. GetParam(jar, name) = IF hits = {} THEN <<>> ELSE <<jar[Min(hits)].value>>
    BY <1>1 DEF GetParam
  <1>3. First(jar, name) = IF hits # {} THEN Min(hits) ELSE 0
    BY DEF First, SelectInSeq
  <1>4. hits # {} => Min(hits) # 0
    <2>1. hits \in SUBSET Nat /\ 0 \notin hits
      OBVIOUS
    <2> HIDE DEF hits
    <2> QED BY <2>1, FirstOf
  <1> QED BY <1>2, <1>3, <1>4

\* A cookie that has been set is the only one of its name, and is read.
LEMMA SetIsRead ==
    ASSUME NEW C, NEW jar \in Seq(C), OneOfAName(jar), NEW cookie \in C,
           "cookies" \in policy
    PROVE  LET set == SetCookie(jar, cookie)
           IN  /\ set \in Seq(C) /\ OneOfAName(set)
               /\ GetParam(set, cookie.name) = <<cookie.value>>
               /\ First(set, cookie.name) # 0
  <1> DEFINE set == SetCookie(jar, cookie)
             k == First(jar, cookie.name)
             n == First(set, cookie.name)
  <1>1. CASE k = 0
    <2>1. set = Append(jar, cookie)
      BY <1>1, SetCookieIs
    <2>2. /\ set \in Seq(C) /\ Len(set) = Len(jar) + 1
          /\ set[Len(jar) + 1] = cookie
          /\ \A i \in 1..Len(jar) : set[i] = jar[i]
      BY <2>1
    <2>3. \A i \in 1..Len(jar) : jar[i].name # cookie.name
      BY <1>1, FirstIs
    <2>4. OneOfAName(set)
      BY <2>2, <2>3 DEF OneOfAName
    <2>5. n # 0 /\ set[n] = cookie
      <3>1. Len(jar) + 1 \in 1..Len(set) /\ Len(set) \in Nat
        BY <2>2
      <3>2. n \in 1..Len(set) /\ set[n].name = cookie.name
        BY <2>2, <3>1, FirstIs
      <3>3. n \notin 1..Len(jar)
        BY <2>2, <2>3, <3>2
      <3>4. n = Len(jar) + 1
        BY <2>2, <3>2, <3>3
      <3> QED BY <2>2, <3>4
    <2> HIDE DEF set, n
    <2>6. n # 0 => GetParam(set, cookie.name) = <<set[n].value>>
      BY <2>2, GetParamIs DEF n
    <2> QED BY <2>2, <2>4, <2>5, <2>6 DEF set, n
  <1>2. CASE k # 0
    <2>1. k \in 1..Len(jar) /\ jar[k].name = cookie.name
      BY <1>2, FirstIs
    <2>2. set = [jar EXCEPT ![k] = cookie]
      BY <1>2, SetCookieIs DEF ReplaceAt
    <2>3. /\ set \in Seq(C) /\ Len(set) = Len(jar) /\ set[k] = cookie
          /\ \A i \in 1..Len(jar) : i # k => set[i] = jar[i]
      BY <2>1, <2>2
    <2>4. \A i \in 1..Len(jar) : set[i].name = jar[i].name
      BY <2>1, <2>3
    <2>5. OneOfAName(set)
      BY <2>3, <2>4 DEF OneOfAName
    <2>6. n # 0 /\ set[n] = cookie
      <3>1. n \in 1..Len(set) /\ set[n].name = cookie.name
        BY <2>1, <2>3, FirstIs
      <3>2. n = k
        BY <2>1, <2>3, <2>5, <3>1 DEF OneOfAName
      <3> QED BY <2>3, <3>1, <3>2
    <2> HIDE DEF set, n
    <2>7. n # 0 => GetParam(set, cookie.name) = <<set[n].value>>
      BY <2>3, GetParamIs DEF n
    <2> QED BY <2>3, <2>5, <2>6, <2>7 DEF set, n
  <1> QED BY <1>1, <1>2

\* Deleting the cookie of a name leaves the others.
LEMMA DeleteLeaves ==
    ASSUME NEW C, NEW jar \in Seq(C), OneOfAName(jar), NEW name,
           "cookies" \in policy
    PROVE  LET rest == DeleteParam(jar, name)
           IN  /\ rest \in Seq({c \in C : c.name # name})
               /\ OneOfAName(rest)
  <1> DEFINE rest == DeleteParam(jar, name)
             D == {c \in C : c.name # name}
             k == First(jar, name)
             len == Len(jar)
  <1>1. rest = IF k = 0 THEN jar ELSE RemoveAt(jar, k)
    BY DEF DeleteParam, First
  <1>2. CASE k = 0
    <2>1. rest = jar /\ \A i \in 1..len : jar[i].name # name
      BY <1>1, <1>2, FirstIs
    <2>2. \A i \in 1..len : jar[i] \in D
      BY <2>1
    <2> HIDE DEF D
    <2>3. jar \in Seq(D)
      BY <2>2
    <2> QED BY <2>1, <2>3 DEF D
  <1>3. CASE k # 0
    <2>1. k \in 1..len /\ jar[k].name = name /\ len \in Nat
      BY <1>3, FirstIs
    <2>2. /\ rest \in Seq(C) /\ Len(rest) = len - 1
          /\ \A i \in 1..(len - 1) : rest[i] = IF i < k THEN jar[i] ELSE jar[i + 1]
      <3> DEFINE front == SubSeq(jar, 1, k - 1)
                 back  == SubSeq(jar, k + 1, len)
      <3>1. front \in Seq(C) /\ Len(front) = k - 1
            /\ \A i \in 1..(k - 1) : front[i] = jar[i]
        BY <2>1
      <3>2. back \in Seq(C) /\ Len(back) = len - k
            /\ \A i \in 1..(len - k) : back[i] = jar[i + k]
        BY <2>1
      <3>3. rest = front \o back
        BY <1>1, <1>3 DEF RemoveAt
      <3> HIDE DEF front, back, rest
      <3>4. rest \in Seq(C) /\ Len(rest) = len - 1
        BY <2>1, <3>1, <3>2, <3>3
      <3>5. ASSUME NEW i \in 1..(len - 1)
            PROVE  rest[i] = IF i < k THEN front[i] ELSE back[i - k + 1]
        <4>1. i \in 1..(Len(front) + Len(back))
          BY <2>1, <3>1, <3>2
        <4>2. rest[i] = IF i <= Len(front) THEN front[i]
                        ELSE back[i - Len(front)]
          BY <3>1, <3>2, <3>3, <4>1, ConcatProperties
        <4>3. i \in Int /\ k \in Int /\ Len(front) = k - 1
          BY <2>1, <3>1
        <4>4. i - Len(front) = i - k + 1 /\ (i <= Len(front) <=> i < k)
          BY <4>3
        <4> QED BY <4>2, <4>4
      <3>6. ASSUME NEW i \in 1..(len - 1), ~(i < k)
            PROVE  back[i - k + 1] = jar[i + 1]
        <4>1. i - k + 1 \in 1..(len - k) /\ (i - k + 1) + k = i + 1
          BY <2>1, <3>6
        <4> QED BY <3>2, <4>1
      <3>7. ASSUME NEW i \in 1..(len - 1), i < k PROVE front[i] = jar[i]
        BY <2>1, <3>1, <3>7
      <3> QED BY <3>4, <3>5, <3>6, <3>7
    <2> HIDE DEF rest
    <2>3. ASSUME NEW i \in 1..(len - 1)
          PROVE  \E j \in 1..len : /\ rest[i] = jar[j] /\ j # k
                                   /\ j = IF i < k THEN i ELSE i + 1
      BY <2>1, <2>2
    <2>4. \A j \in 1..len : j # k => jar[j].name # name
      BY <2>1 DEF OneOfAName
    <2>5. \A i \in 1..(len - 1) : rest[i] \in D
      BY <2>2, <2>3, <2>4
    <2>6. rest \in Seq(D)
      <3> HIDE DEF D
      <3> QED BY <2>2, <2>5
    <2>7. OneOfAName(rest)
      <3> SUFFICES ASSUME NEW i \in 1..(len - 1), NEW j \in 1..(len - 1),
                          rest[i].name = rest[j].name
                   PROVE  i = j
        BY <2>2 DEF OneOfAName
      <3>1. PICK a \in 1..len : /\ rest[i] = jar[a] /\ a # k
                                /\ a = IF i < k THEN i ELSE i + 1
        BY <2>3
      <3>2. PICK b \in 1..len : /\ rest[j] = jar[b] /\ b # k
                                /\ b = IF j < k THEN j ELSE j + 1
        BY <2>3
      <3>3. a = b
        BY <3>1, <3>2 DEF OneOfAName
      <3> QED BY <2>1, <3>1, <3>2, <3>3
    <2> QED BY <2>6, <2>7 DEF rest
  <1> QED BY <1>2, <1>3

-----------------------------------------------------------------------------
(* What is kept.                                                           *)

\* A store with the objects and the jar that may be there.
StoreOK(s) ==
    /\ s \in [static : Objects, local : Objects, jar : Seq(Cookies)]
    /\ OneOfAName(s.jar)

\* The cookie of the self-test.
TestCookie == Cookie(TestName, "test")

\* The names of cookies are three.
LEMMA NamesDiffer ==
    /\ ConfName # OtherName /\ TestName \notin {ConfName, OtherName}
    /\ TestCookie.name = TestName /\ TestCookie.value = "test"
  <1>1. "uid" # "random" /\ "other uid" # "random" /\ "uid" # "other uid"
    OBVIOUS
  <1> QED BY <1>1 DEF ConfName, OtherName, TestName, TestCookie, Cookie

\* The self-test finds out what the browser allows, and leaves no cookie.
LEMMA SelfTestFinds ==
    ASSUME StoreOK(store), policy \subseteq Kept, SelfTest
    PROVE  tested' = policy /\ StoreOK(AfterSelfTest(store))
  <1> DEFINE jar == store.jar
             C == Cookies \cup {TestCookie}
             set == WithTestCookie(store)
  <1>1. jar \in Seq(Cookies) /\ OneOfAName(jar)
    BY DEF StoreOK
  <1>2. jar \in Seq(C) /\ TestCookie \in C
    BY <1>1
  <1>3. \A c \in Cookies : c.name # TestName
    BY NamesDiffer DEF Cookies
  <1>4. CASE "cookies" \in policy
    <2>1. set = SetCookie(jar, TestCookie)
      BY DEF WithTestCookie, SaveParam, TestCookie
    <2> HIDE DEF C
    <2>2. /\ set \in Seq(C) /\ OneOfAName(set)
          /\ GetParam(set, TestName) = <<"test">>
      BY <1>1, <1>2, <1>4, <2>1, SetIsRead, NamesDiffer
    <2>3. CookieIsRead(store)
      BY <2>2 DEF CookieIsRead
    <2> DEFINE rest == DeleteParam(set, TestName)
    <2>4. rest \in Seq({c \in C : c.name # TestName}) /\ OneOfAName(rest)
      BY <1>4, <2>2, DeleteLeaves
    <2>5. {c \in C : c.name # TestName} = Cookies
      BY <1>3, NamesDiffer DEF C
    <2>6. AfterSelfTest(store) = [store EXCEPT !.jar = rest]
      BY <2>3 DEF AfterSelfTest
    <2> HIDE DEF rest, set
    <2>7. StoreOK(AfterSelfTest(store))
      BY <2>4, <2>5, <2>6 DEF StoreOK
    <2>8. tested' = policy
      BY <1>4, <2>3 DEF SelfTest, Kept
    <2> QED BY <2>7, <2>8
  <1>5. CASE "cookies" \notin policy
    <2>1. set = jar
      BY <1>5 DEF WithTestCookie, SaveParam, SetCookie
    <2>2. First(jar, TestName) = 0
      <3>1. \A i \in 1..Len(jar) : jar[i].name # TestName
        BY <1>1, <1>3
      <3>2. Len(jar) \in Nat
        BY <1>1
      <3> QED BY <3>1, <3>2, FirstIs
    <2>3. GetParam(jar, TestName) = <<>>
      BY <1>1, <2>2, GetParamIs
    <2>4. ~CookieIsRead(store)
      BY <2>1, <2>3 DEF CookieIsRead
    <2>5. AfterSelfTest(store) = [store EXCEPT !.jar = jar]
      BY <2>1, <2>4 DEF AfterSelfTest
    <2>6. StoreOK(AfterSelfTest(store))
      BY <2>5 DEF StoreOK
    <2>7. tested' = policy
      BY <1>5, <2>4 DEF SelfTest, Kept
    <2> QED BY <2>6, <2>7
  <1> QED BY <1>4, <1>5

\* What is loaded is an object.
LEMMA LoadedIs ==
    ASSUME NEW s, StoreOK(s), NEW works
    PROVE  LoadConf(s, works) \in Objects
  <1>1. NoConf \in Objects
    BY DEF Objects, Foreign
  <1>2. GetCookieObj(s) \in Objects
    <2> DEFINE k == First(s.jar, ConfName)
    <2>1. s.jar \in Seq(Cookies)
      BY DEF StoreOK
    <2>2. GetParam(s.jar, ConfName) = IF k = 0 THEN <<>> ELSE <<s.jar[k].value>>
      BY <2>1, GetParamIs
    <2>3. k # 0 => s.jar[k].value \in Objects
      <3>1. Len(s.jar) \in Nat
        BY <2>1
      <3>2. k # 0 => k \in 1..Len(s.jar)
        BY <3>1, FirstIs
      <3> HIDE DEF k
      <3>3. k # 0 => s.jar[k] \in Cookies
        BY <2>1, <3>2
      <3> QED BY <3>3 DEF Cookies
    <2> HIDE DEF k
    <2> QED BY <1>1, <2>2, <2>3 DEF GetCookieObj
  <1> QED BY <1>1, <1>2 DEF LoadConf, GetObj, StoreOK

\* What has been saved is what will be loaded, wherever it can be kept.
LEMMA SavedIsLoaded ==
    ASSUME NEW s, StoreOK(s), NEW obj \in Objects,
           NEW works \in SUBSET policy, policy \subseteq Kept
    PROVE  /\ StoreOK(Saved(s, works, obj))
           /\ Saved(s, works, obj).static = s.static
           /\ obj # NoConf /\ s.static = NoConf /\ works # {}
                => LoadConf(Saved(s, works, obj), works) = obj
  <1> DEFINE t == Saved(s, works, obj)
  <1>1. CASE obj = NoConf \/ s.static # NoConf \/ works = {}
    <2>1. t = s
      BY <1>1 DEF Saved
    <2> QED BY <1>1, <2>1
  <1>2. CASE /\ ~(obj = NoConf \/ s.static # NoConf) /\ "local" \in works
    <2>1. t = [s EXCEPT !.local = obj]
      BY <1>2 DEF Saved, SaveObj
    <2>2. StoreOK(t) /\ t.static = s.static /\ t.local = obj
      BY <2>1 DEF StoreOK
    <2> QED BY <1>2, <2>2 DEF LoadConf, GetObj
  <1>3. CASE /\ ~(obj = NoConf \/ s.static # NoConf) /\ works # {}
             /\ "local" \notin works
    <2> DEFINE c == Cookie(ConfName, obj)
               set == SetCookie(s.jar, c)
    <2>1. "cookies" \in works /\ "cookies" \in policy
      BY <1>3 DEF Kept
    <2>2. t = [s EXCEPT !.jar = set]
      BY <1>3, <2>1 DEF Saved, SaveCookieObj, SaveParam
    <2>3. c \in Cookies /\ c.name = ConfName /\ c.value = obj
      BY DEF Cookie, Cookies
    <2>4. s.jar \in Seq(Cookies) /\ OneOfAName(s.jar)
      BY DEF StoreOK
    <2> HIDE DEF c
    <2>5. /\ set \in Seq(Cookies) /\ OneOfAName(set)
          /\ GetParam(set, ConfName) = <<obj>>
      BY <2>1, <2>3, <2>4, SetIsRead
    <2> HIDE DEF set
    <2>6. StoreOK(t) /\ t.static = s.static /\ t.jar = set
      BY <2>2, <2>5 DEF StoreOK
    <2> HIDE DEF t
    <2>7. GetCookieObj(t) = obj
      <3>1. GetParam(t.jar, ConfName) = <<obj>>
        BY <2>5, <2>6
      <3> QED BY <3>1 DEF GetCookieObj
    <2> QED BY <1>3, <2>1, <2>6, <2>7 DEF LoadConf, t
  <1> QED BY <1>1, <1>2, <1>3

-----------------------------------------------------------------------------
(* The invariant.                                                          *)

\* A page at rest asks for nothing; one that waits for its path asks for the
\* path of its configuration, and has not asked for another one before.  The
\* value that is kept for the page belongs to that path from the moment it is
\* acknowledged.
PathInv ==
    /\ fsm \in {"showmenu", "waitdata", "showdata"} =>
          flag = NoRequest /\ request = wxEmptyString
    /\ fsm = "getpath" =>
          flag = conf.path /\ request \in {wxEmptyString, conf.path}
    /\ fsm \in {"waitdata", "showdata"} =>
          /\ conf.path # NoPath /\ title = conf.path
          /\ subscribedPath = conf.path /\ data.of = conf.path
    /\ fsm = "showdata" =>
          shown.of = conf.path /\ iface.value.of = conf.path

\* From the self-test on the page uses what the browser allows, and whatever
\* its configuration becomes is saved in the same step.
StoredInv ==
    /\ fsm \in {"getall", "showmenu", "getpath", "waitdata", "showdata"} =>
          tested = policy
    /\ fsm \in {"getpath", "waitdata", "showdata"} =>
          /\ conf \in Confs
          /\ store.static = NoConf /\ tested # {} => LoadConf(store, tested) = conf

\* The types of the page.
PageTypeOK ==
    /\ fsm \in States \ {"hasid"}
    /\ flag \in {NoRequest, "getid", "getall"} \cup Paths
    /\ iface \in [selectedpath : Paths \cup {NoPath},
                  value : [of : Paths \cup {""}, text : Texts \cup {""}]]
    /\ shown \in [of : Paths \cup {""}, text : Texts \cup {""}]
    /\ ConfTypeOK

\* The inductive invariant.
IInv == PageTypeOK /\ PathsTypeOK(Paths) /\ PathInv /\ StoredInv

-----------------------------------------------------------------------------
(* The plug-in.                                                            *)

\* The grace count stays above -2, and is never above a whole grace time.
LEMMA GraceType ==
    ASSUME graceCount \in -1 .. (GetallGrace + GetalldbGrace),
           NEW grace \in {GetallGrace, GetalldbGrace}
    PROVE  Grace(grace) \in -1 .. (GetallGrace + GetalldbGrace)
  BY GraceAssumption DEF Grace

\* Poll keeps the types of the plug-in, and so do the parts of a tick.
LEMMA TickTypes ==
    ASSUME CppTypeOK
    PROVE  /\ \A text : ReadPage(text) => CppTypeOK'
           /\ NothingToServe => CppTypeOK'
           /\ \A i \in IStates, s \in Sources : Answered(i, s) => CppTypeOK'
           /\ Unanswered => CppTypeOK'
           /\ CloseInstruJS => CppTypeOK'
  <1>1. \A h \in HandShakes : AfterEmpty[h] \in HandShakes
    BY DEF HandShakes, AfterEmpty
  <1>2. Relaxed \in IStates
    BY DEF Relaxed, CppTypeOK, IStates
  <1>3. "SERVED" \in HandShakes /\ "SERVING" \in HandShakes /\ "NO_REQUEST" \in IStates
    BY DEF HandShakes, IStates
  <1>4. \A text : ReadPage(text) => CppTypeOK'
    BY DEF ReadPage, CppTypeOK
  <1>5. NothingToServe => CppTypeOK'
    BY <1>1, <1>2, <1>3 DEF NothingToServe, EndTick, CppTypeOK
  <1>6. \A i \in IStates, s \in Sources : Answered(i, s) => CppTypeOK'
    BY <1>3 DEF Answered, EndTick, CppTypeOK
  <1>7. Unanswered => CppTypeOK'
    BY <1>2, <1>3 DEF Unanswered, EndTick, CppTypeOK
  <1>8. CloseInstruJS => CppTypeOK'
    BY DEF CloseInstruJS, CppTypeOK
  <1> QED BY <1>4, <1>5, <1>6, <1>7, <1>8

\* The ticks until data are pushed, and the counters at the start.
LEMMA TicksType ==
    ASSUME outCnt \in -1 .. SlowTicks
    PROVE  /\ WaitTicks \in -1 .. SlowTicks /\ WaitTicks - 1 \in -1 .. SlowTicks
           /\ -1 \in -1 .. SlowTicks
           /\ -1 \in -1 .. (GetallGrace + GetalldbGrace)
  <1>1. SlowTicks \in Nat /\ SlowTicks >= 1
    BY SlowAssumption
  <1>2. WaitTicks \in 0 .. SlowTicks
    BY <1>1 DEF WaitTicks
  <1>3. GetallGrace \in Nat /\ GetalldbGrace \in Nat
    BY GraceAssumption
  <1> QED BY <1>1, <1>2, <1>3

\* Every step keeps the types of the plug-in.
LEMMA PluginTypes ==
    ASSUME PathsTypeOK(Paths), Next
    PROVE  PathsTypeOK(Paths)'
  <1> USE DEF PathsTypeOK
  <1>0. {"GETID", "GETALL", "SHOWDATA"} \subseteq IStates
        /\ "INSTRUJS_DATA_SUBSCRIPTION" \in Sources /\ source \in Sources
    BY DEF IStates, Sources, CppTypeOK
  <1>1. CASE UNCHANGED <<cppVars, pathVars>>
    BY <1>1 DEF cppVars, pathVars, CppTypeOK
  <1>2. CASE Poll
    BY <1>2, TickTypes DEF Poll, pathVars
  <1>3. CASE Serve
    <2>1. pushing' = TRUE /\ UNCHANGED <<lastOut, outCnt, discovered>>
      BY <1>3 DEF Serve, ThenPush
    <2>2. CASE NothingToServe /\ KeepPath
      BY <2>1, <2>2, TickTypes DEF KeepPath
    <2>3. CASE Answered("GETID", source) /\ KeepPath
      BY <1>0, <2>1, <2>3, TickTypes DEF KeepPath
    <2>4. CASE ServeGetall /\ UNCHANGED <<subscribedPath, data>>
      BY <1>0, <2>1, <2>4, TickTypes, GraceType DEF ServeGetall
    <2>5. CASE CollectPaths /\ UNCHANGED <<subscribedPath, data>>
      BY <2>1, <2>5, TickTypes, GraceType DEF CollectPaths
    <2>6. CASE Subscribe(Paths) /\ UNCHANGED <<graceCount, hasSchema>>
      <3>1. data' \in [of : Paths \cup {""}, text : Texts]
        BY <2>6 DEF Subscribe, Value, Texts
      <3> QED BY <1>0, <2>1, <2>6, <3>1, TickTypes DEF Subscribe
    <2> QED BY <1>3, <2>2, <2>3, <2>4, <2>5, <2>6 DEF Serve
  <1>4. CASE Push
    <2>2. CASE PushNothing
      <3>1. outCnt' \in -1 .. SlowTicks
        <4>1. outCnt' \in {outCnt, WaitTicks - 1, WaitTicks}
          BY <2>2 DEF PushNothing
        <4> QED BY <4>1, TicksType
      <3> QED BY <2>2, <3>1 DEF PushNothing, cppVars, CppTypeOK
    <2>3. CASE PushNewdata
      BY <2>3, TicksType DEF PushNewdata, cppVars, CppTypeOK
    <2> QED BY <1>4, <2>2, <2>3 DEF Push
  <1>5. CASE Arrives
    <2>1. data' \in [of : Paths \cup {""}, text : Texts]
      <3>1. PICK text \in Readings \cup {"0.0"} :
                data' = [of |-> subscribedPath, text |-> text]
        BY <1>5 DEF Arrives, DataArrives, Value
      <3> QED BY <3>1 DEF Texts
    <2> QED BY <1>5, <2>1 DEF Arrives, DataArrives, cppVars, CppTypeOK
  <1>6. CASE TurnsUp
    BY <1>6 DEF TurnsUp, PathTurnsUp, cppVars, CppTypeOK
  <1>7. CASE Close
    BY <1>7, TickTypes DEF Close, pathVars
  <1>8. CASE Restart
    <2>1. data' \in [of : Paths \cup {""}, text : Texts] /\ lastOut' \in Texts
      BY <1>8 DEF Restart, PathsRestart, Value, Texts
    <2>2. CppTypeOK'
      BY <1>8 DEF Restart, PathsRestart, CppTypeOK, HandShakes, IStates, Sources
    <2>4. /\ graceCount' = -1 /\ hasSchema' = FALSE /\ subscribedPath' = ""
          /\ outCnt' = -1 /\ pushing' = FALSE /\ discovered' = discovered
      BY <1>8 DEF Restart, PathsRestart
    <2> QED BY <2>1, <2>2, <2>4, TicksType
  <1>9. CASE Loaded \/ InitOk \/ Click \/ Key
    BY <1>1, <1>9 DEF Loaded, InitOk, Click, Key
  <1> QED BY <1>2, <1>3, <1>4, <1>5, <1>6, <1>7, <1>8, <1>9 DEF Next

-----------------------------------------------------------------------------
(* The page.                                                               *)

\* The states in which a page hears the calls of plug-in, menu and keyboard.
LEMMA Hears ==
    /\ Can("setall") => fsm = "getall"
    /\ Can("selected") => fsm = "showmenu"
    /\ Can("acksubs") <=> fsm = "getpath"
    /\ Can("newdata") <=> fsm \in {"waitdata", "showdata"}
    /\ Can("chgconf") => fsm \in {"waitdata", "showdata"}
    /\ Can("swapdisp") => fsm = "showdata"
    /\ Can("closing") => fsm = "showdata"
  <1>1. /\ DOMAIN DataTransitionJS =
              {"getnew", "newdata", "errdata", "chgconf", "retryget"}
        /\ DataTransitionJS["newdata"] = "newdata"
        /\ DataTransitionJS["chgconf"] = "chgconf"
    BY DEF DataTransitionJS
  <1>2. \A e \in {"setall", "selected", "acksubs", "newdata", "chgconf",
                  "swapdisp", "closing"} : TransitionOfJS(e) = e
    BY <1>1 DEF TransitionOfJS
  <1>3. {"acksubs", "newdata"} \subseteq CreatedEvents \cap EventsJS
    BY <1>1 DEF CreatedEvents, EventsJS, PathEventsJS
  <1>4. \A x \in Transitions :
          /\ x[1] = "setall" => x[2] = "getall"
          /\ x[1] = "selected" => x[2] = "showmenu"
          /\ x[1] = "acksubs" => x[2] = "getpath"
          /\ x[1] = "newdata" => x[2] \in {"waitdata", "showdata"}
          /\ x[1] = "chgconf" => x[2] \in {"waitdata", "showdata"}
          /\ x[1] = "swapdisp" => x[2] = "showdata"
          /\ x[1] = "closing" => x[2] = "showdata"
    BY DEF Transitions
  <1>5. {<<"acksubs", "getpath", "waitdata">>,
         <<"newdata", "waitdata", "showdata">>,
         <<"newdata", "showdata", "showdata">>} \subseteq Transitions
    BY DEF Transitions
  <1>6. fsm = "getpath" => CanIn(Transitions, "acksubs")
    BY <1>5 DEF CanIn
  <1>7. fsm \in {"waitdata", "showdata"} => CanIn(Transitions, "newdata")
    BY <1>5 DEF CanIn
  <1> QED BY <1>2, <1>3, <1>4, <1>6, <1>7 DEF Can, CanIn

\* The states of the page.
LEMMA StateNames ==
    {"loading", "initga", "getid", "getall", "showmenu", "getpath",
     "waitdata", "showdata", "halt"} \subseteq States \ {"hasid"}
  <1>1. {<<"loaded", "loading", "initga">>, <<"initok", "initga", "getid">>,
         <<"setall", "getall", "showmenu">>, <<"selected", "showmenu", "getpath">>,
         <<"newdata", "waitdata", "showdata">>,
         <<"closing", "showdata", "halt">>} \subseteq Transitions
    BY DEF Transitions
  <1>2. \A x \in Transitions : x[2] \in States /\ x[3] \in States
    BY DEF States, StatesOf
  <1> QED BY <1>1, <1>2

\* A call that passes an argument stores it.
LEMMA Stores ==
    ASSUME PageTypeOK
    PROVE  /\ \A p : Stored("setselected", p) = [iface EXCEPT !.selectedpath = p]
           /\ \A v : Stored("newdata", v) = [iface EXCEPT !.value = v]
  <1>1. \A t \in CallTables \ {PathCalls} : "setselected" \notin DOMAIN t
    BY DEF CallTables, SchemaCalls, DataCalls, ReadyCalls, StartLineCalls,
           RaceMarkCalls, MuteCalls, CommonCalls
  <1>2. \A t \in CallTables \ {DataCalls} : "newdata" \notin DOMAIN t
    BY DEF CallTables, PathCalls, SchemaCalls, ReadyCalls, StartLineCalls,
           RaceMarkCalls, MuteCalls, CommonCalls
  <1>3. /\ "setselected" \in DOMAIN PathCalls
        /\ PathCalls["setselected"].field = "selectedpath"
    BY DEF PathCalls, Plain
  <1>4. "newdata" \in DOMAIN DataCalls /\ DataCalls["newdata"].field = "value"
    BY DEF DataCalls, Plain
  <1>5. PathCalls \in CallTables /\ DataCalls \in CallTables
    BY DEF CallTables
  <1>6. Calls["setselected"] = PathCalls["setselected"]
    BY <1>1, <1>3, <1>5 DEF Calls
  <1>7. Calls["newdata"] = DataCalls["newdata"]
    BY <1>2, <1>4, <1>5 DEF Calls
  <1>13. DOMAIN iface = {"selectedpath", "value"}
    BY DEF PageTypeOK
  <1>14. /\ Calls["setselected"].field = "selectedpath"
         /\ Calls["newdata"].field = "value"
    BY <1>3, <1>4, <1>6, <1>7
  <1> QED BY <1>13, <1>14 DEF Stored

\* The styles of display: each one leads to another one.
LEMMA StylesAre ==
    ASSUME NEW c \in Confs
    PROVE  /\ Rolled(c) \in Confs /\ Rolled(c).path = c.path
           /\ \A next \in {NextUp, NextDown} :
                 Swapped(c, next) \in Confs /\ Swapped(c, next).path = c.path
  <1>1. /\ c \in [version : {1}, sameKeys : {TRUE}, path : Paths \cup {NoPath},
                  display : Displays]
        /\ c.display \in Displays
    BY DEF Confs
  <1>2. \A d \in Displays :
          [c EXCEPT !.display = d] \in Confs /\ [c EXCEPT !.display = d].path = c.path
    BY <1>1 DEF Confs
  <1>3. \A next \in {NextUp, NextDown} : next[c.display] \in Displays
    BY <1>1 DEF NextUp, NextDown, Displays
  <1>4. {"simple", "donut"} \subseteq Displays
    BY DEF Displays
  <1> QED BY <1>2, <1>3, <1>4 DEF Rolled, Swapped

\* What the page makes of what it has loaded is a configuration.
LEMMA GetConfIs ==
    ASSUME NEW loaded \in Objects
    PROVE  GetConf(loaded) \in Confs
  <1>1. EmptyConf \in Confs
    BY DEF EmptyConf, Confs, NoPath, Displays
  <1>2. CASE CheckConf(loaded) = NoConf
    BY <1>1, <1>2 DEF GetConf
  <1>3. CASE CheckConf(loaded) # NoConf
    <2>1. loaded.version # 0 /\ loaded.sameKeys
      BY <1>3 DEF CheckConf
    <2>2. \A c \in Foreign : c.version = 0 \/ c.sameKeys = FALSE
      BY DEF Foreign, NoConf, EmptyConf
    <2>3. loaded \in Confs
      BY <2>1, <2>2 DEF Objects
    <2> QED BY <1>3, <2>3 DEF GetConf
  <1> QED BY <1>2, <1>3

\* A configuration that has been saved is loaded again.
LEMMA ConfIsLoaded ==
    ASSUME NEW s, StoreOK(s), NEW c \in Confs, NEW works \in SUBSET policy,
           policy \subseteq Kept
    PROVE  /\ StoreOK(Saved(s, works, c))
           /\ Saved(s, works, c).static = s.static
           /\ s.static = NoConf /\ works # {}
                => LoadConf(Saved(s, works, c), works) = c
  <1>1. c \in Objects
    BY DEF Objects
  <1>2. c # NoConf
    BY DEF Confs, NoConf, EmptyConf
  <1> QED BY <1>1, <1>2, SavedIsLoaded

\* The menu offers the paths that common.js knows.
LEMMA MenuSelects ==
    ASSUME PageTypeOK, NEW call \in MenuCalls, call[1] = "setselected"
    PROVE  call[2] \in Paths /\ HasPathEntry(call[2])
  <1>1. menu \in {"onload", "runtime", "all"} /\ allpaths \subseteq Paths
    BY DEF PageTypeOK, ConfTypeOK
  <1>2. CASE menu = "all"
    <2>1. \/ \E p \in {q \in allpaths : HasPathEntry(q)} : call = <<"setselected", p>>
          \/ call = <<"setrescan", NoPath>>
      BY <1>2 DEF MenuCalls
    <2> QED BY <1>1, <2>1
  <1>3. CASE menu # "all"
    BY <1>1, <1>3 DEF MenuCalls
  <1> QED BY <1>2, <1>3

\* The part of the invariant that is about the page.
PageInv == PageTypeOK /\ PathInv /\ StoredInv

\* The fields of window.iface that the page reads.
Ifaces == [selectedpath : Paths \cup {NoPath},
           value : [of : Paths \cup {""}, text : Texts \cup {""}]]

\* A step of which the page does not hear, or hears only what it ignores.
LEMMA PageStays ==
    ASSUME IInv, UNCHANGED <<fsm, flag, confVars, shown>>, iface' \in Ifaces,
           fsm = "showdata" => iface'.value = iface.value,
           request' \in {request, wxEmptyString, flag},
           fsm \in {"waitdata", "showdata"} =>
              subscribedPath' = subscribedPath /\ data'.of = data.of
    PROVE  PageInv'
  <1>1. PageTypeOK'
    BY DEF IInv, PageTypeOK, ConfTypeOK, confVars, storeVars, browserVars, Ifaces
  <1>2. PathInv'
    BY DEF IInv, PathInv, confVars, NoRequest, wxEmptyString
  <1>3. StoredInv'
    BY DEF IInv, StoredInv, confVars, storeVars, browserVars
  <1> QED BY <1>1, <1>2, <1>3 DEF PageInv

\* In particular, one that leaves the page as it is.
LEMMA PageUnchanged ==
    ASSUME IInv, UNCHANGED jsVars, request' \in {request, wxEmptyString, flag},
           fsm \in {"waitdata", "showdata"} =>
              subscribedPath' = subscribedPath /\ data'.of = data.of
    PROVE  PageInv'
  <1>1. iface' = iface /\ iface \in Ifaces /\ UNCHANGED <<fsm, flag, confVars, shown>>
    BY DEF IInv, PageTypeOK, jsVars, Ifaces
  <1> QED BY <1>1, PageStays

-----------------------------------------------------------------------------
(* Before there is a configuration.                                        *)

\* The page is loaded, and starts to ask.
LEMMA LoadKeeps ==
    ASSUME IInv, Loaded \/ InitOk
    PROVE  PageInv'
  <1>1. CASE Loaded
    <2>1. /\ fsm' = "initga" /\ conf' = EmptyConf /\ shown' = NoValue
          /\ UNCHANGED <<flag, iface, perspath, path, allpaths, menu, title, storeVars>>
      BY <1>1 DEF Loaded, OnInitga, ClearDisplay
    <2>2. EmptyConf \in Confs
      BY DEF EmptyConf, Confs, NoPath, Displays
    <2>3. PageTypeOK'
      BY <2>1, <2>2, StateNames DEF IInv, PageTypeOK, ConfTypeOK, storeVars,
         browserVars, NoValue, Value
    <2> QED BY <2>1, <2>3 DEF PageInv, PathInv, StoredInv
  <1>2. CASE InitOk
    <2>1. /\ fsm' = "getid" /\ flag' = "getid"
          /\ UNCHANGED <<iface, confVars, shown>>
      BY <1>2 DEF InitOk
    <2>2. PageTypeOK'
      BY <2>1, StateNames DEF IInv, PageTypeOK, ConfTypeOK, confVars, storeVars,
         browserVars
    <2> QED BY <2>1, <2>2 DEF PageInv, PathInv, StoredInv
  <1> QED BY <1>1, <1>2

\* The program is started again.
LEMMA RestartKeeps ==
    ASSUME IInv, Restart
    PROVE  PageInv'
  <1>1. /\ fsm' = "loading" /\ flag' = NoRequest /\ shown' = NoValue
        /\ iface' = [selectedpath |-> NoPath, value |-> NoValue]
        /\ ConfRestart
    BY DEF Restart
  <1>2. ConfTypeOK'
    BY <1>1 DEF ConfRestart, IInv, PageTypeOK, ConfTypeOK
  <1>3. PageTypeOK'
    BY <1>1, <1>2, StateNames DEF PageTypeOK, NoValue, Value
  <1> QED BY <1>1, <1>3 DEF PageInv, PathInv, StoredInv

-----------------------------------------------------------------------------
(* The handlers of the page.                                               *)

\* The answer to the question for an identity: the page tests the storage,
\* loads its configuration and saves it with the style it is displayed in.
LEMMA SetidKeeps ==
    ASSUME IInv, Setid, request' = wxEmptyString,
           UNCHANGED <<subscribedPath, data>>
    PROVE  PageInv'
  <1>1. CASE fsm # "getid"
    <2>1. UNCHANGED jsVars
      BY <1>1 DEF Setid, jsVars
    <2> QED BY <2>1, PageUnchanged
  <1>2. CASE fsm = "getid"
    <2> DEFINE s == AfterSelfTest(store)
               c == Rolled(GetConf(LoadConf(s, tested')))
    <2>1. /\ iface' = iface /\ SelfTest /\ policy' = policy /\ allpaths' = allpaths
          /\ RollOn(s, tested', GetConf(LoadConf(s, tested')))
          /\ shown' = iface.value
      BY <1>2 DEF Setid, Refresh
    <2>2. /\ conf'.path # NoPath =>
                /\ perspath' = TRUE /\ path' = path
                /\ menu' = "runtime" /\ title' = NoPath
                /\ fsm' = "getpath" /\ flag' = conf'.path
          /\ conf'.path = NoPath =>
                /\ perspath' = FALSE /\ UNCHANGED <<path, menu, title>>
                /\ fsm' = "getall" /\ flag' = "getall"
      BY <1>2 DEF Setid, SetMenuRunTime, SetMenu, PathAsked
    <2>3. tested' = policy /\ StoreOK(s) /\ policy \subseteq Kept
      BY <2>1, SelfTestFinds DEF IInv, PageTypeOK, ConfTypeOK, StoreOK
    <2>4. c \in Confs
      BY <2>3, LoadedIs, GetConfIs, StylesAre
    <2>5. conf' = c /\ store' = Saved(s, tested', c)
      BY <2>1 DEF RollOn, MemorizeSettings
    <2> HIDE DEF s, c
    <2>6. /\ StoreOK(store')
          /\ store'.static = NoConf /\ tested' # {} => LoadConf(store', tested') = conf'
      <3>1. tested' \in SUBSET policy
        BY <2>3
      <3> QED BY <2>3, <2>4, <2>5, <3>1, ConfIsLoaded
    <2>7. conf' \in Confs /\ conf'.path \in Paths \cup {NoPath}
      BY <2>4, <2>5 DEF Confs
    <2>8. ConfTypeOK'
      <3>1. /\ path' \in Paths \cup {NoPath} /\ allpaths' \subseteq Paths
            /\ menu' \in {"onload", "runtime", "all"}
            /\ title' \in Paths \cup {NoPath} /\ perspath' \in BOOLEAN
        BY <2>1, <2>2 DEF IInv, PageTypeOK, ConfTypeOK
      <3> QED BY <2>1, <2>3, <2>6, <2>7, <3>1 DEF ConfTypeOK, StoreOK
    <2>9. PageTypeOK'
      BY <2>1, <2>2, <2>7, <2>8, StateNames DEF IInv, PageTypeOK
    <2>10. PathInv'
      BY <2>2 DEF PathInv
    <2>11. StoredInv'
      BY <2>1, <2>2, <2>3, <2>6, <2>7 DEF StoredInv
    <2> QED BY <2>9, <2>10, <2>11 DEF PageInv
  <1> QED BY <1>1, <1>2

\* The list of paths becomes a menu.
LEMMA SetallKeeps ==
    ASSUME IInv, Setall(discovered), request' = wxEmptyString,
           UNCHANGED <<subscribedPath, data>>
    PROVE  PageInv'
  <1>1. CASE Refused("setall")
    <2>1. UNCHANGED jsVars
      BY <1>1 DEF Setall, Refused, jsVars
    <2> QED BY <2>1, PageUnchanged
  <1>2. CASE ~Refused("setall")
    <2>1. /\ Can("setall") /\ fsm' = "showmenu" /\ flag' = NoRequest
          /\ allpaths' = discovered /\ menu' = "all" /\ title' = NoPath
          /\ UNCHANGED <<conf, perspath, path, storeVars, shown, iface>>
      BY <1>2 DEF Setall, SetMenuAllPaths, SetMenu
    <2>2. fsm = "getall" /\ discovered \subseteq Paths
      BY <2>1, Hears DEF IInv, PathsTypeOK
    <2>3. PageTypeOK'
      BY <2>1, <2>2, StateNames DEF IInv, PageTypeOK, ConfTypeOK, storeVars,
         browserVars
    <2>4. PathInv'
      BY <2>1 DEF PathInv
    <2>5. StoredInv'
      BY <2>1, <2>2 DEF IInv, StoredInv, storeVars, browserVars
    <2> QED BY <2>3, <2>4, <2>5 DEF PageInv
  <1> QED BY <1>1, <1>2

\* The user picks a path.
LEMMA SelectedKeeps ==
    ASSUME IInv, NEW p \in Paths, HasPathEntry(p), Selected(p),
           UNCHANGED <<request, subscribedPath, data>>
    PROVE  PageInv'
  <1>1. iface' = [iface EXCEPT !.selectedpath = p]
    BY Stores DEF IInv, Selected
  <1>2. iface' \in Ifaces /\ iface'.selectedpath = p /\ iface'.value = iface.value
    BY <1>1 DEF IInv, PageTypeOK, Ifaces
  <1>3. CASE Refused("selected")
    BY <1>2, <1>3, PageStays DEF Refused
  <1>4. CASE ~Refused("selected")
    <2>1. /\ Can("selected") /\ fsm' = "getpath"
          /\ menu' = "runtime" /\ title' = NoPath /\ path' = p
          /\ conf' = ConfOfSelected(p) /\ store' = Saved(store, tested, conf')
          /\ UNCHANGED <<perspath, allpaths, policy, tested, shown>>
          /\ flag' = IF perspath' THEN conf'.path ELSE path'
      BY <1>2, <1>4 DEF Selected, SetMenuRunTime, SetMenu, browserVars, PathAsked
    <2>2. fsm = "showmenu"
      BY <2>1, Hears
    <2>3. conf' \in Confs /\ conf'.path = p
      BY <2>1, DefaultsAre
    <2>4. flag' = p
      BY <2>1, <2>3
    <2>5. /\ StoreOK(store')
          /\ store'.static = NoConf /\ tested # {} => LoadConf(store', tested) = conf'
      <3>1. StoreOK(store) /\ tested \in SUBSET policy /\ policy \subseteq Kept
        BY DEF IInv, PageTypeOK, ConfTypeOK, StoreOK
      <3> QED BY <2>1, <2>3, <3>1, ConfIsLoaded
    <2>6. ConfTypeOK'
      BY <2>1, <2>3, <2>5 DEF IInv, PageTypeOK, ConfTypeOK, StoreOK
    <2>7. PageTypeOK'
      BY <1>2, <2>1, <2>4, <2>6, StateNames DEF IInv, PageTypeOK, Ifaces
    <2>8. PathInv'
      BY <2>1, <2>2, <2>3, <2>4 DEF IInv, PathInv
    <2>9. StoredInv'
      BY <2>1, <2>2, <2>3, <2>5 DEF IInv, StoredInv
    <2> QED BY <2>7, <2>8, <2>9 DEF PageInv
  <1> QED BY <1>3, <1>4

\* The display is built anew: the style changes, and is saved.
LEMMA RollKeeps ==
    ASSUME IInv, Roll(conf), conf \in Confs
    PROVE  /\ conf' \in Confs /\ conf'.path = conf.path
           /\ policy' = policy /\ tested' = tested /\ StoreOK(store')
           /\ store'.static = NoConf /\ tested # {} => LoadConf(store', tested) = conf'
  <1>1. /\ conf' = Rolled(conf) /\ store' = Saved(store, tested, Rolled(conf))
        /\ policy' = policy /\ tested' = tested
    BY DEF Roll, RollOn, MemorizeSettings, browserVars
  <1>2. Rolled(conf) \in Confs /\ Rolled(conf).path = conf.path
    BY StylesAre
  <1>3. StoreOK(store) /\ tested \in SUBSET policy /\ policy \subseteq Kept
    BY DEF IInv, PageTypeOK, ConfTypeOK, StoreOK
  <1>4. /\ StoreOK(Saved(store, tested, Rolled(conf)))
        /\ Saved(store, tested, Rolled(conf)).static = store.static
        /\ store.static = NoConf /\ tested # {}
             => LoadConf(Saved(store, tested, Rolled(conf)), tested) = Rolled(conf)
    BY <1>2, <1>3, ConfIsLoaded
  <1> QED BY <1>1, <1>2, <1>4

\* The acknowledgement of a path: from now on the plug-in has no other one.
LEMMA AcksubsKeeps ==
    ASSUME IInv, Acksubs, IsServed, request' = wxEmptyString,
           subscribedPath' = request, data'.of = request
    PROVE  PageInv'
  <1>1. CASE Refused("acksubs")
    <2>1. UNCHANGED jsVars
      BY <1>1 DEF Acksubs, Refused, jsVars
    <2>2. fsm \notin {"waitdata", "showdata"}
      BY DEF IInv, PathInv, IsServed
    <2> QED BY <2>1, <2>2, PageUnchanged
  <1>2. CASE ~Refused("acksubs")
    <2>1. /\ Can("acksubs") /\ fsm' = "waitdata" /\ flag' = NoRequest
          /\ shown' = NoValue /\ Roll(conf) /\ title' = TitleShown
          /\ UNCHANGED <<iface, perspath, path, allpaths, menu>>
      BY <1>2 DEF Acksubs, ClearDisplay, OnWaitdataFinalCheck, KeepConf
    <2>2. fsm = "getpath"
      BY <2>1, Hears
    <2>3. conf \in Confs /\ conf.path = request /\ request # NoPath
      BY <2>2 DEF IInv, PathInv, StoredInv, IsServed, NoPath, wxEmptyString
    <2>4. title' = conf.path
      BY <2>1, <2>3 DEF TitleShown
    <2>5. /\ conf' \in Confs /\ conf'.path = conf.path
          /\ policy' = policy /\ tested' = tested /\ StoreOK(store')
          /\ store'.static = NoConf /\ tested # {} => LoadConf(store', tested) = conf'
      BY <2>1, <2>3, RollKeeps
    <2>6. conf.path \in Paths \cup {NoPath}
      BY <2>3 DEF Confs
    <2>7. ConfTypeOK'
      BY <2>1, <2>4, <2>5, <2>6 DEF IInv, PageTypeOK, ConfTypeOK, StoreOK
    <2>8. PageTypeOK'
      BY <2>1, <2>7, StateNames DEF IInv, PageTypeOK, NoValue, Value
    <2>9. PathInv'
      BY <2>1, <2>3, <2>4, <2>5 DEF PathInv
    <2>10. StoredInv'
      BY <2>1, <2>2, <2>5 DEF IInv, StoredInv
    <2> QED BY <2>8, <2>9, <2>10 DEF PageInv
  <1> QED BY <1>1, <1>2

\* The data of the subscribed path are shown.
LEMMA NewdataKeeps ==
    ASSUME IInv, Newdata(data), UNCHANGED <<request, subscribedPath, data>>
    PROVE  PageInv'
  <1>1. iface' = [iface EXCEPT !.value = data]
    BY Stores DEF IInv, Newdata
  <1>2. iface' \in Ifaces /\ iface'.value = data
    BY <1>1 DEF IInv, PageTypeOK, PathsTypeOK, Ifaces
  <1>3. CASE Refused("newdata")
    <2>1. fsm # "showdata"
      BY <1>3, Hears DEF Refused
    <2> QED BY <1>2, <1>3, <2>1, PageStays DEF Refused
  <1>4. CASE ~Refused("newdata")
    <2>1. /\ Can("newdata") /\ fsm' = "showdata" /\ shown' = data
          /\ UNCHANGED <<flag, confVars>>
      BY <1>2, <1>4 DEF Newdata, Refresh
    <2>2. fsm \in {"waitdata", "showdata"}
      BY <2>1, Hears
    <2>3. PageTypeOK'
      BY <1>2, <2>1, StateNames DEF IInv, PageTypeOK, ConfTypeOK, PathsTypeOK,
         Ifaces, confVars, storeVars, browserVars
    <2>4. PathInv'
      BY <1>2, <2>1, <2>2 DEF IInv, PathInv, confVars
    <2>5. StoredInv'
      BY <2>1, <2>2 DEF IInv, StoredInv, confVars, storeVars, browserVars
    <2> QED BY <2>3, <2>4, <2>5 DEF PageInv
  <1> QED BY <1>3, <1>4

\* The user asks for another path.
LEMMA ChgconfKeeps ==
    ASSUME IInv, Chgconf, UNCHANGED <<request, subscribedPath, data>>
    PROVE  PageInv'
  <1>1. CASE Refused("chgconf")
    <2>1. UNCHANGED jsVars
      BY <1>1 DEF Chgconf, Refused, jsVars
    <2> QED BY <2>1, PageUnchanged
  <1>2. CASE ~Refused("chgconf")
    <2>1. /\ Can("chgconf") /\ fsm' = "getall" /\ flag' = "getall"
          /\ menu' = "onload" /\ title' = NoPath /\ shown' = NoValue
          /\ store' = Saved(store, tested, Rolled(conf))
          /\ conf' = NoConf /\ perspath' = FALSE /\ path' = NoPath
          /\ UNCHANGED <<iface, allpaths, policy, tested>>
      BY <1>2 DEF Chgconf, SetMenuBackToLoading, SetMenu, ClearDisplay, ClearConf,
         browserVars
    <2>2. fsm \in {"waitdata", "showdata"}
      BY <2>1, Hears
    <2>3. Rolled(conf) \in Confs
      BY <2>2, StylesAre DEF IInv, StoredInv
    <2>4. StoreOK(store')
      <3>1. StoreOK(store) /\ tested \in SUBSET policy /\ policy \subseteq Kept
        BY DEF IInv, PageTypeOK, ConfTypeOK, StoreOK
      <3> QED BY <2>1, <2>3, <3>1, ConfIsLoaded
    <2>5. ConfTypeOK'
      BY <2>1, <2>4 DEF IInv, PageTypeOK, ConfTypeOK, StoreOK
    <2>6. PageTypeOK'
      BY <2>1, <2>5, StateNames DEF IInv, PageTypeOK, NoValue, Value
    <2>7. PathInv'
      BY <2>1 DEF PathInv
    <2>8. StoredInv'
      BY <2>1, <2>2 DEF IInv, StoredInv
    <2> QED BY <2>6, <2>7, <2>8 DEF PageInv
  <1> QED BY <1>1, <1>2

\* The user asks for another style.
LEMMA SwapdispKeeps ==
    ASSUME IInv, NEW next \in {NextUp, NextDown}, Swapdisp(next),
           UNCHANGED <<request, subscribedPath, data>>
    PROVE  PageInv'
  <1>1. CASE Refused("swapdisp")
    <2>1. UNCHANGED jsVars
      BY <1>1 DEF Swapdisp, Refused, jsVars
    <2> QED BY <2>1, PageUnchanged
  <1>2. CASE ~Refused("swapdisp")
    <2>1. /\ Can("swapdisp") /\ shown' = iface.value
          /\ conf' = Swapped(conf, next)
          /\ store' = Saved(store, tested, Swapped(conf, next))
          /\ UNCHANGED <<iface, perspath, path, allpaths, menu, title, policy,
                         tested, fsm, flag>>
      BY <1>2 DEF Swapdisp, Refresh, MemorizeSettings, KeepConf, browserVars
    <2>2. fsm = "showdata"
      BY <2>1, Hears
    <2>3. conf' \in Confs /\ conf'.path = conf.path
      BY <2>1, <2>2, StylesAre DEF IInv, StoredInv
    <2>4. /\ StoreOK(store')
          /\ store'.static = NoConf /\ tested # {} => LoadConf(store', tested) = conf'
      <3>1. StoreOK(store) /\ tested \in SUBSET policy /\ policy \subseteq Kept
        BY DEF IInv, PageTypeOK, ConfTypeOK, StoreOK
      <3> QED BY <2>1, <2>3, <3>1, ConfIsLoaded
    <2>5. ConfTypeOK'
      BY <2>1, <2>3, <2>4 DEF IInv, PageTypeOK, ConfTypeOK, StoreOK
    <2>6. PageTypeOK'
      BY <2>1, <2>5 DEF IInv, PageTypeOK
    <2>7. PathInv'
      BY <2>1, <2>2, <2>3 DEF IInv, PathInv
    <2>8. StoredInv'
      BY <2>1, <2>2, <2>3, <2>4 DEF IInv, StoredInv
    <2> QED BY <2>6, <2>7, <2>8 DEF PageInv
  <1> QED BY <1>1, <1>2

\* The window is closed.
LEMMA ClosingKeeps ==
    ASSUME IInv, Closing, UNCHANGED <<request, subscribedPath, data>>
    PROVE  PageInv'
  <1>1. CASE Refused("closing")
    <2>1. UNCHANGED jsVars
      BY <1>1 DEF Closing, Refused, jsVars
    <2> QED BY <2>1, PageUnchanged
  <1>2. CASE ~Refused("closing")
    <2>1. /\ Can("closing") /\ fsm' = "halt" /\ shown' = NoValue /\ Roll(conf)
          /\ UNCHANGED <<iface, perspath, path, allpaths, menu, title, flag>>
      BY <1>2 DEF Closing, ClearDisplay, KeepConf
    <2>2. conf \in Confs
      BY <2>1, Hears DEF IInv, StoredInv
    <2>3. /\ conf' \in Confs /\ policy' = policy /\ tested' = tested
          /\ StoreOK(store')
      BY <2>1, <2>2, RollKeeps
    <2>4. ConfTypeOK'
      BY <2>1, <2>3 DEF IInv, PageTypeOK, ConfTypeOK, StoreOK
    <2>5. PageTypeOK'
      BY <2>1, <2>4, StateNames DEF IInv, PageTypeOK, NoValue, Value
    <2> QED BY <2>1, <2>5 DEF PageInv, PathInv, StoredInv
  <1> QED BY <1>1, <1>2

-----------------------------------------------------------------------------
(* The invariant holds.                                                    *)

\* A cookie of the page behind at most one of another name.
LEMMA FewCookies ==
    ASSUME NEW jar \in Seq(Cookies), NEW c \in Objects, Len(jar) \in {0, 1},
           Len(jar) = 1 => jar[1].name # ConfName
    PROVE  LET more == Append(jar, Cookie(ConfName, c))
           IN  more \in Seq(Cookies) /\ OneOfAName(more)
  <1> DEFINE y == Cookie(ConfName, c)
             more == Append(jar, y)
  <1>1. y \in Cookies /\ y.name = ConfName
    BY DEF Cookie, Cookies
  <1> HIDE DEF y
  <1>2. /\ more \in Seq(Cookies) /\ Len(more) = Len(jar) + 1
        /\ more[Len(jar) + 1] = y
        /\ \A i \in 1..Len(jar) : more[i] = jar[i]
    BY <1>1
  <1> HIDE DEF more
  <1>3. CASE Len(jar) = 0
    BY <1>2, <1>3 DEF OneOfAName, more, y
  <1>4. CASE Len(jar) = 1
    <2>1. more[1].name # more[2].name /\ DOMAIN more = {1, 2}
      BY <1>1, <1>2, <1>4
    <2>2. OneOfAName(more)
      BY <2>1 DEF OneOfAName
    <2> QED BY <1>2, <2>2 DEF more, y
  <1> QED BY <1>3, <1>4

\* What is on disk at first are objects, and cookies of different names.
LEMMA StoresAre ==
    ASSUME policy \subseteq Kept, store \in StoresFor(policy)
    PROVE  StoreOK(store)
  <1> DEFINE nothing == [static |-> NoConf, local |-> NoConf, jar |-> <<>>]
             others  == {<<>>, <<Cookie(OtherName, EmptyConf)>>}
             InCookies(jar) == [nothing EXCEPT !.jar = jar]
  <1>1. NoConf \in Objects /\ Left \subseteq Objects
    <2>1. NoConf \in Objects /\ Foreign \subseteq Objects
      BY DEF Objects, Foreign
    <2>2. \A p \in Paths : HasPathEntry(p) => DefaultsOf(p) \in Objects
      BY DefaultsAre DEF Objects
    <2> QED BY <2>1, <2>2 DEF Left
  <1>2. EmptyConf \in Objects
    BY DEF Objects, Confs, EmptyConf, NoPath, Displays
  <1>3. <<>> \in Seq(Cookies) /\ OneOfAName(<<>>)
    <2>1. <<>> \in Seq(Cookies) /\ DOMAIN <<>> = {}
      OBVIOUS
    <2> QED BY <2>1 DEF OneOfAName
  <1>4. \A c \in Objects : /\ StoreOK([nothing EXCEPT !.static = c])
                           /\ StoreOK([nothing EXCEPT !.local = c])
    BY <1>1, <1>3 DEF StoreOK
  <1>5. \A jar : jar \in Seq(Cookies) /\ OneOfAName(jar) => StoreOK(InCookies(jar))
    BY <1>1 DEF StoreOK
  <1>6. ASSUME NEW jar \in others
        PROVE  /\ StoreOK(InCookies(jar))
               /\ \A c \in Objects : StoreOK(InCookies(Append(jar, Cookie(ConfName, c))))
    <2> DEFINE x == Cookie(OtherName, EmptyConf)
    <2>1. x \in Cookies /\ x.name # ConfName
      BY <1>2, NamesDiffer DEF Cookie, Cookies
    <2> HIDE DEF x
    <2>2. CASE jar = <<>>
      <3>1. jar \in Seq(Cookies) /\ OneOfAName(jar) /\ Len(jar) = 0
        BY <1>3, <2>2
      <3> HIDE DEF InCookies
      <3>2. ASSUME NEW c \in Objects
            PROVE  LET more == Append(jar, Cookie(ConfName, c))
                   IN  more \in Seq(Cookies) /\ OneOfAName(more)
        <4>1. Len(jar) \in {0, 1} /\ (Len(jar) = 1 => jar[1].name # ConfName)
          BY <3>1
        <4> HIDE DEF others
        <4> QED BY <3>1, <4>1, FewCookies
      <3> QED BY <3>1, <3>2, <1>5
    <2>3. CASE jar = <<x>>
      <3>1. jar \in Seq(Cookies) /\ Len(jar) = 1 /\ jar[1] = x
        BY <2>1, <2>3
      <3>2. OneOfAName(jar)
        BY <3>1 DEF OneOfAName
      <3> HIDE DEF InCookies
      <3> QED BY <2>1, <3>1, <3>2, FewCookies, <1>5
    <2> QED BY <2>2, <2>3 DEF x
  <1>7. StoreOK(nothing)
    BY <1>1, <1>3 DEF StoreOK
  <1>8. policy \in {Kept, {"local"}, {"cookies"}, {}}
    BY DEF Kept
  <1>9. /\ Kept # {"local"} /\ Kept # {"cookies"} /\ Kept # {}
        /\ {"local"} # {"cookies"} /\ {"local"} # {} /\ {"cookies"} # {}
    BY DEF Kept
  <1>10. CASE policy = Kept
    <2>1. PICK c \in Left \ {NoConf} : store = [nothing EXCEPT !.static = c]
      BY <1>9, <1>10 DEF StoresFor
    <2> QED BY <1>1, <1>4, <2>1
  <1>11. CASE policy = {"local"}
    <2>1. PICK c \in Left : store = [nothing EXCEPT !.local = c]
      BY <1>9, <1>11 DEF StoresFor
    <2> QED BY <1>1, <1>4, <2>1
  <1>12. CASE policy = {"cookies"}
    <2>1. \/ \E jar \in others : store = InCookies(jar)
          \/ \E jar \in others, c \in Left \ {NoConf} :
                store = InCookies(Append(jar, Cookie(ConfName, c)))
      BY <1>9, <1>12 DEF StoresFor
    <2> HIDE DEF InCookies, others
    <2> QED BY <1>1, <1>6, <2>1
  <1>13. CASE policy = {}
    BY <1>7, <1>9, <1>13 DEF StoresFor
  <1> QED BY <1>8, <1>10, <1>11, <1>12, <1>13

\* The first page starts from what is on disk.
LEMMA InitIInv == Init => IInv
  <1> SUFFICES ASSUME Init PROVE IInv
    OBVIOUS
  <1>1. /\ fsm = "loading" /\ flag = NoRequest /\ shown = NoValue
        /\ iface = [selectedpath |-> NoPath, value |-> NoValue]
        /\ ConfInit /\ PathsInit
    BY DEF Init
  <1>2. StoreOK(store) /\ policy \subseteq Kept
    BY <1>1, StoresAre DEF ConfInit
  <1>3. ConfTypeOK
    BY <1>1, <1>2 DEF ConfInit, ConfTypeOK, StoreOK
  <1>4. PageTypeOK
    BY <1>1, <1>3, StateNames DEF PageTypeOK, NoValue, Value
  <1>5. PathsTypeOK(Paths)
    <2>1. CppTypeOK
      BY <1>1 DEF PathsInit, CppInit, CppTypeOK, HandShakes, IStates, Sources
    <2>2. SlowTicks \in Nat
      BY SlowAssumption
    <2>3. GetallGrace \in Nat /\ GetalldbGrace \in Nat
      BY GraceAssumption
    <2>4. -1 \in -1 .. SlowTicks
      BY <2>2
    <2>5. -1 \in -1 .. (GetallGrace + GetalldbGrace)
      BY <2>3
    <2> QED BY <1>1, <2>1, <2>4, <2>5 DEF PathsInit, PathsTypeOK, Value, Texts
  <1> QED BY <1>1, <1>4, <1>5 DEF IInv, PathInv, StoredInv

\* The second half of a tick without data, and a tick that is served.
LEMMA TickKeeps ==
    ASSUME IInv, Poll \/ Serve \/ Push
    PROVE  PageInv'
  <1>1. CASE Poll
    <2>1. request' = flag /\ UNCHANGED <<jsVars, subscribedPath, data>>
      BY <1>1 DEF Poll, ReadPage, pathVars
    <2> QED BY <2>1, PageUnchanged
  <1>2. CASE Serve
    <2>1. CASE NothingToServe /\ KeepPath /\ UNCHANGED jsVars
      <3>1. request' = wxEmptyString /\ UNCHANGED <<jsVars, subscribedPath, data>>
        BY <2>1 DEF NothingToServe, EndTick, KeepPath
      <3> QED BY <3>1, PageUnchanged
    <2>2. CASE Answered("GETID", source) /\ KeepPath /\ Setid
      <3>1. request' = wxEmptyString /\ UNCHANGED <<subscribedPath, data>> /\ Setid
        BY <2>2 DEF Answered, EndTick, KeepPath
      <3> QED BY <3>1, SetidKeeps
    <2>3. CASE ServeGetall /\ UNCHANGED <<subscribedPath, data>> /\ Setall(discovered)
      <3>1. request' = wxEmptyString
        BY <2>3 DEF ServeGetall, Answered, EndTick
      <3> QED BY <2>3, <3>1, SetallKeeps
    <2>4. CASE CollectPaths /\ UNCHANGED <<subscribedPath, data, jsVars>>
      <3>1. request' = wxEmptyString
        BY <2>4 DEF CollectPaths, Unanswered, EndTick
      <3> QED BY <2>4, <3>1, PageUnchanged
    <2>5. CASE Subscribe(Paths) /\ Acksubs
      <3>1. /\ IsServed /\ request' = wxEmptyString /\ subscribedPath' = request
            /\ data'.of = request
        BY <2>5 DEF Subscribe, Answered, EndTick, Value
      <3> QED BY <2>5, <3>1, AcksubsKeeps
    <2> QED BY <1>2, <2>1, <2>2, <2>3, <2>4, <2>5 DEF Serve
  <1>3. CASE Push
    <2>1. CASE PushNothing /\ UNCHANGED jsVars
      <3>1. UNCHANGED <<request, subscribedPath, data>>
        BY <2>1 DEF PushNothing, cppVars
      <3> QED BY <2>1, <3>1, PageUnchanged
    <2>2. CASE PushNewdata /\ Newdata(data)
      <3>1. UNCHANGED <<request, subscribedPath, data>>
        BY <2>2 DEF PushNewdata, cppVars
      <3> QED BY <2>2, <3>1, NewdataKeeps
    <2> QED BY <1>3, <2>1, <2>2 DEF Push
  <1> QED BY <1>1, <1>2, <1>3

\* The user, the data and the end of the window.
LEMMA OthersKeep ==
    ASSUME IInv, Click \/ Key \/ Arrives \/ TurnsUp \/ Close
    PROVE  PageInv'
  <1>1. CASE Click
    <2>1. UNCHANGED <<request, subscribedPath, data>>
      BY <1>1 DEF Click, cppVars, pathVars
    <2>2. PICK call \in MenuCalls : \/ call[1] = "setselected" /\ Selected(call[2])
                                    \/ Chgconf
      BY <1>1 DEF Click
    <2>3. CASE call[1] = "setselected" /\ Selected(call[2])
      <3>1. call[2] \in Paths /\ HasPathEntry(call[2])
        BY <2>3, MenuSelects DEF IInv
      <3> QED BY <2>1, <2>3, <3>1, SelectedKeeps
    <2>4. CASE Chgconf
      BY <2>1, <2>4, ChgconfKeeps
    <2> QED BY <2>2, <2>3, <2>4
  <1>2. CASE Key
    <2>1. UNCHANGED <<request, subscribedPath, data>>
      BY <1>2 DEF Key, cppVars, pathVars
    <2>2. PICK next \in {NextUp, NextDown} : Swapdisp(next)
      BY <1>2 DEF Key
    <2> QED BY <2>1, <2>2, SwapdispKeeps
  <1>3. CASE Arrives
    <2>1. /\ UNCHANGED <<jsVars, request, subscribedPath>>
          /\ \E text : data' = [of |-> subscribedPath, text |-> text]
      BY <1>3 DEF Arrives, DataArrives, cppVars, Value
    <2>2. fsm \in {"waitdata", "showdata"} => data'.of = data.of
      BY <2>1 DEF IInv, PathInv
    <2> QED BY <2>1, <2>2, PageUnchanged
  <1>4. CASE TurnsUp
    <2>1. UNCHANGED <<jsVars, request, subscribedPath, data>>
      BY <1>4 DEF TurnsUp, PathTurnsUp, cppVars
    <2> QED BY <2>1, PageUnchanged
  <1>5. CASE Close
    <2>1. UNCHANGED <<request, subscribedPath, data>>
      BY <1>5 DEF Close, CloseInstruJS, pathVars
    <2>2. Closing \/ UNCHANGED jsVars
      BY <1>5 DEF Close
    <2> QED BY <2>1, <2>2, ClosingKeeps, PageUnchanged
  <1> QED BY <1>1, <1>2, <1>3, <1>4, <1>5

\* Every step keeps the invariant.
LEMMA NextIInv == IInv /\ [Next]_vars => IInv'
  <1> SUFFICES ASSUME IInv, [Next]_vars PROVE IInv'
    OBVIOUS
  <1>1. CASE UNCHANGED vars
    <2>1. UNCHANGED <<jsVars, cppVars, pathVars>>
      BY <1>1 DEF vars
    <2>2. UNCHANGED <<request, subscribedPath, data>>
      BY <2>1 DEF cppVars, pathVars
    <2>3. PathsTypeOK(Paths)'
      BY <2>1 DEF IInv, PathsTypeOK, CppTypeOK, cppVars, pathVars
    <2> QED BY <2>1, <2>2, <2>3, PageUnchanged DEF IInv, PageInv
  <1>2. CASE Next
    <2>1. PathsTypeOK(Paths)'
      BY <1>2, PluginTypes DEF IInv
    <2>2. PageInv'
      BY <1>2, LoadKeeps, TickKeeps, OthersKeep, RestartKeeps DEF Next
    <2> QED BY <2>1, <2>2 DEF IInv, PageInv
  <1> QED BY <1>1, <1>2

\* The inductive invariant holds in every reachable state.
THEOREM Invariance == Spec => []IInv
  <1> QED BY InitIInv, NextIInv, PTL DEF Spec

\* The page, the plug-in and what is kept on disk have their types: the states
\* are those of statemachine.js, and a jar never holds two cookies of a name.
THEOREM TypeCorrect == Spec => []TypeOK
  <1>1. IInv => TypeOK
    BY DEF IInv, PageTypeOK, TypeOK
  <1> QED BY <1>1, Invariance, PTL

\* The value on the display is one of the path whose name stands beside it.
THEOREM ShownIsTheOneAsked == Spec => []ShownIsSubscribed
  <1>1. IInv => ShownIsSubscribed
    BY DEF IInv, PathInv, ShownIsSubscribed
  <1> QED BY <1>1, Invariance, PTL

\* What the user has picked is what the next page will load, wherever the
\* browser lets it be kept.
THEOREM StoredIsTheOneShown == Spec => []StoredIsShown
  <1>1. IInv => StoredIsShown
    BY DEF IInv, StoredInv, StoredIsShown, IsKept
  <1> QED BY <1>1, Invariance, PTL
=============================================================================
