---------------------------- MODULE Persistence ----------------------------
(***************************************************************************)
(* Where a page keeps its configuration object (persistence.js): in a      *)
(* static file the user may write, in the local storage of the browser or  *)
(* in a cookie, whichever the policy of the browser allows.                *)
(* A parameter that may be missing is a sequence of at most one value.     *)
(* Left out: the end of a cookie after a year, a value that contains the   *)
(* separators ";" and "=", which the entries of common.js do not.          *)
(***************************************************************************)
EXTENDS Naturals, Sequences, SequencesExt

VARIABLES
    policy,      \* what the browser allows: a subset of Kept
    tested,      \* bLocalStorage, bCookies: what selfTest has found to work
    store        \* what is kept on disk, for this instrument and for others

browserVars == <<policy, tested>>
storeVars   == <<browserVars, store>>

Kept == {"local", "cookies"}

NoPath == ""

\* createEmptyConf.  sameKeys: it has the fields of the present version.
EmptyConf == [version |-> 1, sameKeys |-> TRUE, path |-> NoPath,
              display |-> "dial"]

\* null, as a record like the others.
NoConf == [EmptyConf EXCEPT !.version = 0]

-----------------------------------------------------------------------------
(* Local storage: one object for each instrument.                          *)

\* saveObj
SaveObj(s, obj) == IF obj = NoConf THEN s ELSE [s EXCEPT !.local = obj]

\* getObj
GetObj(s) == s.local

-----------------------------------------------------------------------------
(* Cookies.                                                                *)

Cookie(name, value) == [name |-> name, value |-> value]

ConfName  == <<"uid", "confObj">>
OtherName == <<"other uid", "confObj">>
TestName  == <<"random", "test-cookie-by-persistence-js">>

\* Without a policy against it the browser replaces the cookie of that name
\* where it stands, or puts it behind the others.
SetCookie(jar, cookie) ==
    LET i == SelectInSeq(jar, LAMBDA c : c.name = cookie.name)
    IN  IF "cookies" \notin policy THEN jar
        ELSE IF i = 0 THEN Append(jar, cookie) ELSE ReplaceAt(jar, i, cookie)

\* saveParam
SaveParam(jar, name, value) == SetCookie(jar, Cookie(name, value))

\* document.cookie is one text; split(';') leaves a blank before every name
\* but the first one.
CellNames(jar) == [i \in DOMAIN jar |-> <<i # 1, jar[i].name>>]

\* Mistake: a blank is expected before the first name, too.
GetParamBlank(jar, name) ==
    LET hits == {i \in DOMAIN jar : CellNames(jar)[i] = <<TRUE, name>>}
    IN  IF hits = {} THEN <<>> ELSE <<jar[Min(hits)].value>>

\* getParam: the first cell that has the name.
GetParam(jar, name) ==
    LET hits == {i \in DOMAIN jar : CellNames(jar)[i] = <<i # 1, name>>}
    IN  IF hits = {} THEN <<>> ELSE <<jar[Min(hits)].value>>

\* deleteParam: a cookie that has expired is taken out by the browser.
DeleteParam(jar, name) ==
    LET i == SelectInSeq(jar, LAMBDA c : c.name = name)
    IN  IF "cookies" \notin policy \/ i = 0 THEN jar ELSE RemoveAt(jar, i)

\* saveCookieObj
SaveCookieObj(s, obj) ==
    IF obj = NoConf THEN s
    ELSE [s EXCEPT !.jar = SaveParam(s.jar, ConfName, obj)]

\* getCookieObj: null is what JSON.parse makes of null.
GetCookieObj(s) ==
    LET param == GetParam(s.jar, ConfName)
    IN  IF param = <<>> THEN NoConf ELSE param[1]

-----------------------------------------------------------------------------

\* selfTest: a cookie is tried ...
WithTestCookie(s) == SaveParam(s.jar, TestName, "test")
CookieIsRead(s)   == GetParam(WithTestCookie(s), TestName) = <<"test">>

\* ... and what can be read back is taken out again.
AfterSelfTest(s) ==
    [s EXCEPT !.jar = IF CookieIsRead(s)
                      THEN DeleteParam(WithTestCookie(s), TestName)
                      ELSE WithTestCookie(s)]

\* The result of selfTest, which a page runs before it first loads.
SelfTest ==
    tested' = (policy \cap {"local"}) \cup
              (IF CookieIsRead(store) THEN {"cookies"} ELSE {})

\* loadConf: the static file, local storage, cookies, in this order.
LoadConf(s, works) ==
    IF s.static # NoConf       THEN s.static
    ELSE IF "local" \in works   THEN GetObj(s)
    ELSE IF "cookies" \in works THEN GetCookieObj(s)
    ELSE NoConf

\* saveConf: what is kept after obj has been saved.
Saved(s, works, obj) ==
    IF obj = NoConf \/ s.static # NoConf THEN s
    ELSE IF "local" \in works   THEN SaveObj(s, obj)
    ELSE IF "cookies" \in works THEN SaveCookieObj(s, obj)
    ELSE s

\* Otherwise the configuration is read-only, or there is nowhere to keep one.
IsKept == store.static = NoConf /\ policy # {}
=============================================================================
