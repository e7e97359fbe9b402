------------------------------ MODULE PageConf ------------------------------
(***************************************************************************)
(* The configuration object of a page that shows one path: how it is       *)
(* created, checked, kept in the browser's storage under the identity of   *)
(* the instrument and replaced by the user's choice from the menu (conf.js,*)
(* confvalid.js, menu.js, common.js in instrujs/src and data/instrujs/www; *)
(* persistence.js is the module of that name).  Of the 17 fields of the    *)
(* object only the path, the display style and what checkConf looks at are *)
(* kept.                                                                   *)
(***************************************************************************)
EXTENDS Iface, CommonJs, Persistence

CONSTANTS
    Paths,       \* the names of the data paths the plug-in may offer
    Elements     \* their elements: what split('.') makes of the names

ASSUME ElementsAssumption == DOMAIN Elements = Paths

VARIABLES
    conf,        \* fsm.conf
    perspath,    \* fsm.perspath: the path comes from the stored object
    path,        \* fsm.path: the path comes from the menu
    allpaths,    \* fsm.allpaths, fsm.allpathsdb: the offer in the menu
    menu,        \* which menu is built: "onload", "runtime" or "all"
    title        \* the element skPath: the path whose title or name it shows,
                 \* NoPath when it shows a message

confVars == <<conf, perspath, path, allpaths, menu, title, storeVars>>

Displays == {"dial", "donut", "simple", "chart"}

HasPathEntry(p) == PathEntry(Elements[p]) # 0

\* The entry of common.js, with the wildcards replaced.
DefaultsOf(p) ==
    [EmptyConf EXCEPT !.path = p,
                      !.display = SkPathLookup(Elements[p]).display]

Confs == [version : {1}, sameKeys : {TRUE}, path : Paths \cup {NoPath},
          display : Displays]

\* What an earlier version, another instrument or nobody has left behind.
Foreign == {NoConf} \cup
    {[EmptyConf EXCEPT !.version = 0, !.path = p] : p \in Paths} \cup
    {[EmptyConf EXCEPT !.sameKeys = FALSE, !.path = p] : p \in Paths}

\* checkConf: an object of another shape counts as none.
CheckConf(c) ==
    IF c.version = 0 \/ ~c.sameKeys \/ c.path = NoPath THEN NoConf ELSE c

\* getConf, of what loadConf has returned.
GetConf(loaded) == IF CheckConf(loaded) = NoConf THEN EmptyConf ELSE loaded

\* getPathDefaultsIfNew, for a path that the menu lets the user select.
ConfOfSelected(p) ==
    IF CheckConf(DefaultsOf(p)) = NoConf THEN EmptyConf ELSE DefaultsOf(p)

\* What the page asks the plug-in for: getpathAskClient, getschemaAskClient.
PathAsked == IF perspath' THEN conf'.path ELSE path'

\* What an earlier version or an earlier run has kept.
Left == Foreign \cup {DefaultsOf(p) : p \in {q \in Paths : HasPathEntry(q)}}

\* What is on disk when the instrument is started first: a file with an entry
\* for it, with which the policy does not matter, or what the browser has
\* kept, besides the cookies of another instrument.
StoresFor(allowed) ==
    LET nothing == [static |-> NoConf, local |-> NoConf, jar |-> <<>>]
        others  == {<<>>, <<Cookie(OtherName, EmptyConf)>>}
    IN  CASE allowed = Kept ->
               {[nothing EXCEPT !.static = c] : c \in Left \ {NoConf}}
          [] allowed = {"local"} ->
               {[nothing EXCEPT !.local = c] : c \in Left}
          [] allowed = {"cookies"} ->
               {[nothing EXCEPT !.jar = jar] : jar \in others} \cup
               {[nothing EXCEPT !.jar = Append(jar, Cookie(ConfName, c))] :
                   jar \in others, c \in Left \ {NoConf}}
          [] allowed = {} -> {nothing}

ConfInit ==
    /\ conf = NoConf
    /\ perspath = FALSE
    /\ path = NoPath
    /\ allpaths = {}
    /\ menu = "onload"
    /\ title = NoPath
    /\ policy \in SUBSET Kept
    /\ tested = {}
    /\ store \in StoresFor(policy)

\* onWaitdataFinalCheck: the title of the path, else its name.
TitleShown ==
    IF conf.path # NoPath THEN conf.path ELSE IF path # NoPath THEN path ELSE title

\* The menu offers the paths, those with an entry in common.js marked; while
\* one is shown it offers another choice, and before there is a list nothing.
\* Each menu puts a text of its own in the place of the title.
SetMenu(kind) == menu' = kind /\ title' = NoPath

SetMenuAllPaths(list) == allpaths' = list /\ SetMenu("all")
SetMenuRunTime        == SetMenu("runtime")
SetMenuBackToLoading  == SetMenu("onload")

\* memorizeSettings of c, which becomes the configuration, in the store s.
MemorizeSettings(s, works, c) == conf' = c /\ store' = Saved(s, works, c)

\* prepareConfHalt
PrepareConfHalt == store' = Saved(store, tested, conf)

\* clearConf
ClearConf == conf' = NoConf /\ perspath' = FALSE /\ path' = NoPath

\* A new page starts from nothing but the store.
ConfRestart ==
    /\ conf' = NoConf
    /\ perspath' = FALSE
    /\ path' = NoPath
    /\ allpaths' = {}
    /\ menu' = "onload"
    /\ title' = NoPath
    /\ tested' = {}
    /\ UNCHANGED <<policy, store>>

\* onMouseDown on an entry of the menu: the call it makes, with its argument.
MenuCalls ==
    CASE menu = "onload"  -> {}
      [] menu = "runtime" -> {<<"setchgconf", "chgconf">>}
      [] menu = "all"     ->
            {<<"setselected", p>> : p \in {q \in allpaths : HasPathEntry(q)}}
            \cup {<<"setrescan", NoPath>> :
                     p \in {q \in allpaths : ~HasPathEntry(q)}}

\* What may be kept, and the cookies that may hold it.
Objects == Confs \cup Foreign
Cookies == [name : {ConfName, OtherName}, value : Objects]

\* A jar has one cookie of a name.
OneOfAName(jar) ==
    \A i, j \in DOMAIN jar : jar[i].name = jar[j].name => i = j

ConfTypeOK ==
    /\ conf \in Confs \cup {NoConf}
    /\ perspath \in BOOLEAN
    /\ path \in Paths \cup {NoPath}
    /\ allpaths \subseteq Paths
    /\ menu \in {"onload", "runtime", "all"}
    /\ title \in Paths \cup {NoPath}
    /\ policy \subseteq Kept /\ tested \subseteq policy
    /\ store \in [static : Objects, local : Objects, jar : Seq(Cookies)]
    /\ OneOfAName(store.jar)
=============================================================================
