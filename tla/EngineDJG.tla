----------------------------- MODULE EngineDJG -----------------------------
(***************************************************************************)
(* The engine monitor: the page of instrujs/enginedjg, which shows the     *)
(* value of one Signal K path the user has picked, and the plug-in that    *)
(* answers its requests and pushes the values (EngineDJG.cpp on top of     *)
(* InstruJS.cpp).  The page and its stored configuration outlive neither   *)
(* the window nor the program; what has been stored does.                  *)
(* Left out: the alerts of a value beyond its limits, which are off unless *)
(* the user changes the code, and the arithmetic of the scale.             *)
(***************************************************************************)
EXTENDS PageConf, InstruJSPaths

VARIABLES
    shown        \* fsm.glastvalue: the value on the display

jsVars == <<fsm, flag, iface, confVars, shown>>
vars   == <<jsVars, cppVars, pathVars>>

\* statemachine.js, without the transitions between loading states and those
\* from "halt" to itself, which only keep names known.
Transitions ==
    { <<"loaded",   "loading",  "initga">>,
      <<"initok",   "initga",   "getid">>,
      <<"setid",    "getid",    "hasid">>,
      <<"nocfg",    "hasid",    "getall">>,
      <<"hascfg",   "hasid",    "getpath">>,
      <<"setall",   "getall",   "showmenu">>,
      <<"rescan",   "showmenu", "getall">>,
      <<"selected", "showmenu", "getpath">>,
      <<"acksubs",  "getpath",  "waitdata">>,
      <<"newdata",  "waitdata", "showdata">>,
      <<"newdata",  "showdata", "showdata">>,
      <<"chgconf",  "waitdata", "getall">>,
      <<"chgconf",  "showdata", "getall">>,
      <<"swapdisp", "showdata", "showdata">>,
      <<"closing",  "showdata", "halt">> }

States == StatesOf(Transitions)

\* index.js: the events for which the page creates a handler; it registers
\* the other ones with a handler that ignores them.
CreatedEvents == {"setall", "setalldb", "selected", "acksubs", "newdata",
                  "chgconf", "luminsty", "swapdisp", "closing"}

Can(e) == /\ e \in CreatedEvents \cap EventsJS
          /\ CanIn(Transitions, TransitionOfJS(e))

-----------------------------------------------------------------------------
(* disp.js: the display style.                                             *)

NextUp   == [dial |-> "donut",  donut |-> "simple", simple |-> "dial",
             chart |-> "dial"]
NextDown == [dial |-> "simple", donut |-> "dial",   simple |-> "donut",
             chart |-> "dial"]

\* swapDisplay: whatever memorize says, the change is saved (memorize || true).
Swapped(c, next) == [c EXCEPT !.display = next[c.display]]

\* rollDisplayToSelection: a style which is not the dial is reached from it.
Rolled(c) ==
    CASE c.display = "dial"   -> c
      [] c.display = "simple" -> [c EXCEPT !.display = "simple"]
      [] OTHER                -> [c EXCEPT !.display = "donut"]

\* The display is built anew; this saves the configuration in s.
RollOn(s, works, c) == MemorizeSettings(s, works, Rolled(c))

Roll(c) == RollOn(store, tested, c) /\ UNCHANGED browserVars

-----------------------------------------------------------------------------
(* The handlers of the page, called by the plug-in, the menu and the       *)
(* keyboard.  An event the state does not have changes nothing but iface.  *)

Refused(e) ==
    /\ ~Can(e)
    /\ UNCHANGED <<fsm, flag, confVars, shown>>

KeepConf == UNCHANGED <<perspath, path, allpaths, menu>>

\* The display of a value, as a gauge or as a number.
Refresh(v) == shown' = v

\* clearData, without the roll of the display that follows.
ClearDisplay == shown' = NoValue

\* initLoad, on entering "initga".
OnInitga == conf' = EmptyConf /\ ClearDisplay

\* The load event of the window.
Loaded ==
    /\ fsm = "loading"
    /\ fsm' = "initga"
    /\ OnInitga
    /\ UNCHANGED <<flag, iface, perspath, path, allpaths, menu, title,
                   storeVars, cppVars, pathVars>>

\* The polling of index.js until the window has loaded.
InitOk ==
    /\ fsm = "initga"
    /\ fsm' = "getid"
    /\ flag' = "getid"
    /\ UNCHANGED <<iface, confVars, shown, cppVars, pathVars>>

\* setid: getid() clears the message element, the display is rolled and saved
\* whether or not there is a configuration; hascfg or nocfg follows at once.
Setid ==
    /\ UNCHANGED iface
    /\ IF fsm # "getid" THEN UNCHANGED <<fsm, flag, confVars, shown>>
       ELSE /\ SelfTest
            /\ \E s \in {AfterSelfTest(store)} :
               \E loaded \in {LoadConf(s, tested')} :
                  RollOn(s, tested', GetConf(loaded))
            /\ Refresh(iface.value)
            /\ IF conf'.path # NoPath
               THEN /\ perspath' = TRUE /\ SetMenuRunTime
                    /\ UNCHANGED path
                    /\ fsm' = "getpath" /\ flag' = PathAsked
               ELSE /\ perspath' = FALSE /\ UNCHANGED <<path, menu, title>>
                    /\ fsm' = "getall" /\ flag' = "getall"
            /\ UNCHANGED <<allpaths, policy>>

\* setall: getall() clears the message element; the menu offers the paths.
Setall(list) ==
    /\ iface' = iface
    /\ \/ Refused("setall")
       \/ /\ Can("setall")
          /\ fsm' = "showmenu" /\ flag' = NoRequest
          /\ SetMenuAllPaths(list)
          /\ UNCHANGED <<conf, perspath, path, storeVars, shown>>

\* selected: the entry of common.js becomes the configuration.
Selected(p) ==
    /\ iface' = Stored("setselected", p)
    /\ \/ Refused("selected")
       \/ /\ Can("selected")
          /\ fsm' = "getpath"
          /\ SetMenuRunTime
          /\ path' = iface'.selectedpath
          /\ conf' = ConfOfSelected(path')
          /\ store' = Saved(store, tested, conf')
          /\ UNCHANGED <<perspath, allpaths, browserVars, shown>>
          /\ flag' = PathAsked

\* The title on entering "waitdata".
OnWaitdataFinalCheck == title' = TitleShown

\* acksubs: the display is blank until the first value.
Acksubs ==
    /\ UNCHANGED iface
    /\ \/ Refused("acksubs")
       \/ /\ Can("acksubs")
          /\ fsm' = "waitdata" /\ flag' = NoRequest
          /\ ClearDisplay
          /\ Roll(conf)
          /\ OnWaitdataFinalCheck
          /\ KeepConf

\* newdata
Newdata(v) ==
    /\ iface' = Stored("newdata", v)
    /\ \/ Refused("newdata")
       \/ /\ Can("newdata")
          /\ fsm' = "showdata"
          /\ Refresh(iface'.value)
          /\ UNCHANGED <<flag, confVars>>

\* chgconf, from the menu: the display is rolled and saved for the last time.
Chgconf ==
    /\ UNCHANGED iface
    /\ \/ Refused("chgconf")
       \/ /\ Can("chgconf")
          /\ fsm' = "getall" /\ flag' = "getall"
          /\ SetMenuBackToLoading
          /\ ClearDisplay
          /\ store' = Saved(store, tested, Rolled(conf))
          /\ ClearConf
          /\ UNCHANGED <<allpaths, browserVars>>

\* swapdisp: the value is shown again in the new style.
Swapdisp(next) ==
    /\ UNCHANGED iface
    /\ \/ Refused("swapdisp")
       \/ /\ Can("swapdisp")
          /\ Refresh(iface.value)
          /\ MemorizeSettings(store, tested, Swapped(conf, next))
          /\ KeepConf
          /\ UNCHANGED <<title, browserVars, fsm, flag>>

\* closing
Closing ==
    /\ UNCHANGED iface
    /\ \/ Refused("closing")
       \/ /\ Can("closing")
          /\ fsm' = "halt"
          /\ ClearDisplay
          /\ Roll(conf)
          /\ KeepConf /\ UNCHANGED <<title, flag>>

-----------------------------------------------------------------------------
(* The tick of the plug-in, the user, the data.                            *)

Poll ==
    /\ ~pushing
    /\ ReadPage(flag)
    /\ UNCHANGED <<jsVars, pathVars>>

KeepPath == UNCHANGED <<graceCount, hasSchema, subscribedPath, data>>
ThenPush == pushing' = TRUE /\ UNCHANGED <<lastOut, outCnt, discovered>>

Serve ==
    /\ ThenPush
    /\ \/ NothingToServe /\ KeepPath /\ UNCHANGED jsVars
       \/ request = "getid" /\ Answered("GETID", source) /\ KeepPath /\ Setid
       \/ ServeGetall /\ UNCHANGED <<subscribedPath, data>>
                      /\ Setall(discovered)
       \/ CollectPaths /\ UNCHANGED <<subscribedPath, data, jsVars>>
       \/ Subscribe(Paths) /\ UNCHANGED <<graceCount, hasSchema>> /\ Acksubs

Push ==
    \/ PushNothing /\ UNCHANGED jsVars
    \/ PushNewdata /\ Newdata(data)

\* The mouse and the keyboard.  The event raised by setrescan is ignored.
Click ==
    /\ ~closing
    /\ \E call \in MenuCalls :
         \/ call[1] = "setselected" /\ Selected(call[2])
         \/ call[1] = "setchgconf"  /\ Chgconf
    /\ UNCHANGED <<cppVars, pathVars>>

Key ==
    /\ ~closing
    /\ Swapdisp(NextUp) \/ Swapdisp(NextDown)
    /\ UNCHANGED <<cppVars, pathVars>>

Arrives == DataArrives /\ UNCHANGED jsVars

TurnsUp == PathTurnsUp(Paths) /\ UNCHANGED jsVars

\* OnClose of both classes: a page that shows data is told to close.
Close ==
    /\ ~pushing
    /\ CloseInstruJS
    /\ IF istate = "SHOWDATA" THEN Closing ELSE UNCHANGED jsVars
    /\ UNCHANGED pathVars

\* The program ends, orderly or not, and is started again.
Restart ==
    /\ fsm' = "loading" /\ flag' = NoRequest
    /\ iface' = [selectedpath |-> NoPath, value |-> NoValue]
    /\ shown' = NoValue
    /\ ConfRestart
    /\ PathsRestart

Init ==
    /\ fsm = "loading" /\ flag = NoRequest
    /\ iface = [selectedpath |-> NoPath, value |-> NoValue]
    /\ shown = NoValue
    /\ ConfInit
    /\ PathsInit

Next ==
    \/ Loaded \/ InitOk \/ Poll \/ Serve \/ Push
    \/ Click \/ Key \/ Arrives \/ TurnsUp
    \/ Close \/ Restart

Spec == Init /\ [][Next]_vars

\* The browser, the page's own polling and the timer of the plug-in.
Fairness ==
    /\ WF_vars(Loaded) /\ WF_vars(InitOk)
    /\ WF_vars(Poll) /\ WF_vars(Serve) /\ WF_vars(Push)

FairSpec == Spec /\ Fairness

-----------------------------------------------------------------------------
(* Properties.                                                             *)

TypeOK ==
    /\ fsm \in States \ {"hasid"}
    /\ flag \in {NoRequest, "getid", "getall"} \cup Paths
    /\ iface \in [selectedpath : Paths \cup {NoPath},
                  value : [of : Paths \cup {""}, text : Texts \cup {""}]]
    /\ shown \in [of : Paths \cup {""}, text : Texts \cup {""}]
    /\ ConfTypeOK
    /\ PathsTypeOK(Paths)

\* A value on the display belongs to the path whose name stands beside it,
\* through every change of the path, with values on their way from the
\* communication thread (InstruJS.cpp, the service of a path request).
ShownIsSubscribed ==
    fsm = "showdata" =>
      conf.path # NoPath /\ title = conf.path /\ shown.of = title

\* What a user has picked and how it is displayed survives the end of the
\* program at any moment: the stored object is the one in use.
StoredIsShown ==
    fsm \in {"getpath", "waitdata", "showdata"}
      /\ IsKept => LoadConf(store, tested) = conf

\* A page that waits for an answer of the plug-in gets it, when there is a
\* list of paths to answer with: neither the grace count nor the request
\* served before lose the question.
QuestionAnswered ==
    /\ (fsm = "getid") ~> (fsm # "getid" \/ closing)
    /\ (fsm = "getpath") ~> (fsm # "getpath" \/ closing)
    /\ (fsm = "getall" /\ discovered # {}) ~> (fsm # "getall" \/ closing)
=============================================================================
