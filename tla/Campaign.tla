------------------------------ MODULE Campaign ------------------------------
(***************************************************************************)
(* The journals a page asks the controller to keep (src/web/js/app.js): a  *)
(* tab starts and stops a campaign that bears its name, cleaned as the     *)
(* controller does, and shows a dot (`enabled`) while it believes that it  *)
(* runs. The campaigns go on without the page; the page learns of them     *)
(* when it opens and while the window of the journal is open.              *)
(*                                                                         *)
(* Calls are answered, applied and lost in any order. A tab may also keep  *)
(* its journal itself: `enabled` then says so.                             *)
(***************************************************************************)
EXTENDS Naturals, SequencesExt

CONSTANTS
  Tabs,        \* tabs that may be open
  Names,
  Clean,       \* name -> name of its campaign (serverCampaignName)
  None,
  MaxCalls     \* bound on the calls under way

VARIABLES
  running,     \* names of the campaigns that run
  tab,         \* tab -> what it is, None when closed
  saved,       \* what the store of the session describes
  online,      \* the page is served by the controller (serverLogAvailable)
  modal,       \* tab whose window of the journal is open
  posts,       \* calls under way
  sure         \* history: tabs whose last news is still good
vars == <<running, tab, saved, online, modal, posts, sure>>

Fresh(n) == [name |-> n, dest |-> "browser", enabled |-> FALSE]
TabStates == [name : Names, dest : {"browser", "server"}, enabled : BOOLEAN]
IsOpen(t) == tab[t] # None
Campaign(t) == Clean[tab[t].name]
OnServer(t) == IsOpen(t) /\ tab[t].dest = "server"

TypeOK ==
  /\ running \subseteq {Clean[n] : n \in Names}
  /\ tab \in [Tabs -> TabStates \cup {None}] /\ \E t \in Tabs : IsOpen(t)
  /\ saved \in [Tabs -> TabStates \cup {None}]
  /\ online \in BOOLEAN
  /\ modal = None \/ IsOpen(modal)
  /\ Len(posts) <= MaxCalls /\ sure \subseteq Tabs

Init ==
  /\ running = {} /\ online \in BOOLEAN
  /\ \E t \in Tabs, n \in Names : tab = [x \in Tabs |-> IF x = t THEN Fresh(n) ELSE None]
  /\ saved = tab /\ modal = None /\ posts = <<>> /\ sure = {}

-----------------------------------------------------------------------------
(* What the page does. onChange saves the session, half a second later.    *)

onChange == saved' = tab'
Set(t, field, v) == tab' = [tab EXCEPT ![t][field] = v]

\* A call is about a tab, by the name the tab has when it leaves. `good`:
\* nothing has changed since it was answered.
Call(op, t, name) ==
  [op |-> op, tab |-> t, name |-> name, answer |-> <<>>, good |-> TRUE]
Asked(c) == Len(posts) < MaxCalls /\ posts' = Append(posts, c)

startLogging(t) ==
  /\ modal = t /\ ~tab[t].enabled
  /\ IF tab[t].dest = "browser"
     THEN Set(t, "enabled", TRUE) /\ onChange /\ UNCHANGED posts
     ELSE online /\ Asked(Call("start", t, Campaign(t))) /\ UNCHANGED <<tab, saved>>
  /\ UNCHANGED <<running, online, modal, sure>>

stopLogging(t) ==
  /\ modal = t /\ tab[t].enabled
  /\ IF tab[t].dest = "browser"
     THEN Set(t, "enabled", FALSE) /\ onChange /\ UNCHANGED posts
     ELSE Asked(Call("stop", t, Campaign(t))) /\ UNCHANGED <<tab, saved>>
  /\ UNCHANGED <<running, online, modal, sure>>

\* Every second while the window is open, and after every command.
refresh(t) ==
  /\ modal = t /\ tab[t].dest = "server" /\ online
  /\ Asked(Call("status", t, None))
  /\ UNCHANGED <<running, tab, saved, online, modal, sure>>

openLogModal(t) ==
  /\ modal = None /\ IsOpen(t)
  /\ modal' = t
  /\ IF online THEN UNCHANGED tab ELSE Set(t, "dest", "browser")
  /\ UNCHANGED <<running, saved, online, posts, sure>>

Close ==
  /\ modal # None /\ modal' = None
  /\ UNCHANGED <<running, tab, saved, online, posts, sure>>

ChangeDest(t) ==
  /\ modal = t /\ online
  /\ Set(t, "dest", IF tab[t].dest = "server" THEN "browser" ELSE "server")
  /\ onChange /\ sure' = sure \ {t}
  /\ UNCHANGED <<running, online, modal, posts>>

\* The commands under way are about the name before.
Outdated(c, t) ==
  IF c.tab = t /\ c.op \in {"start", "stop"} THEN [c EXCEPT !.good = FALSE] ELSE c

startRename(t, n) ==
  /\ modal = None /\ IsOpen(t) /\ tab[t].name # n
  /\ Set(t, "name", n) /\ onChange /\ sure' = sure \ {t}
  /\ posts' = [i \in DOMAIN posts |-> Outdated(posts[i], t)]
  /\ UNCHANGED <<running, online, modal>>

\* A campaign survives the tab that started it.
closeTab(t) ==
  /\ modal = None /\ IsOpen(t) /\ \E x \in Tabs \ {t} : IsOpen(x)
  /\ tab' = [tab EXCEPT ![t] = None] /\ onChange /\ sure' = sure \ {t}
  /\ posts' = [i \in DOMAIN posts |->
                 IF posts[i].tab = t THEN [posts[i] EXCEPT !.tab = None] ELSE posts[i]]
  /\ UNCHANGED <<running, online, modal>>

createTab(t, n) ==
  /\ modal = None /\ ~IsOpen(t)
  /\ tab' = [tab EXCEPT ![t] = Fresh(n)] /\ onChange
  /\ UNCHANGED <<running, online, modal, posts, sure>>

-----------------------------------------------------------------------------
(* The controller.                                                         *)

\* The news of the other calls and tabs about campaign n are old.
Changed(n) == sure' = {t \in sure : Campaign(t) # n}
Aged(s, n) == [i \in DOMAIN s |->
  IF s[i].answer # <<>> /\ (s[i].op \in {"status", "boot"} \/ s[i].name = n)
  THEN [s[i] EXCEPT !.good = FALSE] ELSE s[i]]

With(i, answer, s) == [s EXCEPT ![i].answer = <<answer>>]

Started(i) ==
  /\ posts[i].op = "start" /\ posts[i].answer = <<>>
  /\ running' = running \cup {posts[i].name}
  /\ posts' = With(i, TRUE, Aged(posts, posts[i].name))
  /\ Changed(posts[i].name)
  /\ UNCHANGED <<tab, saved, online, modal>>

Stopped(i) ==
  /\ posts[i].op = "stop" /\ posts[i].answer = <<>>
  /\ running' = running \ {posts[i].name}
  /\ posts' = With(i, TRUE, Aged(posts, posts[i].name))
  /\ Changed(posts[i].name)
  /\ UNCHANGED <<tab, saved, online, modal>>

Listed(i) ==
  /\ posts[i].op \in {"status", "boot"} /\ posts[i].answer = <<>>
  /\ posts' = With(i, running, posts)
  /\ UNCHANGED <<running, tab, saved, online, modal, sure>>

\* Another station starts or stops a campaign.
Elsewhere ==
  /\ \E n \in {Clean[x] : x \in Names} :
       /\ running' = IF n \in running THEN running \ {n} ELSE running \cup {n}
       /\ posts' = Aged(posts, n) /\ Changed(n)
  /\ UNCHANGED <<tab, saved, online, modal>>

-----------------------------------------------------------------------------
(* What the page does of an answer, or of a failure.                       *)

Sure(set, good) == sure' = IF good THEN sure \cup set ELSE sure \ set
Ended(i) == posts' = RemoveAt(posts, i)

\* A tab that was closed meanwhile is no longer there to change.
StartAnswered(i) ==
  /\ posts[i].op = "start" /\ posts[i].answer # <<>> /\ Ended(i)
  /\ LET t == posts[i].tab
     IN IF t = None THEN UNCHANGED <<tab, sure>> /\ onChange
        ELSE Set(t, "enabled", TRUE) /\ onChange /\ Sure({t}, posts[i].good)
  /\ UNCHANGED <<running, online, modal>>

StopAnswered(i) ==
  /\ posts[i].op = "stop" /\ posts[i].answer # <<>> /\ Ended(i)
  /\ LET t == posts[i].tab
     IN IF t = None THEN UNCHANGED <<tab, sure>> /\ onChange
        ELSE Set(t, "enabled", FALSE) /\ onChange /\ Sure({t}, posts[i].good)
  /\ UNCHANGED <<running, online, modal>>

\* Variant: the name of the tab is looked for, not the one of its file.
OnInUncleaned(t, list) == tab[t].name \in list

\* The dot of a tab, from the list of the campaigns.
OnIn(t, list) == Campaign(t) \in list

StatusAnswered(i) ==
  /\ posts[i].op = "status" /\ posts[i].answer # <<>> /\ Ended(i)
  /\ LET t == posts[i].tab
     IN IF t = None THEN UNCHANGED <<tab, sure>>
        ELSE Set(t, "enabled", OnIn(t, posts[i].answer[1])) /\ Sure({t}, posts[i].good)
  /\ UNCHANGED <<running, saved, online, modal>>

reconcileServerLogging(i) ==
  /\ posts[i].op = "boot" /\ posts[i].answer # <<>> /\ Ended(i)
  /\ tab' = [t \in Tabs |-> IF OnServer(t)
               THEN [tab[t] EXCEPT !.enabled = OnIn(t, posts[i].answer[1])] ELSE tab[t]]
  /\ Sure({t \in Tabs : OnServer(t)}, posts[i].good)
  /\ UNCHANGED <<running, saved, online, modal>>

\* A failed start changes nothing; a failed stop still puts the dot out, and a
\* failed reading is that of an empty list. The controller may have obeyed.
Lost(i) ==
  /\ posts' = RemoveAt(IF posts[i].op \in {"status", "boot"} THEN posts
                       ELSE Aged(posts, posts[i].name), i)
  /\ LET t == posts[i].tab
         done == IF posts[i].answer # <<>> THEN running
                 ELSE CASE posts[i].op = "start" -> running \cup {posts[i].name}
                        [] posts[i].op = "stop" -> running \ {posts[i].name}
                        [] OTHER -> running
     IN /\ running' \in {running, done}
        /\ tab' = [x \in Tabs |->
             IF \/ x = t /\ posts[i].op \in {"stop", "status"}
                \/ posts[i].op = "boot" /\ OnServer(x)
             THEN [tab[x] EXCEPT !.enabled = FALSE] ELSE tab[x]]
        /\ IF posts[i].op = "stop" THEN onChange ELSE UNCHANGED saved
  /\ sure' = {}
  /\ UNCHANGED <<online, modal>>

-----------------------------------------------------------------------------
(* The page is closed and opened again on its session: tabs whose journal  *)
(* was on start it again, then the state of the campaigns is read.         *)

Due == {t \in Tabs : saved[t] # None /\ saved[t].enabled /\ saved[t].dest = "server"}

Boot ==
  /\ posts = <<>> /\ Cardinality(Due) < MaxCalls
  /\ online' \in BOOLEAN
  /\ tab' = [t \in Tabs |-> IF saved[t] = None THEN None
               ELSE [saved[t] EXCEPT !.enabled = @ /\ saved[t].dest = "browser"]]
  /\ posts' = IF ~online' THEN <<>>
              ELSE Append(SetToSeq({Call("start", t, Clean[saved[t].name]) : t \in Due}),
                          Call("boot", None, None))
  /\ onChange /\ modal' = None /\ sure' = {}
  /\ UNCHANGED <<running>>

Next ==
  \/ \E t \in Tabs : startLogging(t) \/ stopLogging(t) \/ refresh(t) \/ openLogModal(t)
                     \/ ChangeDest(t) \/ closeTab(t)
  \/ \E t \in Tabs, n \in Names : startRename(t, n) \/ createTab(t, n)
  \/ Close \/ Elsewhere \/ Boot
  \/ \E i \in DOMAIN posts :
       \/ Started(i) \/ Stopped(i) \/ Listed(i) \/ Lost(i)
       \/ StartAnswered(i) \/ StopAnswered(i) \/ StatusAnswered(i)
       \/ reconcileServerLogging(i)

Spec == Init /\ [][Next]_vars

-----------------------------------------------------------------------------
(* The dot of a tab tells whether its campaign runs, once an answer about  *)
(* it came back that nothing had made old meanwhile: another command, a    *)
(* rename, a change of destination, another station or a failed call.      *)
DotTells == \A t \in sure : OnServer(t) => (tab[t].enabled <=> Campaign(t) \in running)
=============================================================================
