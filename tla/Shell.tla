------------------------------- MODULE Shell -------------------------------
(***************************************************************************)
(* The screens of the touch panel (ui/lvgl): the stack of UiShell, home,   *)
(* the conversations, the mesh pages and the bearing dial, the alert and   *)
(* the clock the panel rests on.  One task runs it all; what interleaves   *)
(* are taps, keys, timers and arriving messages, over pointers that every  *)
(* screen of a kind shares.  LVGL itself is external: a screen that is     *)
(* left by back() slides for a moment before it is deleted.                *)
(***************************************************************************)
EXTENDS Integers, Sequences, SequencesExt

CONSTANTS
  Peers, None,           \* those one may talk to; nobody
  kStack                 \* the length of sStack

VARIABLES
  stack,       \* sStack[0 .. sDepth-1]
  active,      \* lv_screen_active()
  dying,       \* the screen back() left, while it slides
  sThreadDest, sBearingHash,
  sThreadCol,  \* the column of the thread opened last is known
  kb,          \* what the keyboard's textarea is on
  box,         \* the dialog for a new conversation
  alert,       \* showIncoming: whom from
  idle,        \* the clock is showing
  fresh        \* what takes in the newest message: the bubbles, the list, lastIn, the cursor, the badge
glass == <<stack, active, dying, sThreadDest, sBearingHash, sThreadCol, kb>>
vars == <<glass, box, alert, idle, fresh>>

\* A screen is "own" while the statics of its kind (sList, sThreadTa,
\* sDialOwner) point at it.
Screen(kind, peer) == [kind |-> kind, peer |-> peer, own |-> TRUE]
NoScreen == [Screen("none", None) EXCEPT !.own = FALSE]
Home == Screen("home", None)
System == "SYSTEM"
atRoot == stack = << >>

-----------------------------------------------------------------------------
Disowned(s, kinds) == IF s.kind \in kinds THEN [s EXCEPT !.own = FALSE] ELSE s
Stacked(scrs, kinds) == [i \in DOMAIN scrs |-> Disowned(scrs[i], kinds)]

\* Mutant: any dial or plot that dies forgets the one there is.
ForgottenByAny(dead) == {k \in {"list", "dial", "plot"} : \E s \in dead : s.kind = k}

\* What the DELETE hooks of the screens that die forget: a list sList,
\* whichever is open; the statics of a dial or a plot die with their owner only.
Forgotten(dead) == {k \in {"list"} : \E s \in dead : s.kind = k}

\* A thread's hook forgets the column, whichever is open.
ColAfter(col, dead) == col /\ \A s \in dead : s.kind # "thread"

\* lv_screen_load_anim(): a slide under way is cut short, its screen deleted.
\* A page refused for depth is deleted too; the statics it set stay set.
push(s, col) ==
  LET dead == IF Len(stack) >= kStack THEN {s} ELSE {dying}
      lost == Forgotten(dead) \cup (IF s.kind = "thread" THEN {"thread", "quick"} ELSE {s.kind})
  IN  /\ sThreadCol' = ColAfter(col, dead)
      /\ IF Len(stack) >= kStack
         THEN stack' = Stacked(stack, lost) /\ active' = Disowned(active, lost) /\ dying' = Disowned(dying, lost)
         ELSE /\ stack' = Append(Stacked(stack, lost), Disowned(active, lost))
              /\ active' = Disowned(s, Forgotten(dead)) /\ dying' = NoScreen

unbound == kb' = "none"
back ==
  IF atRoot THEN UNCHANGED <<stack, active, dying, sThreadCol, kb>>
  ELSE /\ unbound
       /\ stack' = Stacked(Front(stack), Forgotten({dying}))
       /\ active' = Disowned(Last(stack), Forgotten({dying}))
       /\ dying' = Disowned(active, Forgotten({dying}))
       /\ sThreadCol' = ColAfter(sThreadCol, {dying})
\* The slide is over: auto_del.
Slid ==
  LET lost == Forgotten({dying})
  IN  /\ dying # NoScreen /\ dying' = NoScreen
      /\ stack' = Stacked(stack, lost) /\ active' = Disowned(active, lost)
      /\ sThreadCol' = ColAfter(sThreadCol, {dying})
      /\ UNCHANGED <<sThreadDest, sBearingHash, kb, box, alert, idle, fresh>>

\* toRoot, then openHome: the keyboard is unbound only if there was a screen to
\* delete; in the end none is left but home.
toRoot ==
  /\ IF atRoot THEN UNCHANGED kb ELSE unbound
  /\ sThreadCol' = ColAfter(sThreadCol, {active, dying} \cup ToSet(stack))
openHome == stack' = << >> /\ active' = Home /\ dying' = NoScreen

-----------------------------------------------------------------------------
\* home's badge is the count of what came after the cursor: refreshHome,
\* unreadCount.
refreshHome ==
  /\ atRoot /\ ~idle /\ "badge" \notin fresh
  /\ fresh' = fresh \cup {"badge"}
  /\ UNCHANGED <<glass, box, alert, idle>>
Counted(f) == IF idle THEN f \ {"badge"} ELSE f \cup {"badge"}
\* markSeen moves the cursor, and the badge is behind until home counts again.
markSeen(f) == IF "read" \in f THEN f ELSE (f \cup {"read"}) \ {"badge"}

\* The shortcut keys of a board, whatever is on the glass; the page asked for
\* is pushed over the new home.
keyBack == back /\ UNCHANGED <<sThreadDest, sBearingHash, box, alert, idle, fresh>>
keyHome ==
  /\ toRoot /\ openHome /\ fresh' = Counted(fresh)
  /\ UNCHANGED <<sThreadDest, sBearingHash, box, alert, idle>>
keyMessages ==
  /\ toRoot
  /\ stack' = <<Home>> /\ active' = Screen("list", None) /\ dying' = NoScreen
  /\ fresh' = markSeen(Counted(fresh) \cup {"listed"})
  /\ UNCHANGED <<sThreadDest, sBearingHash, box, alert, idle>>
keyMap ==
  /\ toRoot
  /\ stack' = <<Home>> /\ active' = Screen("plot", None) /\ dying' = NoScreen
  /\ fresh' = Counted(fresh)
  /\ UNCHANGED <<sThreadDest, sBearingHash, box, alert, idle>>
\* barTick sees the other palette in the settings.
retheme ==
  /\ toRoot /\ unbound /\ openHome /\ idle' = FALSE /\ fresh' = fresh \cup {"badge"}
  /\ UNCHANGED <<sThreadDest, sBearingHash, box, alert>>

-----------------------------------------------------------------------------
\* A tap lands on what is uppermost; any but one on the keyboard takes the
\* focus from the field it was bound to.
Reaches == ~idle /\ alert = None /\ ~box
Lands == ~idle /\ alert = None
Kept == UNCHANGED <<stack, active, dying, sThreadCol>>

\* The open list: it is read as it is shown.
OpensList == push(Screen("list", None), sThreadCol) /\ fresh' = markSeen(fresh \cup {"listed"}) /\ UNCHANGED sThreadDest
openMessages ==
  /\ Reaches /\ active.kind = "home" /\ OpensList /\ unbound
  /\ UNCHANGED <<sBearingHash, box, alert, idle>>
listTick ==
  /\ \E s \in {active, dying} \cup ToSet(stack) : s.kind = "list" /\ s.own
  /\ "listed" \notin fresh /\ fresh' = markSeen(fresh \cup {"listed"})
  /\ UNCHANGED <<glass, box, alert, idle>>

openThreadScreen(peer) ==
  /\ push(Screen("thread", peer), TRUE)
  /\ sThreadDest' = peer /\ fresh' = fresh \cup {"drawn"}
openThread(peer) ==
  /\ Reaches /\ (active.kind = "list" \/ (active.kind = "detail" /\ active.peer = peer))
  /\ openThreadScreen(peer) /\ unbound
  /\ UNCHANGED <<sBearingHash, box, alert, idle>>
newConversation ==
  /\ Reaches /\ active.kind = "list" /\ box' = TRUE /\ unbound
  /\ Kept /\ UNCHANGED <<sThreadDest, sBearingHash, alert, idle, fresh>>
closeBox ==
  /\ box /\ Lands /\ box' = FALSE /\ unbound
  /\ Kept /\ UNCHANGED <<sThreadDest, sBearingHash, alert, idle, fresh>>
openTyped(peer) ==
  /\ box /\ Lands /\ box' = FALSE /\ openThreadScreen(peer) /\ unbound
  /\ UNCHANGED <<sBearingHash, alert, idle>>

\* The timer of every thread on the stack redraws the one column there is.
threadTick ==
  /\ sThreadCol /\ "lastIn" \notin fresh
  /\ fresh' = fresh \cup {"lastIn", "drawn"}
  /\ UNCHANGED <<glass, box, alert, idle>>

Redrawn == fresh' = IF sThreadCol THEN fresh \cup {"drawn"} ELSE fresh
\* To sThreadDest, from the field of the thread opened last.
sendCurrent ==
  /\ Reaches /\ active.kind = "thread" /\ Redrawn /\ unbound
  /\ Kept /\ UNCHANGED <<sThreadDest, sBearingHash, box, alert, idle>>
openQuick ==
  /\ Reaches /\ active.kind = "thread"
  /\ push([Screen("quick", active.peer) EXCEPT !.own = active.own], sThreadCol) /\ unbound
  /\ UNCHANGED <<sThreadDest, sBearingHash, box, alert, idle, fresh>>
quickSend ==
  /\ Reaches /\ active.kind = "quick" /\ Redrawn /\ back
  /\ UNCHANGED <<sThreadDest, sBearingHash, box, alert, idle>>
\* The conversation is deleted; the list that is known is rebuilt.
trash ==
  /\ Reaches /\ active.kind = "thread" /\ back
  /\ fresh' = IF \E s \in {active'} \cup ToSet(stack') : s.kind = "list" /\ s.own THEN fresh \cup {"listed"} ELSE fresh
  /\ UNCHANGED <<sThreadDest, sBearingHash, box, alert, idle>>

openDestinations ==
  /\ Reaches /\ active.kind = "home" /\ push(Screen("mesh", None), sThreadCol) /\ unbound
  /\ UNCHANGED <<sThreadDest, sBearingHash, box, alert, idle, fresh>>
openDetail(peer) ==
  /\ Reaches /\ active.kind = "mesh" /\ push(Screen("detail", peer), sThreadCol) /\ unbound
  /\ UNCHANGED <<sThreadDest, sBearingHash, box, alert, idle, fresh>>
openBearing ==
  /\ Reaches /\ active.kind = "detail"
  /\ push(Screen("dial", active.peer), sThreadCol) /\ sBearingHash' = active.peer /\ unbound
  /\ UNCHANGED <<sThreadDest, box, alert, idle, fresh>>
openPlot ==
  /\ Reaches /\ active.kind = "mesh" /\ push(Screen("plot", None), sThreadCol) /\ unbound
  /\ UNCHANGED <<sThreadDest, sBearingHash, box, alert, idle, fresh>>

backEvent ==
  /\ Reaches /\ active.kind # "home" /\ back
  /\ UNCHANGED <<sThreadDest, sBearingHash, box, alert, idle, fresh>>
taFocusEvent ==
  /\ Lands /\ (box \/ active.kind = "thread")
  /\ kb' = IF box THEN "box" ELSE "screen"
  /\ Kept /\ UNCHANGED <<sThreadDest, sBearingHash, box, alert, idle, fresh>>
kbEvent ==
  /\ ~idle /\ kb # "none" /\ unbound
  /\ Kept /\ UNCHANGED <<sThreadDest, sBearingHash, box, alert, idle, fresh>>

-----------------------------------------------------------------------------
\* A message is kept by another task; restTick takes the notice of it.
Arrives ==
  /\ fresh' = {}
  /\ UNCHANGED <<glass, box, alert, idle>>
\* The newest alert wins; a failed update speaks as the system.
showIncoming(from) ==
  /\ alert' = from /\ idle' = FALSE
  /\ UNCHANGED <<glass, box, fresh>>
dismiss ==
  /\ ~idle /\ alert # None /\ alert' = None /\ unbound
  /\ Kept /\ UNCHANGED <<sThreadDest, sBearingHash, box, idle, fresh>>
openAlert ==
  /\ ~idle /\ alert # None /\ alert' = None /\ unbound
  /\ IF alert = System THEN OpensList ELSE openThreadScreen(alert)
  /\ UNCHANGED <<sBearingHash, box, idle>>
showIdle(on) ==
  /\ idle # on /\ idle' = on
  /\ UNCHANGED <<glass, box, alert, fresh>>

-----------------------------------------------------------------------------
Init ==
  /\ stack = << >> /\ active = Home /\ dying = NoScreen
  /\ sThreadDest = None /\ sBearingHash = None /\ sThreadCol = FALSE
  /\ kb = "none" /\ box = FALSE /\ alert = None /\ idle = FALSE
  /\ fresh = {"drawn", "listed", "lastIn", "read", "badge"}

Keys == keyBack \/ keyHome \/ keyMessages \/ keyMap
Taps ==
  \/ openMessages \/ newConversation \/ closeBox \/ sendCurrent \/ openQuick \/ quickSend \/ trash
  \/ openDestinations \/ openBearing \/ openPlot \/ backEvent \/ taFocusEvent \/ kbEvent \/ dismiss \/ openAlert
  \/ \E peer \in Peers : openThread(peer) \/ openTyped(peer) \/ openDetail(peer)
Timers == Slid \/ refreshHome \/ retheme \/ listTick \/ threadTick
Others == Arrives \/ (\E from \in Peers \cup {System} : showIncoming(from)) \/ (\E on \in BOOLEAN : showIdle(on))
Next == Keys \/ Taps \/ Timers \/ Others

Spec == Init /\ [][Next]_vars

-----------------------------------------------------------------------------
\* The keyboard writes into no field that is gone; home is under it all; of the
\* screens of a kind the statics point at one at most.
StackSound ==
  /\ kb # "gone" /\ (kb = "screen" => active.kind = "thread") /\ (kb = "box" => box)
  /\ \A i \in DOMAIN stack : stack[i].kind = "home" <=> i = 1
  /\ \A i, j \in DOMAIN stack : stack[i].kind = stack[j].kind /\ stack[i].own /\ stack[j].own => i = j

\* A dial or a plot on the glass is never blinded by an older one that dies, and
\* the dial points at its own peer; a thread that was opened last is the one written to.
GlassTrue ==
  /\ active.kind \in {"dial", "plot"} => active.own
  /\ active.kind = "dial" => sBearingHash = active.peer
  /\ active.kind \in {"thread", "quick"} /\ active.own => sThreadDest = active.peer

\* UiMessages.cpp:7: a thread interleaves what they said with what this node
\* answered; what is sent from it goes to them.
AnswersGoToThem == active.kind \in {"thread", "quick"} => sThreadDest = active.peer

\* UiMessages.cpp:39: the cursor is the newest the operator has had the list in
\* front of.
SeenInFront == [][("read" \notin fresh /\ "read" \in fresh') => active'.kind = "list"]_vars
=============================================================================
