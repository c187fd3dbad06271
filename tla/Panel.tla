------------------------------- MODULE Panel -------------------------------
(***************************************************************************)
(* The panel: the display task's pass (ui/Display.cpp), the rule that puts *)
(* a page on the glass (ui/RefreshPolicy.h), the three panels it drives    *)
(* (OledPanel, EinkPanel, TftPanel) and, on the colour panel, the rest of  *)
(* the graphical shell (ui/LvglUi.cpp): its idle clock, its wake-ups.      *)
(*                                                                         *)
(* A tick is one pass.  What a page says of the node is one watched fact   *)
(* at a time: a page whose drawing reads it changes when it does.          *)
(***************************************************************************)
EXTENDS Integers, Sequences

CONSTANTS
  Kinds,       \* the panels: "oled", "eink", "tft"
  Contexts,    \* what holds of the node while it runs: sets of conditions
  Watched,     \* the facts watched, of those the pages read
  Long,        \* passes a press is held to be long
  PageTimeout, \* passes before a page turned to gives way to the first
  Sleep,       \* passes of quiet before the panel rests
  RestEvery,   \* passes between two paints of the first page of an e-paper
  TurnedEvery, \* the same of the other pages
  Bright, Profile, Floor, \* the brightness set, the power profile, the floor
  FullEvery,   \* fast updates of an e-paper between two full ones
  Oldest       \* ages from here on are one age: beyond all they are compared with

VARIABLES
  kind, shell, context, watched,
  value,       \* the watched fact, 0 or 1
  busy,        \* an update is being received or installed
  notice,      \* a message waits to be announced
  d,           \* the display: Display, its policies, its panel and the glass
  unseen       \* passes for which the glass has shown something else
vars == <<kind, shell, context, watched, value, busy, notice, d, unseen>>

Pages == <<"status", "neighbors", "transport", "radio", "network", "gps", "env", "qr">>
Older(age) == IF age < Oldest THEN age + 1 ELSE Oldest

-----------------------------------------------------------------------------
\* What each page reads, of the facts that change.
If(condition, facts) == IF condition \in context THEN facts ELSE {}
Header == {"battery", "radio", "rx", "rssi", "joined", "fix"}
StatusReads ==
  IF "compact" \in context
  THEN {"ssid", "radio", "rx", "tx", "battery", "uptime"} \cup If("radio", {"channel"})
  ELSE Header \cup {"ssid", "wifi", "snr", "tx", "peers", "announces", "uptime"}
         \cup If("radio", {"channel"})
         \cup (IF "battery" \in context THEN {} ELSE {"clients"})
NeighborsReads ==
  {"peers"} \cup IF "compact" \in context THEN {} ELSE Header \cup If("peers", {"rssi"})
TransportReads ==
  {"transport", "paths", "interfaces", "announces"}
    \cup IF "compact" \in context THEN {} ELSE Header \cup {"traffic", "beacons"}
RadioReads ==
  IF "compact" \in context
  THEN {"radio"} \cup If("radio", {"channel", "rx"} \cup If("heard", {"rssi", "snr"}))
  ELSE Header \cup {"channel", "duty"} \cup If("heard", {"snr"})
GpsReads ==
  Header \cup If("receiver", {"satellites", "utc"} \cup
    IF "fix" \in context THEN {"position"} ELSE {"sentences"})
EnvReads ==
  Header \cup If("sensor", {"missed"} \cup If("reading", {"weather"}))
QrReads == {"ssid", "security"}
NetworkReads ==
  {"wifi", "ssid", "clients"} \cup
    IF "compact" \in context
    THEN If("wifi", {"security", "joined", "address"})
    ELSE Header \cup {"key", "card"} \cup If("wifi", {"security"} \cup If("joined", {"rssi"}))
Reads(page) ==
  CASE page = "status" -> StatusReads       [] page = "neighbors" -> NeighborsReads
    [] page = "transport" -> TransportReads [] page = "radio" -> RadioReads
    [] page = "network" -> NetworkReads     [] page = "gps" -> GpsReads
    [] page = "env" -> EnvReads             [] page = "qr" -> QrReads
FrameOf(page) == [page |-> page, value |-> IF watched \in Reads(page) THEN value ELSE 0]

\* The next page that means something, either way.
skipPage(page) ==
  \/ page = "qr" /\ ("compact" \in context \/ "wifi" \notin context)
  \/ page = "gps" /\ "gps" \notin context
  \/ page = "env" /\ "env" \notin context
Index(page) == CHOOSE i \in 1..8 : Pages[i] = page
Ahead(page, dir, n) == Pages[((Index(page) + 7 + n * dir) % 8) + 1]
stepPage(page, dir) ==
  Ahead(page, dir, CHOOSE n \in 1..8 :
    ~skipPage(Ahead(page, dir, n)) /\ \A k \in 1..(n - 1) : skipPage(Ahead(page, dir, k)))

-----------------------------------------------------------------------------
\* The backlight: what it should be, and the part that counts pulses.
\* What the shift of each profile divides by; one unknown is taken for the first.
kIdleShift(profile) == CASE profile = 1 -> 4 [] profile = 2 -> 8 [] OTHER -> 2
stageOf(s) == IF s.blank THEN "blank" ELSE IF shell /\ s.idle THEN "idle" ELSE "active"
level(configured, stage, profile) ==
  LET ceiling == IF configured > 100 THEN 100 ELSE configured
      stepped == ceiling \div kIdleShift(profile)
      lit     == IF stepped < Floor THEN Floor ELSE stepped
  IN  CASE stage = "blank"  -> 0
        [] stage = "active" -> ceiling
        [] stage = "idle"   -> IF lit > ceiling THEN ceiling ELSE lit
backlightPct(s) == IF kind = "tft" THEN level(Bright, stageOf(s), Profile) ELSE Bright

\* Sixteen levels, stepped down and round again by pulses; off forgets them.
backlightSet(light, pct) ==
  LET asked == (pct * 16 + 99) \div 100
      want  == IF asked > 16 THEN 16 ELSE asked
      from  == IF light = 0 THEN 16 ELSE light
      pulses == (16 + (16 - want) - (16 - from)) % 16
  IN  IF pct = 0 THEN 0 ELSE ((from - pulses - 1 + 16) % 16) + 1
applyBacklight(s) ==
  IF ~s.lit \/ s.blanked THEN s ELSE [s EXCEPT !.light = backlightSet(@, s.bright)]
setBrightness(s, pct) == applyBacklight([s EXCEPT !.bright = pct])
applyBrightness(s) ==
  LET pct == backlightPct(s)
  IN  IF kind = "eink" \/ pct = s.told THEN s
      ELSE LET t == [s EXCEPT !.told = pct]
           IN  IF kind = "tft" THEN setBrightness(t, pct) ELSE [t EXCEPT !.bright = pct]
lightUp(s) == IF s.lit THEN s ELSE applyBacklight([s EXCEPT !.lit = TRUE])

\* Putting the panel to sleep and getting it back.
blankTft(s, on) ==
  IF s.blanked = on /\ s.lit # on THEN s
  ELSE IF on THEN [s EXCEPT !.blanked = TRUE, !.lit = FALSE, !.light = 0]
       ELSE applyBacklight([s EXCEPT !.blanked = FALSE, !.lit = TRUE])
blankEink(s, on) ==
  IF on THEN [s EXCEPT !.asleep = TRUE, !.ready = FALSE]
  ELSE IF s.asleep THEN [s EXCEPT !.asleep = FALSE, !.resume = TRUE] ELSE s
blankPanel(s, on) ==
  CASE kind = "tft"  -> blankTft(s, on)
    [] kind = "eink" -> blankEink(s, on)
    [] kind = "oled" -> s
blanks == kind # "eink"

\* A frame goes to the glass.  The controller of an e-paper, which a deep
\* sleep empties, shows noise unless its mode was loaded again, and a fast
\* update shows the difference from a picture it must still hold.
beforeUpdate(s, full) ==
  LET resuming == s.resume \/ s.asleep
  IN  [reload |-> resuming, full |-> full \/ resuming,
       after |-> [s EXCEPT !.asleep = FALSE, !.resume = FALSE]]
flushEink(s, full, frame) ==
  LET pre  == beforeUpdate(s, full)
      want == IF pre.full THEN 0 ELSE 1
      mode == IF pre.reload THEN -1 ELSE s.mode
      ready == IF want # mode THEN pre.full \/ s.ready ELSE s.ready
  IN  [pre.after EXCEPT !.mode = want, !.ready = ready,
         !.fasts = IF pre.full THEN 0 ELSE @ + 1,
         !.glass = IF ready THEN frame ELSE [page |-> "noise", value |-> 0]]
flush(s, full, frame) ==
  CASE kind = "eink" -> flushEink(s, full, frame)
    [] kind = "tft"  -> lightUp([s EXCEPT !.glass = frame])
    [] kind = "oled" -> [s EXCEPT !.glass = frame]

-----------------------------------------------------------------------------
\* The pages: drawn at the cadence of the page, shown if the rule says so.
cadence(page) == IF kind # "eink" \/ page # "status" THEN TurnedEvery ELSE RestEvery
NoFrame == [page |-> "none", value |-> 0]

\* Mutant: a press waits for the cadence like anything else.
DecideUnurged(s, frame) ==
  LET unknown == s.frame = NoFrame
  IN  IF frame = s.frame \/ (~unknown /\ s.showAge < s.every) THEN "skip"
      ELSE IF unknown \/ s.sinceFull >= FullEvery THEN "full" ELSE "partial"

decide(s, frame) ==
  LET unknown == s.frame = NoFrame
      changed == frame # s.frame
      fullDue == kind = "eink" /\ (unknown \/ s.sinceFull >= FullEvery)
  IN  CASE ~changed /\ ~fullDue -> "skip"
        [] (changed \/ fullDue) /\ ~unknown /\ ~s.urgent /\ s.showAge < s.every -> "skip"
        [] OTHER -> IF fullDue THEN "full" ELSE "partial"

decided(s, frame, action) ==
  LET t == [s EXCEPT !.urgent = FALSE]
  IN  IF action = "skip" THEN t
      ELSE [t EXCEPT !.frame = frame, !.showAge = 0,
              !.sinceFull = IF action = "full" THEN 0 ELSE IF kind = "eink" THEN @ + 1 ELSE 0]
paint(s) ==
  LET frame  == FrameOf(s.page)
      action == decide(s, frame)
      t      == decided(s, frame, action)
  IN  IF s.blank THEN s
      ELSE IF action = "skip" THEN t ELSE flush(t, action = "full", frame)

setBlank(s, on) ==
  LET t == blankPanel(applyBrightness([s EXCEPT !.blank = on]), on)
  IN  IF on \/ shell THEN t
      ELSE paint([t EXCEPT !.frame = NoFrame, !.pageAge = 0, !.paintAge = 0, !.due = FALSE])

advancePage(s, dir) ==
  IF s.blank THEN setBlank(s, FALSE)
  ELSE IF shell THEN [s EXCEPT !.idle = FALSE]
  ELSE LET page == stepPage(s.page, dir)
       IN  paint([s EXCEPT !.page = page, !.pageAge = 0, !.every = cadence(page),
                    !.urgent = TRUE, !.paintAge = 0, !.due = FALSE])
longPressAction(s) ==
  IF shell /\ ~s.blank THEN [s EXCEPT !.idle = FALSE] ELSE setBlank(s, ~s.blank)

\* One press grammar for every input.
update(b, down) ==
  IF down
  THEN CASE b.held = -1 -> [b |-> [held |-> 0, long |-> FALSE, up |-> 0], event |-> "press"]
         [] b.held >= Long /\ ~b.long -> [b |-> [b EXCEPT !.long = TRUE, !.up = 0], event |-> "long"]
         [] OTHER -> [b |-> [b EXCEPT !.up = 0], event |-> "none"]
  ELSE CASE b.held = -1 -> [b |-> b, event |-> "none"]
         [] b.held # -1 /\ b.up = 0 -> [b |-> [b EXCEPT !.up = 1], event |-> "none"]
         [] OTHER -> [b |-> [held |-> -1, long |-> FALSE, up |-> 0],
                      event |-> IF b.long THEN "none" ELSE "short"]
pollButton(s, down) ==
  LET u == update(s.btn, down)
      t == [s EXCEPT !.btn = u.b]
  IN  CASE u.event = "press" -> [t EXCEPT !.quiet = 0]
        [] u.event = "long"  -> longPressAction(t)
        [] u.event = "short" -> advancePage(t, 1)
        [] u.event = "none"  -> t
\* The other button and the glass speak the same grammar: what they say.
pollButton2(s, event) ==
  CASE event = "press" -> [s EXCEPT !.quiet = 0]
    [] event = "short" -> advancePage(s, -1)
    [] event = "long"  -> IF kind = "tft" THEN longPressAction(s) ELSE s
    [] event = "none"  -> s
pollTouch(s, event) ==
  CASE event = "press" -> [s EXCEPT !.quiet = 0]
    [] event = "short" -> advancePage(s, 1)
    [] event = "long"  -> setBlank(s, ~s.blank)
    [] event = "none"  -> s

-----------------------------------------------------------------------------
\* The shell's rest: idle after Sleep, dark after four; what wakes it.
restTick(s, touched) ==
  LET claimed == notice \/ busy
      t == [s EXCEPT !.quiet = IF touched \/ claimed THEN 0 ELSE @,
                     !.idle = IF claimed THEN FALSE ELSE @,
                     !.installing = busy, !.claimed = claimed]
  IN  CASE claimed -> IF t.blank THEN setBlank(t, FALSE) ELSE t
        [] ~claimed /\ t.blank -> t
        [] ~claimed /\ ~t.blank /\ t.quiet > 4 * Sleep -> setBlank([t EXCEPT !.idle = FALSE], TRUE)
        [] OTHER -> [t EXCEPT !.idle = t.quiet > Sleep]

\* An order from the power menu comes after; a dark glass looks for a key or
\* a finger, a lit one draws.
shellRest(s, touched, off, woken) ==
  LET t == restTick(s, touched)
      u == IF off THEN setBlank([t EXCEPT !.ordered = TRUE], TRUE) ELSE t
  IN  IF ~u.blank THEN lightUp(u)
      ELSE IF woken THEN setBlank([u EXCEPT !.quiet = 0], FALSE) ELSE u
pageRest(s) ==
  LET t == IF blanks /\ ~s.blank /\ s.quiet > Sleep THEN setBlank(s, TRUE) ELSE s
      back == t.page # "status" /\ t.pageAge > PageTimeout
      u == IF back THEN [t EXCEPT !.page = "status", !.pageAge = 0, !.every = cadence("status"),
                                  !.urgent = TRUE, !.due = TRUE]
           ELSE t
  IN  IF ~u.blank /\ (u.due \/ u.paintAge >= cadence(u.page))
      THEN paint([u EXCEPT !.paintAge = 0, !.due = FALSE]) ELSE u

Aged(s) ==
  [s EXCEPT !.quiet = Older(@), !.pageAge = Older(@), !.paintAge = Older(@),
            !.showAge = Older(@), !.ordered = FALSE, !.claimed = FALSE,
            !.btn.held = IF @ = -1 \/ @ >= Long THEN @ ELSE @ + 1]

\* displayTask's pass: the button is down or not; another input speaks, or
\* none does.  The power menu says off to a tap.
displayTask ==
  \E down \in BOOLEAN, other \in {"none", "press", "short", "long"},
     touch, off, woken \in BOOLEAN :
    /\ off => shell /\ touch
    /\ woken => shell
    /\ LET s == pollButton(Aged(d), down)
           t == IF touch /\ ~shell THEN pollTouch(s, other) ELSE pollButton2(s, other)
           u == applyBrightness(t)
       IN  d' = IF shell THEN shellRest(u, touch, off, woken) ELSE pageRest(u)
    /\ unseen' = IF shell \/ d'.blank \/ d'.glass = FrameOf(d'.page) THEN 0 ELSE Older(unseen)
    /\ notice' = (notice /\ ~shell)
    /\ UNCHANGED <<kind, shell, context, watched, value, busy>>

\* The rest of the node: what it tells, an update that comes and ends, a message.
Changes == value' = 1 - value /\ UNCHANGED <<kind, shell, context, watched, busy, notice, d, unseen>>
Updates == busy' = ~busy /\ shell /\ UNCHANGED <<kind, shell, context, watched, value, notice, d, unseen>>
Arrives == ~notice /\ shell /\ notice' = TRUE /\ UNCHANGED <<kind, shell, context, watched, value, busy, d, unseen>>

\* Small panels are OLEDs.  Display::begin: a first frame that is no page, and the task's first pass to come.
Booting == [page |-> "booting", value |-> 0]
Init ==
  /\ kind \in Kinds /\ shell \in BOOLEAN /\ (shell => kind = "tft")
  /\ context \in Contexts /\ watched \in Watched /\ ("compact" \in context => kind = "oled")
  /\ value = 0 /\ busy = FALSE /\ notice = FALSE /\ unseen = 0
  /\ d = [page |-> "status", pageAge |-> 0, quiet |-> 0, blank |-> FALSE, idle |-> FALSE,
          due |-> TRUE, paintAge |-> 0, frame |-> NoFrame, every |-> cadence("status"),
          showAge |-> 0, sinceFull |-> 0, urgent |-> FALSE, told |-> -1, bright |-> 100,
          lit |-> kind # "tft" \/ ~shell, blanked |-> FALSE, light |-> IF shell THEN 0 ELSE 16,
          asleep |-> FALSE, resume |-> FALSE, mode |-> 0, ready |-> TRUE, fasts |-> 0,
          glass |-> Booting, installing |-> FALSE, claimed |-> FALSE, ordered |-> FALSE,
          btn |-> [held |-> -1, long |-> FALSE, up |-> 0]]
Next == displayTask \/ Changes \/ Updates \/ Arrives
Spec == Init /\ [][Next]_vars

-----------------------------------------------------------------------------
\* What a lit glass says is the page that was turned to, and what that page
\* tells is never older than the page's cadence, whatever was pressed, slept
\* through or skipped as unchanged (Display.cpp:282, RefreshPolicy.h:72).
GlassInTime ==
  ~shell /\ ~d.blank /\ d.glass # Booting =>
    d.glass.page = d.page /\ unseen < cadence(d.page)

\* An e-paper that slept is loaded and drawn whole before anything is shown
\* on it, and is cleaned by a whole drawing in time (EinkSleep.h:106).
EinkSound == kind = "eink" => d.glass.page # "noise" /\ d.fasts <= FullEvery

\* The backlight is out exactly while the glass is blank, also on the pass in
\* which it went out or came back (Display.cpp:480, TftPanel.cpp:405).
LightFollows == kind = "tft" => (d.light > 0 <=> d.lit /\ ~d.blank) /\ (d.blank => ~d.idle)

\* A message or an update in progress is on a lit, unrested glass at the end
\* of the pass that found it, unless that pass was told to go dark.
ClaimSeen == shell /\ d.claimed => (~d.blank \/ d.ordered) /\ ~d.idle

PanelHonest == GlassInTime /\ EinkSound /\ LightFollows /\ ClaimSeen
=============================================================================
