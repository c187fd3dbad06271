----------------------------- MODULE PppArbiter -----------------------------
(***************************************************************************)
(* Who owns the bridge UART, byte by byte (src/src/net/PppArbiter.h).       *)
(* While the console owns it a flag and what follows are held back until it *)
(* is clear whether an LCP Configure-Request is starting; anything else is  *)
(* released to the console as it was.  Time is in PppPort.tla, which feeds  *)
(* the arbiter: a quiet port and a silent host are its actions.             *)
(***************************************************************************)
EXTENDS Integers, Sequences

CONSTANTS
  Bytes,         \* the bytes that may arrive
  HoldMax,       \* kHoldMax: the most held back
  Requests       \* how a session opens, unescaped: Configure-Request's first bytes

FLAG == 126
ESC  == 125
Unmasked(b) == IF (b \div 32) % 2 = 0 THEN b + 32 ELSE b - 32     \* b ^ 0x20

VARIABLES
  owner,         \* _owner
  allow,         \* _allow
  held,          \* _held; <<>> stands for not _holding
  decoded, esc,  \* _decoded, _esc
  routed         \* the last answer: [sink, bytes]

arbiter == <<owner, allow, held, decoded, esc, routed>>

PrefixOf(d, s) == Len(d) <= Len(s) /\ d = SubSeq(s, 1, Len(d))
PrefixOk(d) == \E s \in Requests: PrefixOf(d, s)
Complete(d) == d \in Requests

NotHolding == held' = <<>> /\ decoded' = <<>> /\ esc' = FALSE
Nothing == [sink |-> "hold", bytes |-> <<>>]
Route(sink, bytes) == routed' = [sink |-> sink, bytes |-> bytes]

\* hold(), unless that fills the buffer; release().
Release(h) == Route("console", h) /\ NotHolding /\ UNCHANGED <<owner, allow>>
Hold(h, d, e) ==
  IF Len(h) < HoldMax
  THEN /\ Route("hold", <<>>)
       /\ held' = h /\ decoded' = d /\ esc' = e
       /\ UNCHANGED <<owner, allow>>
  ELSE Release(h)

\* feed(), for a byte while nothing is held: a flag starts a candidate.
FirstByte(c) ==
  IF c = FLAG /\ allow
  THEN Hold(<<c>>, <<>>, FALSE)
  ELSE Release(<<c>>)

\* A flag: another one before the frame, or the candidate was something else.
HeldFlag(h) == IF decoded = <<>> /\ ~esc THEN Hold(h, <<>>, FALSE) ELSE Release(h)

\* Mutant: an escaped escape is held as another escape.
HeldEscapeTwice(h) == Hold(h, decoded, ~esc)

HeldEscape(h) == IF esc THEN Release(h) ELSE Hold(h, decoded, TRUE)

TakeOver(h) ==
  /\ owner' = "ppp"
  /\ Route("ppp", h)
  /\ NotHolding
  /\ UNCHANGED allow

HeldByte(h, c) ==
  LET d == Append(decoded, IF esc THEN Unmasked(c) ELSE c)
  IN  IF ~PrefixOk(d) THEN Release(h)
      ELSE IF ~Complete(d) THEN Hold(h, d, FALSE)
      ELSE IF allow THEN TakeOver(h) ELSE Release(h)

NextByte(c) ==
  LET h == Append(held, c)
  IN  \/ c = FLAG /\ HeldFlag(h)
      \/ c = ESC /\ HeldEscape(h)
      \/ c \notin {FLAG, ESC} /\ HeldByte(h, c)

Feed(c) ==
  /\ owner = "console"
  /\ IF held = <<>> THEN FirstByte(c) ELSE NextByte(c)

\* idle(), when the port has been quiet for kHoldIdleMs.
Quiet == owner = "console" /\ held # <<>> /\ Release(held)

\* pppDown()
Down == IF owner = "ppp" THEN owner' = "console" /\ NotHolding
                         ELSE UNCHANGED <<owner, held, decoded, esc>>

ArbiterInit ==
  /\ owner = "console" /\ allow = FALSE
  /\ held = <<>> /\ decoded = <<>> /\ esc = FALSE
  /\ routed = Nothing

\* Alone, with a caller that allows PPP and forbids it as it likes.
ArbiterNext ==
  \/ \E c \in Bytes: Feed(c)
  \/ Quiet
  \/ allow' = ~allow /\ UNCHANGED <<owner, held, decoded, esc, routed>>
  \/ owner = "ppp" /\ Down /\ UNCHANGED <<allow, routed>>

ArbiterSpec == ArbiterInit /\ [][ArbiterNext]_arbiter

-----------------------------------------------------------------------------
\* The reference: what a run of held bytes says once its flags are left out
\* and its escapes undone.

Unescaped(h) ==
  LET d[i \in 0..Len(h)] ==
        IF i = 0 THEN <<>>
        ELSE IF h[i] \in {FLAG, ESC} THEN d[i - 1]
        ELSE Append(d[i - 1], IF i > 1 /\ h[i - 1] = ESC THEN Unmasked(h[i]) ELSE h[i])
  IN  d[Len(h)]

\* A Configure-Request is what opens a session: flags, then one of its two forms.
OpensSession(h) ==
  /\ Head(h) = FLAG
  /\ Unescaped(h) \in Requests

\* Every byte goes to the console once and in order, unless it opens a
\* session: what is let go and what is still held are what was held and the
\* new byte.  A session is opened by a Configure-Request and by nothing else.
NothingTypedIsLost ==
  [][\A c \in Bytes: Feed(c) =>
       LET run == Append(held, c)
       IN  /\ routed'.bytes \o held' = run
           /\ owner' = "ppp" <=> allow /\ Len(held) > 0 /\ OpensSession(run)
           /\ routed'.sink = "ppp" <=> owner' = "ppp"]_arbiter
=============================================================================
