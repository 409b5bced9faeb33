--------------------------- MODULE OrbiterProofs ---------------------------
(***************************************************************************)
(* Proofs about the orbiter's applications, for every width of their       *)
(* counters and every traffic.                                             *)
(*                                                                         *)
(* orbiter_comm: the idle counter and the silence are two clocks; the      *)
(* inductive invariant is that they agree as long as the link is up, and   *)
(* that both are past the time-out once it has gone down.                  *)
(*                                                                         *)
(* The gateways: silence is how many rounds at the end of recent were      *)
(* without housekeeping and without an alarm, and an assembly in progress  *)
(* began with a first frame.                                               *)
(*                                                                         *)
(* The bus: a rover command is in the pipe of the bridge or with Space     *)
(* ROS, never both and never twice, and only once the uplink brought it.   *)
(***************************************************************************)
EXTENDS FlightBus, McuGateway, BasicLemmas

LinkInv ==
  /\ link \in {"LOS", "AOS"} /\ idle \in 0..MaxIdle
  /\ quiet \in -1..LosTimeout
  /\ quiet = -1 => link = "LOS"
  /\ quiet \in 0..(LosTimeout - 1) => link = "AOS" /\ idle = quiet
  /\ quiet = LosTimeout => link = "LOS" /\ idle >= LosTimeout

CountersOK ==
  /\ rate \in [0..3 -> 0..MaxRate]
  /\ count \in [cmd : 0..(CountMod - 1), err : 0..(CountMod - 1)]
-----------------------------------------------------------------------------
LEMMA LinkInit == Init => LinkInv
BY CommAssumption DEF Init, LinkInv

\* Every turn keeps the two clocks together, whatever message it takes.
LEMMA LinkTurn == ASSUME LinkInv, NEW m, Process(m) PROVE LinkInv'
<1> USE CommAssumption DEF LinkInv
<1>1. ASSUME GroundCommand(m)
      PROVE  LinkInv'
  BY <1>1 DEF GroundCommand
<1>2. ASSUME SendHk(m)
      PROVE  LinkInv'
  <2>1. idle' = (IF idle < MaxIdle THEN idle + 1 ELSE idle)
    BY <1>2 DEF SendHk, IdleAfter
  <2>2. link' = (IF idle' >= LosTimeout THEN "LOS" ELSE link)
    BY <1>2 DEF SendHk, LosDue
  <2>3. quiet' = (IF quiet \in 0..(LosTimeout - 1) THEN quiet + 1 ELSE quiet)
    BY <1>2 DEF SendHk
  <2>4. CASE quiet = -1
    BY <2>1, <2>2, <2>3, <2>4
  <2>5. CASE quiet \in 0..(LosTimeout - 1)
    BY <2>1, <2>2, <2>3, <2>5
  <2>6. CASE quiet = LosTimeout
    BY <2>1, <2>2, <2>3, <2>6
  <2>7. QED
    BY <2>4, <2>5, <2>6
<1>3. ASSUME Forward(m) \/ UnknownMid(m)
      PROVE  LinkInv'
  BY <1>3 DEF Forward, UnknownMid
<1>4. QED
  BY <1>1, <1>2, <1>3 DEF Process

LEMMA LinkStill == LinkInv /\ UNCHANGED cvars => LinkInv'
BY DEF LinkInv, cvars

LEMMA LinkStep == LinkInv /\ [Next]_cvars => LinkInv'
BY LinkTurn, LinkStill DEF Next

\* The counters wrap and the rates stay within what the command checks.
LEMMA CountersStep == CountersOK /\ [Next]_cvars => CountersOK'
<1> SUFFICES ASSUME CountersOK, [Next]_cvars
             PROVE  CountersOK'
  OBVIOUS
<1> USE CommAssumption DEF CountersOK
<1>1. ASSUME NEW c \in {"cmd", "err"}
      PROVE  Counted(c) \in [cmd : 0..(CountMod - 1), err : 0..(CountMod - 1)]
  <2>1. (count[c] + 1) % CountMod \in 0..(CountMod - 1)
    BY <1>1
  <2>2. QED
    BY <1>1, <2>1 DEF Counted
<1>2. [cmd |-> 0, err |-> 0] \in [cmd : 0..(CountMod - 1), err : 0..(CountMod - 1)]
  OBVIOUS
<1>3. ASSUME NEW m \in Messages, GroundCommand(m)
      PROVE  CountersOK'
  <2>1. count' \in [cmd : 0..(CountMod - 1), err : 0..(CountMod - 1)]
    BY <1>1, <1>2, <1>3 DEF GroundCommand
  <2>2. CASE UNCHANGED rate
    BY <2>1, <2>2
  <2>3. CASE m.cc = "rate" /\ RateAccepted(m) /\ rate' = [rate EXCEPT ![m.vc] = m.kbps]
    <3>1. m.vc \in 0..3 /\ m.kbps \in 0..MaxRate
      BY SMTT(30), <1>3, <2>3, RateCommandAssumption DEF GroundCommand, RateAccepted
    <3>2. QED
      BY <2>1, <2>3, <3>1
  <2>4. QED
    BY <1>3, <2>2, <2>3 DEF GroundCommand
<1>4. ASSUME NEW m \in Messages, SendHk(m) \/ Forward(m)
      PROVE  CountersOK'
  BY <1>4 DEF SendHk, Forward
<1>5. ASSUME NEW m \in Messages, UnknownMid(m)
      PROVE  CountersOK'
  BY <1>1, <1>5 DEF UnknownMid
<1>6. CASE UNCHANGED cvars
  BY <1>6 DEF cvars
<1>7. QED
  BY <1>3, <1>4, <1>5, <1>6 DEF Next, Process

\* What a turn sends to the ground it sends with the link up at its end.
LEMMA SilentStep ==
  LinkInv /\ LinkInv' /\ [Next]_cvars
    => [air' # <<>> => quiet' \in 0..(LosTimeout - 1)]_cvars
<1> SUFFICES ASSUME LinkInv, LinkInv', NEW m \in Messages, Process(m), air' # <<>>
             PROVE  quiet' \in 0..(LosTimeout - 1)
  BY DEF Next
<1>1. link' = "AOS"
  BY DEF Process, GroundCommand, SendHk, Forward, UnknownMid
<1>2. QED
  BY <1>1, CommAssumption DEF LinkInv
-----------------------------------------------------------------------------
\* The types of every variable, for any bus traffic.
THEOREM CommTypeCorrect == Spec => []TypeOK
<1>1. Init => CountersOK
  BY CommAssumption DEF Init, CountersOK
<1>2. LinkInv /\ CountersOK => TypeOK
  BY DEF LinkInv, CountersOK, TypeOK
<1>3. QED
  BY <1>1, <1>2, LinkInit, LinkStep, CountersStep, PTL DEF Spec

\* The link is up exactly while a command came within the last LosTimeout
\* housekeeping cycles (orbiter_comm.c:283-291, 410-423), for any time-out.
THEOREM LinkAlwaysMeansHeard == Spec => []LinkMeansHeard
<1>1. LinkInv => LinkMeansHeard
  BY CommAssumption DEF LinkInv, LinkMeansHeard
<1>2. QED
  BY <1>1, LinkInit, LinkStep, PTL DEF Spec

\* No turn that ends in silence has sent anything to the ground.
THEOREM AlwaysSilentWhenDown == Spec => SilentWhenDown
<1>1. QED
  BY LinkInit, LinkStep, SilentStep, PTL DEF Spec, SilentWhenDown
-----------------------------------------------------------------------------
(* The gateways                                                              *)

RoundSeen == [hk : BOOLEAN, alarm : BOOLEAN]
Quiet(x) == ~x.hk /\ ~x.alarm

SilenceInv ==
  /\ recent \in Seq(RoundSeen) /\ Len(recent) <= SilenceCycles
  /\ silence \in 0..(SilenceCycles - 1) /\ silence <= Len(recent)
  /\ \A i \in 1..Len(recent) : i > Len(recent) - silence => Quiet(recent[i])
  /\ silence < Len(recent) => ~Quiet(recent[Len(recent) - silence])
  /\ Len(recent) > 0 /\ recent[Len(recent)].alarm =>
       Len(recent) = SilenceCycles /\ \A i \in 1..SilenceCycles : ~recent[i].hk

AssemblyInv ==
  /\ assembling => opener = "first"
  /\ FragmentsFollowFirst

\* The rounds kept: the new one at the end, and at most the first one gone.
LEMMA SeenIs ==
  ASSUME recent \in Seq(RoundSeen), Len(recent) <= SilenceCycles,
         NEW hk \in BOOLEAN, NEW alarm \in BOOLEAN
  PROVE  LET w == Seen(hk, alarm)
             d == IF Len(recent) = SilenceCycles THEN 1 ELSE 0
         IN  /\ w \in Seq(RoundSeen) /\ Len(w) = Len(recent) + 1 - d
             /\ w[Len(w)] = [hk |-> hk, alarm |-> alarm]
             /\ \A i \in 1..(Len(w) - 1) : w[i] = recent[i + d]
<1>0. SilenceCycles \in Nat \ {0}
  BY GatewayAssumption
<1> USE <1>0
<1> DEFINE x == [hk |-> hk, alarm |-> alarm]
           q == recent
           r == Append(q, x)
<1>1. x \in RoundSeen
  BY DEF RoundSeen
<1> HIDE DEF x
<1>2. q \in Seq(RoundSeen) /\ Len(q) \in Nat /\ Len(q) <= SilenceCycles
  BY LenProperties
<1> HIDE DEF q
<1>3. /\ r \in Seq(RoundSeen) /\ Len(r) = Len(q) + 1 /\ r[Len(q) + 1] = x
      /\ \A i \in 1..Len(q) : r[i] = q[i]
  BY <1>1, <1>2, AppendProperties
<1> HIDE DEF r
<1>4. CASE Len(q) = SilenceCycles
  <2>1. Seen(hk, alarm) = Tail(r)
    BY <1>3, <1>4 DEF Seen, q, r, x
  <2>2. /\ Tail(r) \in Seq(RoundSeen) /\ Len(Tail(r)) = Len(q)
        /\ \A i \in 1..Len(q) : Tail(r)[i] = r[i + 1]
    BY <1>2, <1>3
  <2>3. QED
    BY <1>2, <1>3, <1>4, <2>1, <2>2 DEF q, x
<1>5. CASE Len(q) # SilenceCycles
  <2>1. Seen(hk, alarm) = r
    BY <1>2, <1>3, <1>5 DEF Seen, q, r, x
  <2>2. QED
    BY <1>2, <1>3, <1>5, <2>1 DEF q, x
<1>6. QED
  BY <1>4, <1>5

\* A round that published, or one that counted on.
LEMMA PublishedStep ==
  ASSUME SilenceInv, EndSilence
  PROVE  SilenceInv'
<1>0. SilenceCycles \in Nat \ {0}
  BY GatewayAssumption
<1> USE <1>0
<1> DEFINE n == Len(recent)
           d == IF n = SilenceCycles THEN 1 ELSE 0
           w == recent'
<1>1. recent \in Seq(RoundSeen) /\ n \in Nat /\ n <= SilenceCycles
  BY LenProperties DEF SilenceInv
<1>2. /\ w \in Seq(RoundSeen) /\ Len(w) = n + 1 - d
      /\ w[Len(w)] = [hk |-> TRUE, alarm |-> FALSE] /\ silence' = 0
  BY <1>1, SeenIs DEF EndSilence
<1> HIDE DEF w
<1>3. Len(w) \in 1..SilenceCycles
  BY <1>1, <1>2
<1>4. w[Len(w)].hk /\ ~w[Len(w)].alarm
  BY <1>2
<1>5. ~Quiet(w[Len(w)])
  BY <1>4 DEF Quiet
<1> HIDE DEF n, d
<1>6. QED
  BY <1>2, <1>3, <1>4, <1>5 DEF SilenceInv, w

LEMMA CountedRound ==
  ASSUME SilenceInv, CountSilence
  PROVE  ~recent'[Len(recent')].hk
<1> DEFINE due == silence + 1 >= SilenceCycles
           w == recent'
<1>1. due \in BOOLEAN /\ w = Seen(FALSE, due)
  BY DEF CountSilence
<1>2. w[Len(w)] = [hk |-> FALSE, alarm |-> due]
  BY <1>1, SeenIs DEF SilenceInv
<1> HIDE DEF w, due
<1>3. ~w[Len(w)].hk
  BY <1>2
<1>4. QED
  BY <1>3 DEF w

LEMMA UnpublishedStep ==
  ASSUME SilenceInv, CountSilence
  PROVE  SilenceInv'
<1>0. SilenceCycles \in Nat \ {0}
  BY GatewayAssumption
<1> USE <1>0
<1> DEFINE n == Len(recent)
           d == IF n = SilenceCycles THEN 1 ELSE 0
           due == silence + 1 >= SilenceCycles
           w == recent'
           s == silence
<1>1. recent \in Seq(RoundSeen) /\ n \in Nat /\ n <= SilenceCycles /\ due \in BOOLEAN
  BY LenProperties DEF SilenceInv
<1>2. /\ w = Seen(FALSE, due)
      /\ silence' = IF due THEN 0 ELSE s + 1
  BY DEF CountSilence
<1>3. /\ w \in Seq(RoundSeen) /\ Len(w) = n + 1 - d
      /\ w[Len(w)] = [hk |-> FALSE, alarm |-> due]
      /\ \A i \in 1..(Len(w) - 1) : w[i] = recent[i + d]
  BY <1>1, <1>2, SeenIs
<1> HIDE DEF w
<1>4. ~w[Len(w)].hk /\ (w[Len(w)].alarm <=> due)
  <2> HIDE DEF due
  <2>1. QED
    BY <1>3
<1>5. /\ s \in 0..(SilenceCycles - 1) /\ s <= n
      /\ \A i \in 1..n : i > n - s => Quiet(recent[i])
      /\ s < n => ~Quiet(recent[n - s])
  BY DEF SilenceInv
<1>6. CASE due
  <2>1. s = SilenceCycles - 1 /\ Len(w) = SilenceCycles
    BY <1>1, <1>3, <1>5, <1>6
  <2>2. ASSUME NEW i \in 1..(SilenceCycles - 1)
        PROVE  ~w[i].hk
    <3>1. w[i] = recent[i + d] /\ i + d \in 1..n /\ i + d > n - s
      BY <1>1, <1>3, <1>5, <2>1
    <3>2. QED
      BY <1>5, <3>1 DEF Quiet
  <2>3. ~Quiet(w[Len(w)])
    BY <1>4, <1>6 DEF Quiet
  <2>4. \A i \in 1..SilenceCycles : ~w[i].hk
    BY <1>4, <2>1, <2>2
  <2>5. silence' = 0
    BY <1>2, <1>6
  <2> HIDE DEF due, d
  <2>6. QED
    BY <1>3, <2>1, <2>3, <2>4, <2>5 DEF SilenceInv, w
<1>7. CASE ~due
  <2>1. silence' = s + 1 /\ s + 1 \in 0..(SilenceCycles - 1)
    BY <1>2, <1>5, <1>7
  <2>2. Quiet(w[Len(w)]) /\ ~w[Len(w)].alarm
    BY <1>4, <1>7 DEF Quiet
  <2>3. Len(w) \in 1..SilenceCycles /\ s + 1 <= Len(w)
    BY <1>1, <1>3, <1>5, <2>1
  <2>4. ASSUME NEW i \in 1..Len(w), i > Len(w) - (s + 1)
        PROVE  Quiet(w[i])
    <3>1. CASE i = Len(w)
      BY <2>2, <3>1
    <3>2. CASE i # Len(w)
      <4>1. w[i] = recent[i + d] /\ i + d \in 1..n /\ i + d > n - s
        BY <1>1, <1>3, <1>5, <2>1, <2>4, <3>2
      <4>2. QED
        BY <1>5, <4>1
    <3>3. QED
      BY <3>1, <3>2
  <2>5. ASSUME s + 1 < Len(w)
        PROVE  ~Quiet(w[Len(w) - (s + 1)])
    <3> DEFINE k == Len(w) - (s + 1)
    <3>1. k \in 1..(Len(w) - 1) /\ k + d = n - s /\ s < n
      BY <1>1, <1>3, <1>5, <2>1, <2>5
    <3> HIDE DEF k
    <3>2. w[k] = recent[n - s]
      BY <1>3, <3>1
    <3>3. QED
      BY <1>5, <3>1, <3>2 DEF k
  <2> HIDE DEF due, d
  <2>6. QED
    BY <1>3, <2>1, <2>2, <2>3, <2>4, <2>5 DEF SilenceInv, w
<1>8. QED
  BY <1>6, <1>7

LEMMA GatewayStart == GatewayInit => SilenceInv /\ AssemblyInv
<1> SUFFICES ASSUME GatewayInit
             PROVE  SilenceInv /\ AssemblyInv
  OBVIOUS
<1>1. recent = <<>> /\ Len(recent) = 0 /\ recent \in Seq(RoundSeen)
  BY DEF GatewayInit
<1>2. silence = 0 /\ given = <<>> /\ ~assembling
  BY DEF GatewayInit
<1>3. QED
  BY <1>1, <1>2, GatewayAssumption DEF SilenceInv, AssemblyInv, FragmentsFollowFirst

LEMMA SilenceStep == SilenceInv /\ [Round]_gvars => SilenceInv'
<1> SUFFICES ASSUME SilenceInv, [Round]_gvars
             PROVE  SilenceInv'
  OBVIOUS
<1>1. CASE Round
  BY <1>1, PublishedStep, UnpublishedStep DEF Round, ValidFrame, CorruptFrame, NoFrame
<1>2. CASE UNCHANGED gvars
  BY <1>2 DEF gvars, SilenceInv
<1>3. QED
  BY <1>1, <1>2

\* A frame accepted as a continuation finds an assembly that a first frame
\* began; one that is dropped has published nothing.
LEMMA AssemblyStep == SilenceInv /\ AssemblyInv /\ [Round]_gvars => AssemblyInv'
<1> SUFFICES ASSUME SilenceInv, AssemblyInv, [Round]_gvars
             PROVE  AssemblyInv'
  OBVIOUS
<1>1. ASSUME NEW c, NEW f, ValidFrame(c, f), given' = f, UNCHANGED bus
      PROVE  AssemblyInv'
  <2>1. CASE bus = "can"
    <3>1. ValidCan(f)
      BY <1>1, <2>1 DEF ValidFrame, Accepted
    <3>2. f[1] = "consecutive" => opener = "first" /\ opener' = opener
      BY <1>1, <2>1, <3>1 DEF ValidFrame, ValidCan, AssemblyInv
    <3>3. f[1] = "first" => opener' = "first"
      BY <1>1, <2>1 DEF ValidFrame
    <3>4. assembling' => f[1] \in {"first", "consecutive"}
      BY <1>1 DEF ValidFrame
    <3>5. QED
      BY <1>1, <3>2, <3>3, <3>4 DEF AssemblyInv, FragmentsFollowFirst
  <2>2. CASE bus # "can"
    BY <1>1, <2>2 DEF ValidFrame, AssemblyInv, FragmentsFollowFirst
  <2>3. QED
    BY <2>1, <2>2
<1>2. ASSUME NEW c, NEW f, CorruptFrame(c, f)
      PROVE  AssemblyInv'
  <2>1. ~recent'[Len(recent')].hk
    BY <1>2, CountedRound DEF CorruptFrame
  <2>2. ~assembling'
    BY <1>2 DEF CorruptFrame
  <2>3. QED
    BY <2>1, <2>2 DEF AssemblyInv, FragmentsFollowFirst
<1>3. ASSUME NEW c, NoFrame(c), UNCHANGED bus
      PROVE  AssemblyInv'
  BY <1>3 DEF NoFrame, AssemblyInv, FragmentsFollowFirst
<1>4. CASE UNCHANGED gvars
  BY <1>4 DEF gvars, AssemblyInv, FragmentsFollowFirst
<1>5. QED
  BY <1>1, <1>2, <1>3, <1>4 DEF Round

\* Of any SilenceCycles rounds in a row one published housekeeping or reported
\* silence, and a report ends as many rounds without a valid frame
\* (mcu_eps_gw.c:140-186), for every SilenceCycles and whatever the bus brings.
THEOREM AlwaysSilenceReported == GatewaySpec => []SilenceReported
<1>1. SilenceInv => SilenceReported
  <2> SUFFICES ASSUME SilenceInv, Len(recent) = SilenceCycles
               PROVE  SilenceReported
    BY DEF SilenceReported
  <2> DEFINE k == SilenceCycles - silence
  <2>1. k \in 1..SilenceCycles /\ ~Quiet(recent[k])
    BY GatewayAssumption DEF SilenceInv
  <2>2. recent[SilenceCycles].alarm => \A i \in 1..SilenceCycles : ~recent[i].hk
    BY GatewayAssumption DEF SilenceInv
  <2> HIDE DEF k
  <2>3. QED
    BY <2>1, <2>2 DEF SilenceReported, Quiet
<1>2. QED
  BY <1>1, GatewayStart, SilenceStep, PTL DEF GatewaySpec

\* A consecutive frame is accepted only after a first frame with nothing dropped
\* in between (mcu_rwa_gw.c:217-253), whatever frames the bus brings.
THEOREM AlwaysFragmentsFollowFirst == GatewaySpec => []FragmentsFollowFirst
<1>1. AssemblyInv => FragmentsFollowFirst
  BY DEF AssemblyInv
<1>2. QED
  BY <1>1, GatewayStart, SilenceStep, AssemblyStep, PTL DEF GatewaySpec
-----------------------------------------------------------------------------
(* The gateways on HDLC.  What escaping, unescaping and the CRC compute for   *)
(* one byte more follows from how their loops go on; that unescaping undoes   *)
(* escaping is then shown along the bytes of the packet.                      *)

Bytes4 == 0..3
Progress == [bytes : Seq(Bytes4), esc : BOOLEAN]
Nothing == [bytes |-> <<>>, esc |-> FALSE]

LEMMA Marks == FLAG = 3 /\ ESC = 2 /\ FLAG \in Bytes4 /\ ESC \in Bytes4
BY DEF FLAG, ESC, Bytes4

LEMMA EscXorIs ==
  /\ EscXor(0) = 2 /\ EscXor(1) = 3 /\ EscXor(2) = 0 /\ EscXor(3) = 1
  /\ \A b \in Bytes4 : EscXor(b) \in Bytes4 /\ EscXor(EscXor(b)) = b
BY DEF EscXor, Bytes4

LEMMA StepKeepsProgress ==
  ASSUME NEW u \in Progress, NEW b \in Bytes4
  PROVE  UnescapeStep(u, b) \in Progress
<1>1. u.bytes \in Seq(Bytes4) /\ u.esc \in BOOLEAN /\ EscXor(b) \in Bytes4
  BY EscXorIs DEF Progress
<1>2. Append(u.bytes, EscXor(b)) \in Seq(Bytes4) /\ Append(u.bytes, b) \in Seq(Bytes4)
  BY <1>1, AppendProperties
<1>3. CASE u.esc
  BY <1>1, <1>2, <1>3 DEF UnescapeStep, Progress
<1>4. CASE ~u.esc /\ b = ESC
  BY <1>1, <1>2, <1>4 DEF UnescapeStep, Progress
<1>5. CASE ~u.esc /\ b # ESC
  BY <1>1, <1>2, <1>5 DEF UnescapeStep, Progress
<1>6. QED
  BY <1>1, <1>3, <1>4, <1>5

\* w is how far the loop is before and after each byte.
Loops(w, s) ==
  /\ w \in [0..Len(s) -> Progress] /\ w[0] = Nothing
  /\ \A k \in 1..Len(s) : w[k] = UnescapeStep(w[k - 1], s[k])

LEMMA LoopRuns ==
  ASSUME NEW s \in Seq(Bytes4)
  PROVE  \E w : Loops(w, s) /\ Unescaped(s) = w[Len(s)]
<1> DEFINE Eq(f) == f = [k \in 0..Len(s) |-> IF k = 0 THEN [bytes |-> <<>>, esc |-> FALSE]
                                             ELSE UnescapeStep(f[k - 1], s[k])]
           n == Len(s)
           step == [k \in 1..n |-> [u \in Progress |-> UnescapeStep(u, s[k])]]
<1>1. Unescaped(s) = (CHOOSE f : Eq(f))[n]
  BY DEF Unescaped
<1>2. n \in Nat /\ Nothing \in Progress
  BY LenProperties DEF Nothing, Progress
<1>3. \A k \in 1..n : s[k] \in Bytes4
  BY ElementOfSeq
<1>4. \A k \in 1..n, u \in Progress : step[k][u] = UnescapeStep(u, s[k]) /\ step[k][u] \in Progress
  BY <1>3, StepKeepsProgress
<1>5. PICK g \in [0..n -> Progress] : Recurs(g, n, Nothing, step)
  <2>1. StaysIn(Progress, n, step)
    BY <1>4 DEF StaysIn
  <2> HIDE DEF n, step
  <2>2. QED
    BY Zenon, <1>2, <2>1, RecursionExists
<1> HIDE DEF step
<1>6. \A k \in 1..n : g[k] = UnescapeStep(g[k - 1], s[k])
  <2>1. \A k \in 1..n : k - 1 \in 0..n
    BY <1>2
  <2>2. QED
    BY <1>4, <1>5, <2>1 DEF Recurs
<1>7. Eq(g)
  <2> DEFINE e == [k \in 0..n |-> IF k = 0 THEN Nothing ELSE UnescapeStep(g[k - 1], s[k])]
  <2>1. ASSUME NEW k \in 0..n PROVE g[k] = e[k]
    BY <1>5, <1>6 DEF Recurs
  <2>2. g = e
    BY <2>1
  <2>3. QED
    BY <2>2 DEF Nothing
<1> DEFINE c == CHOOSE f : Eq(f)
<1>8. Eq(c)
  BY <1>7
<1> HIDE DEF c
<1>9. /\ DOMAIN c = 0..n /\ c[0] = Nothing
      /\ \A k \in 1..n : c[k] = UnescapeStep(c[k - 1], s[k])
      /\ c = [k \in 0..n |-> c[k]]
  <2> DEFINE e == [k \in 0..n |-> IF k = 0 THEN Nothing ELSE UnescapeStep(c[k - 1], s[k])]
  <2>1. c = e
    BY <1>8 DEF Nothing
  <2>2. /\ DOMAIN e = 0..n /\ e[0] = Nothing /\ e = [k \in 0..n |-> e[k]]
        /\ \A k \in 1..n : e[k] = UnescapeStep(c[k - 1], s[k])
    BY <1>2
  <2> HIDE DEF e
  <2>3. QED
    BY <2>1, <2>2
<1>10. \A k \in 0..n : c[k] \in Progress
  <2> DEFINE Q == {k \in 0..n : c[k] \in Progress}
  <2>1. 0 \in Q
    BY <1>2, <1>9
  <2>2. ASSUME NEW k \in 0..n, k < n, k \in Q
        PROVE  k + 1 \in Q
    <3>1. k + 1 \in 1..n /\ (k + 1) - 1 = k /\ k + 1 \in 0..n
      BY <1>2, <2>2
    <3>2. c[k + 1] = UnescapeStep(c[k], s[k + 1]) /\ s[k + 1] \in Bytes4
      BY <1>3, <1>9, <3>1
    <3>3. QED
      BY <2>2, <3>1, <3>2, StepKeepsProgress
  <2> HIDE DEF Q
  <2>3. \A k \in 0..n : k \in Q
    BY <1>2, <2>1, <2>2, UpToInduction
  <2>4. QED
    BY <2>3 DEF Q
<1>11. c \in [0..n -> Progress]
  BY <1>9, <1>10
<1>12. QED
  BY <1>1, <1>9, <1>11 DEF Loops, c

\* The loop does not depend on the bytes to come.
LEMMA LoopsAgree ==
  ASSUME NEW n \in Nat, NEW s, NEW t, Len(s) = n, Len(t) = n + 1,
         \A k \in 1..n : t[k] = s[k], NEW w, NEW x, Loops(w, s), Loops(x, t)
  PROVE  x[n] = w[n]
<1> DEFINE Q == {k \in 0..n : x[k] = w[k]}
<1>1. 0 \in Q
  BY DEF Loops
<1>2. ASSUME NEW k \in 0..n, k < n, k \in Q
      PROVE  k + 1 \in Q
  <2>1. k + 1 \in 1..n /\ k + 1 \in 1..(n + 1) /\ (k + 1) - 1 = k /\ k + 1 \in 0..n
    BY <1>2
  <2>2. x[k + 1] = UnescapeStep(x[k], t[k + 1]) /\ w[k + 1] = UnescapeStep(w[k], s[k + 1])
    BY <2>1 DEF Loops
  <2>3. QED
    BY <1>2, <2>1, <2>2
<1> HIDE DEF Q
<1>3. n \in Q
  BY <1>1, <1>2, UpToInduction
<1>4. QED
  BY <1>3 DEF Q

\* One byte more
LEMMA UnescapedNext ==
  ASSUME NEW s \in Seq(Bytes4), NEW b \in Bytes4
  PROVE  Unescaped(Append(s, b)) = UnescapeStep(Unescaped(s), b)
<1> DEFINE t == Append(s, b)
           n == Len(s)
<1>1. /\ n \in Nat /\ t \in Seq(Bytes4) /\ Len(t) = n + 1 /\ t[n + 1] = b
      /\ \A k \in 1..n : t[k] = s[k]
  BY LenProperties, AppendProperties
<1> HIDE DEF t
<1>2. PICK w : Loops(w, s) /\ Unescaped(s) = w[n]
  BY LoopRuns
<1>3. PICK x : Loops(x, t) /\ Unescaped(t) = x[Len(t)]
  BY <1>1, LoopRuns
<1> DEFINE l == n + 1
<1>4. l \in 1..Len(t) /\ l - 1 = n
  BY <1>1
<1>5. x[l] = UnescapeStep(x[l - 1], t[l])
  BY <1>3, <1>4 DEF Loops
<1>6. x[n] = w[n]
  <2>1. Len(s) = n
    OBVIOUS
  <2> HIDE DEF n
  <2>2. QED
    BY <1>1, <1>2, <1>3, <2>1, LoopsAgree
<1>7. QED
  BY <1>1, <1>2, <1>3, <1>4, <1>5, <1>6 DEF t

LEMMA UnescapedNothing == Unescaped(<<>>) = Nothing
<1>1. <<>> \in Seq(Bytes4) /\ Len(<<>>) = 0
  OBVIOUS
<1>2. PICK w : Loops(w, <<>>) /\ Unescaped(<<>>) = w[Len(<<>>)]
  BY <1>1, LoopRuns
<1>3. QED
  BY <1>1, <1>2 DEF Loops

LEMMA ModSixteen ==
  ASSUME NEW a \in Nat, NEW v \in 0..15
  PROVE  (2 * v + a) % 16 \in 0..15
OBVIOUS

\* The CRC is two bytes.
LEMMA CrcIs ==
  ASSUME NEW s \in Seq(Bytes4)
  PROVE  Crc16(s) \in Seq(Bytes4) /\ Len(Crc16(s)) = 2
<1> DEFINE Eq(f) == f = [k \in 0..Len(s) |-> IF k = 0 THEN 15
                                             ELSE (2 * f[k - 1] + s[k]) % 16]
           n == Len(s)
           step == [k \in 1..n |-> [v \in 0..15 |-> (2 * v + s[k]) % 16]]
<1>1. n \in Nat
  BY LenProperties
<1>2. \A k \in 1..n : s[k] \in Nat
  BY ElementOfSeq DEF Bytes4
<1>3. \A k \in 1..n, v \in 0..15 :
        step[k][v] = (2 * v + s[k]) % 16 /\ step[k][v] \in 0..15
  <2> HIDE DEF n
  <2>1. QED
    BY <1>2, ModSixteen
<1>4. PICK g \in [0..n -> 0..15] : Recurs(g, n, 15, step)
  <2>1. StaysIn(0..15, n, step)
    BY <1>3 DEF StaysIn
  <2>2. 15 \in 0..15
    OBVIOUS
  <2> HIDE DEF n, step
  <2>3. QED
    BY <1>1, <2>1, <2>2, RecursionExists
<1> HIDE DEF step
<1>5. \A k \in 1..n : g[k] = (2 * g[k - 1] + s[k]) % 16
  <2>1. \A k \in 1..n : k - 1 \in 0..n
    BY <1>1
  <2>2. QED
    BY <1>3, <1>4, <2>1 DEF Recurs
<1>6. Eq(g)
  <2> DEFINE e == [k \in 0..n |-> IF k = 0 THEN 15 ELSE (2 * g[k - 1] + s[k]) % 16]
  <2>1. ASSUME NEW k \in 0..n PROVE g[k] = e[k]
    BY <1>4, <1>5 DEF Recurs
  <2>2. g = e
    BY <2>1
  <2>3. QED
    BY <2>2
<1> DEFINE c == CHOOSE f : Eq(f)
<1>7. Eq(c)
  BY <1>6
<1>8. Crc16(s) = <<c[n] % 4, c[n] \div 4>>
  BY DEF Crc16
<1> HIDE DEF c
<1>9. c[0] = 15 /\ \A k \in 1..n : c[k] = (2 * c[k - 1] + s[k]) % 16
  <2> DEFINE e == [k \in 0..n |-> IF k = 0 THEN 15 ELSE (2 * c[k - 1] + s[k]) % 16]
  <2>1. c = e
    BY <1>7
  <2>2. e[0] = 15 /\ \A k \in 1..n : e[k] = (2 * c[k - 1] + s[k]) % 16
    BY <1>1
  <2> HIDE DEF e
  <2>3. QED
    BY <2>1, <2>2
<1> HIDE DEF n
<1>10. c[n] \in 0..15
  <2> DEFINE Q == {k \in 0..n : c[k] \in 0..15}
  <2>1. 0 \in Q
    BY <1>1, <1>9
  <2>2. ASSUME NEW k \in 0..n, k < n, k \in Q
        PROVE  k + 1 \in Q
    <3>1. k + 1 \in 1..n /\ (k + 1) - 1 = k /\ k + 1 \in 0..n
      BY <1>1, <2>2
    <3>2. c[k + 1] = (2 * c[k] + s[k + 1]) % 16 /\ s[k + 1] \in Nat
      BY <1>2, <1>9, <3>1
    <3>3. c[k] \in 0..15
      BY <2>2
    <3>4. c[k + 1] \in 0..15
      BY <3>2, <3>3, ModSixteen
    <3>5. QED
      BY <3>1, <3>4
  <2> HIDE DEF Q
  <2>3. \A k \in 0..n : k \in Q
    BY <1>1, <2>1, <2>2, UpToInduction
  <2>4. n \in Q
    BY <1>1, <2>3
  <2>5. QED
    BY <2>4 DEF Q
<1>11. c[n] % 4 \in Bytes4 /\ c[n] \div 4 \in Bytes4
  BY <1>10 DEF Bytes4
<1>12. QED
  BY <1>8, <1>11

LEMMA EscapedByteIs ==
  ASSUME NEW b \in Bytes4
  PROVE  EscapedByte(b) \in Seq(Bytes4) /\ Len(EscapedByte(b)) \in 1..2
<1>1. EscXor(b) \in Bytes4 /\ ESC \in Bytes4
  BY Marks, EscXorIs
<1>2. <<ESC, EscXor(b)>> \in Seq(Bytes4) /\ <<b>> \in Seq(Bytes4)
  BY <1>1
<1>3. QED
  BY <1>2 DEF EscapedByte

\* e is what the sender has sent before and after each byte.
Sends(e, s) ==
  /\ e \in [0..Len(s) -> Seq(Bytes4)] /\ e[0] = <<>>
  /\ \A k \in 1..Len(s) : e[k] = e[k - 1] \o EscapedByte(s[k])

LEMMA SenderRuns ==
  ASSUME NEW s \in Seq(Bytes4)
  PROVE  \E e : Sends(e, s) /\ Escaped(s) = e[Len(s)]
<1> DEFINE Eq(f) == f = [k \in 0..Len(s) |-> IF k = 0 THEN <<>>
                                             ELSE f[k - 1] \o EscapedByte(s[k])]
           n == Len(s)
           V == Seq(Bytes4)
           step == [k \in 1..n |-> [v \in V |-> v \o EscapedByte(s[k])]]
<1>1. Escaped(s) = (CHOOSE f : Eq(f))[n]
  BY DEF Escaped
<1>2. n \in Nat /\ <<>> \in V
  BY LenProperties
<1>3. \A k \in 1..n : EscapedByte(s[k]) \in V
  BY ElementOfSeq, EscapedByteIs
<1>4. \A v \in V, x \in V : v \o x \in V
  BY ConcatProperties
<1>5. \A k \in 1..n, v \in V :
        step[k][v] = v \o EscapedByte(s[k]) /\ step[k][v] \in V
  <2> HIDE DEF V
  <2>1. QED
    BY <1>3, <1>4
<1> HIDE DEF V
<1>6. PICK g \in [0..n -> V] : Recurs(g, n, <<>>, step)
  <2>1. StaysIn(V, n, step)
    BY <1>5 DEF StaysIn
  <2> HIDE DEF n, step
  <2>2. QED
    BY <1>2, <2>1, RecursionExists
<1> HIDE DEF step
<1>7. \A k \in 1..n : g[k] = g[k - 1] \o EscapedByte(s[k])
  <2>1. \A k \in 1..n : k - 1 \in 0..n
    BY <1>2
  <2>2. QED
    BY <1>5, <1>6, <2>1 DEF Recurs
<1>8. Eq(g)
  <2> DEFINE e == [k \in 0..n |-> IF k = 0 THEN <<>> ELSE g[k - 1] \o EscapedByte(s[k])]
  <2>1. ASSUME NEW k \in 0..n PROVE g[k] = e[k]
    BY <1>6, <1>7 DEF Recurs
  <2>2. g = e
    BY <2>1
  <2>3. QED
    BY <2>2
<1> DEFINE c == CHOOSE f : Eq(f)
<1>9. Eq(c)
  BY <1>8
<1> HIDE DEF c
<1>10. /\ DOMAIN c = 0..n /\ c[0] = <<>>
       /\ \A k \in 1..n : c[k] = c[k - 1] \o EscapedByte(s[k])
       /\ c = [k \in 0..n |-> c[k]]
  <2> DEFINE e == [k \in 0..n |-> IF k = 0 THEN <<>> ELSE c[k - 1] \o EscapedByte(s[k])]
  <2>1. c = e
    BY <1>9
  <2>2. /\ DOMAIN e = 0..n /\ e[0] = <<>> /\ e = [k \in 0..n |-> e[k]]
        /\ \A k \in 1..n : e[k] = c[k - 1] \o EscapedByte(s[k])
    BY <1>2
  <2> HIDE DEF e
  <2>3. QED
    BY <2>1, <2>2
<1>11. \A k \in 0..n : c[k] \in V
  <2> DEFINE Q == {k \in 0..n : c[k] \in V}
  <2>1. 0 \in Q
    BY <1>2, <1>10
  <2>2. ASSUME NEW k \in 0..n, k < n, k \in Q
        PROVE  k + 1 \in Q
    <3>1. k + 1 \in 1..n /\ (k + 1) - 1 = k /\ k + 1 \in 0..n
      BY <1>2, <2>2
    <3>2. c[k + 1] = c[k] \o EscapedByte(s[k + 1]) /\ EscapedByte(s[k + 1]) \in V
      BY <1>3, <1>10, <3>1
    <3>3. QED
      BY <1>4, <2>2, <3>1, <3>2
  <2> HIDE DEF Q
  <2>3. \A k \in 0..n : k \in Q
    BY <1>2, <2>1, <2>2, UpToInduction
  <2>4. QED
    BY <2>3 DEF Q
<1>12. c \in [0..n -> V]
  BY <1>10, <1>11
<1>13. QED
  BY <1>1, <1>10, <1>12 DEF Sends, c, V

\* Unescaping one escaped byte more gives back the byte.
LEMMA UnescapedByte ==
  ASSUME NEW t \in Seq(Bytes4), NEW q \in Seq(Bytes4), NEW b \in Bytes4,
         Unescaped(t) = [bytes |-> q, esc |-> FALSE]
  PROVE  Unescaped(t \o EscapedByte(b)) = [bytes |-> Append(q, b), esc |-> FALSE]
<1> DEFINE u == [bytes |-> q, esc |-> FALSE]
<1>1. CASE b \notin {FLAG, ESC}
  <2>1. EscapedByte(b) = <<b>> /\ b # ESC
    BY <1>1 DEF EscapedByte
  <2>2. t \o <<b>> = Append(t, b)
    BY AppendIsConcat
  <2>3. Unescaped(Append(t, b)) = UnescapeStep(u, b)
    BY UnescapedNext
  <2>4. UnescapeStep(u, b) = [bytes |-> Append(q, b), esc |-> FALSE]
    BY <2>1 DEF UnescapeStep
  <2>5. QED
    BY <2>1, <2>2, <2>3, <2>4
<1>2. CASE b \in {FLAG, ESC}
  <2> DEFINE x == EscXor(b)
             m == Append(t, ESC)
  <2>1. EscapedByte(b) = <<ESC, x>> /\ x \in Bytes4 /\ EscXor(x) = b /\ ESC \in Bytes4
    BY <1>2, EscXorIs, Marks DEF EscapedByte
  <2> HIDE DEF x
  <2>2. m \in Seq(Bytes4)
    BY <2>1, AppendProperties
  <2>3. t \o <<ESC, x>> = Append(m, x)
    <3>1. <<ESC>> \in Seq(Bytes4) /\ <<x>> \in Seq(Bytes4) /\ <<ESC, x>> = <<ESC>> \o <<x>>
      BY <2>1
    <3>2. (t \o <<ESC>>) \o <<x>> = t \o (<<ESC>> \o <<x>>)
      BY <3>1, ConcatAssociative
    <3>3. t \o <<ESC>> = m /\ m \o <<x>> = Append(m, x)
      BY <2>1, <2>2, AppendIsConcat
    <3>4. QED
      BY <3>1, <3>2, <3>3
  <2>4. Unescaped(m) = UnescapeStep(u, ESC)
    BY <2>1, UnescapedNext
  <2>5. UnescapeStep(u, ESC) = [bytes |-> q, esc |-> TRUE]
    BY DEF UnescapeStep
  <2>6. Unescaped(Append(m, x)) = UnescapeStep(Unescaped(m), x)
    BY <2>1, <2>2, UnescapedNext
  <2>7. UnescapeStep([bytes |-> q, esc |-> TRUE], x) = [bytes |-> Append(q, b), esc |-> FALSE]
    BY <2>1 DEF UnescapeStep
  <2>8. QED
    BY <2>1, <2>3, <2>4, <2>5, <2>6, <2>7
<1>3. QED
  BY <1>1, <1>2

\* Unescaping undoes escaping, and escaping does not shorten.
LEMMA UnescapedEscaped ==
  ASSUME NEW s \in Seq(Bytes4)
  PROVE  /\ Escaped(s) \in Seq(Bytes4) /\ Len(Escaped(s)) >= Len(s)
         /\ Unescaped(Escaped(s)) = [bytes |-> s, esc |-> FALSE]
<1> DEFINE n == Len(s)
           p == [k \in 0..n |-> SubSeq(s, 1, k)]
<1>1. n \in Nat
  BY LenProperties
<1>2. PICK e : Sends(e, s) /\ Escaped(s) = e[n]
  BY SenderRuns
<1>3. \A k \in 0..n : e[k] \in Seq(Bytes4)
  BY <1>2 DEF Sends
<1>4. \A k \in 0..n : p[k] \in Seq(Bytes4) /\ Len(p[k]) = k
  <2>1. ASSUME NEW k \in 0..n
        PROVE  SubSeq(s, 1, k) \in Seq(Bytes4) /\ Len(SubSeq(s, 1, k)) = k
    <3>1. \A i \in 1..k : s[i] \in Bytes4
      BY <1>1, ElementOfSeq
    <3>2. k \in Int /\ 1 \in Int /\ k >= 0
      BY <1>1
    <3>3. QED
      BY <3>1, <3>2, SubSeqProperties
  <2>2. QED
    BY <2>1
<1> DEFINE Q == {k \in 0..n : Len(e[k]) >= k
                              /\ Unescaped(e[k]) = [bytes |-> p[k], esc |-> FALSE]}
<1>5. p[0] = <<>> /\ e[0] = <<>> /\ Len(<<>>) = 0
  <2>1. SubSeq(s, 1, 0) = <<>>
    BY SubSeqEmpty
  <2>2. QED
    BY <1>1, <1>2, <2>1 DEF Sends
<1>6. 0 \in Q
  <2> HIDE DEF p, n
  <2>1. Unescaped(e[0]) = [bytes |-> p[0], esc |-> FALSE]
    BY <1>5, UnescapedNothing DEF Nothing
  <2>2. Len(e[0]) >= 0 /\ 0 \in 0..n
    BY <1>1, <1>5
  <2>3. QED
    BY <2>1, <2>2
<1>7. \A k \in 0..n : k < n => p[k + 1] = Append(p[k], s[k + 1]) /\ s[k + 1] \in Bytes4
  <2>1. ASSUME NEW k \in 0..n, k < n
        PROVE  SubSeq(s, 1, k + 1) = Append(SubSeq(s, 1, k), s[k + 1]) /\ s[k + 1] \in Bytes4
    <3> DEFINE l == k + 1
    <3>1. l \in 1..n /\ l \in 1..Len(s) /\ 1 \in 1..Len(s) /\ l - 1 = k
      BY <1>1, <2>1
    <3>2. SubSeq(s, 1, k) \in Seq(Bytes4) /\ s[l] \in Bytes4
      BY <1>4, <3>1, ElementOfSeq
    <3> HIDE DEF l
    <3>3. SubSeq(s, 1, l) = SubSeq(s, 1, l - 1) \o <<s[l]>>
      BY <3>1, SubSeqRecursiveSecond
    <3>4. SubSeq(s, 1, k) \o <<s[l]>> = Append(SubSeq(s, 1, k), s[l])
      BY <3>2, AppendIsConcat
    <3>5. QED
      BY <3>1, <3>2, <3>3, <3>4 DEF l
  <2>2. \A k \in 0..n : k < n => k + 1 \in 0..n
    BY <1>1
  <2>3. QED
    BY <2>1, <2>2
<1> HIDE DEF p
<1>8. ASSUME NEW k \in 0..n, k < n, k \in Q
      PROVE  k + 1 \in Q
  <2> DEFINE l == k + 1
             b == s[l]
  <2>1. l \in 1..n /\ l - 1 = k /\ l \in 0..n
    BY <1>1, <1>8
  <2>2. b \in Bytes4 /\ p[l] = Append(p[k], b) /\ p[k] \in Seq(Bytes4)
    BY <1>4, <1>7, <1>8
  <2>3. e[l] = e[k] \o EscapedByte(b) /\ e[k] \in Seq(Bytes4)
    BY <1>2, <1>3, <2>1 DEF Sends
  <2>4. Unescaped(e[k]) = [bytes |-> p[k], esc |-> FALSE] /\ Len(e[k]) >= k
    BY <1>8
  <2> HIDE DEF b
  <2>5. Unescaped(e[l]) = [bytes |-> p[l], esc |-> FALSE]
    <3>1. Unescaped(e[k] \o EscapedByte(b)) = [bytes |-> Append(p[k], b), esc |-> FALSE]
      BY Zenon, <2>2, <2>3, <2>4, UnescapedByte
    <3>2. QED
      BY Zenon, <2>2, <2>3, <3>1
  <2>6. Len(e[l]) >= l
    <3>1. EscapedByte(b) \in Seq(Bytes4) /\ Len(EscapedByte(b)) \in 1..2
      BY <2>2, EscapedByteIs
    <3>2. Len(e[l]) = Len(e[k]) + Len(EscapedByte(b)) /\ Len(e[k]) \in Nat
      BY <2>3, <3>1, ConcatProperties, LenProperties
    <3>3. l = k + 1 /\ k \in Nat
      BY <1>1
    <3> DEFINE x == Len(e[k])
               y == Len(EscapedByte(b))
               z == Len(e[l])
    <3>4. x \in Nat /\ x >= k /\ y \in 1..2 /\ z = x + y
      BY <2>4, <3>1, <3>2
    <3> HIDE DEF l, x, y, z
    <3>5. z >= l
      BY <3>3, <3>4
    <3>6. QED
      BY <3>5 DEF z
  <2> HIDE DEF l
  <2>7. l \in Q
    BY <2>1, <2>5, <2>6
  <2>8. QED
    BY <2>7 DEF l
<1> HIDE DEF Q
<1>9. n \in Q
  <2> HIDE DEF n
  <2>1. \A k \in 0..n : k \in Q
    BY <1>1, <1>6, <1>8, UpToInduction
  <2>2. QED
    BY <1>1, <2>1
<1>10. p[n] = s
  BY <1>1, SubSeqFull DEF p
<1>11. Len(e[n]) >= n /\ Unescaped(e[n]) = [bytes |-> s, esc |-> FALSE] /\ e[n] \in Seq(Bytes4)
  BY <1>1, <1>3, <1>9, <1>10 DEF Q
<1>12. QED
  BY <1>2, <1>11

\* A byte that is no escape is taken as it is.
LEMMA UnescapedPlain ==
  ASSUME NEW t \in Seq(Bytes4), NEW q \in Seq(Bytes4), NEW b \in Bytes4 \ {ESC},
         Unescaped(t) = [bytes |-> q, esc |-> FALSE]
  PROVE  /\ Unescaped(Append(t, b)) = [bytes |-> Append(q, b), esc |-> FALSE]
         /\ Append(t, b) \in Seq(Bytes4) /\ Append(q, b) \in Seq(Bytes4)
         /\ Len(Append(t, b)) = Len(t) + 1
<1> DEFINE u == [bytes |-> q, esc |-> FALSE]
<1>1. b \in Bytes4 /\ b # ESC
  OBVIOUS
<1>2. Unescaped(Append(t, b)) = UnescapeStep(u, b)
  BY <1>1, UnescapedNext
<1>3. UnescapeStep(u, b) = [bytes |-> Append(q, b), esc |-> FALSE]
  BY <1>1 DEF UnescapeStep
<1>4. /\ Append(t, b) \in Seq(Bytes4) /\ Append(q, b) \in Seq(Bytes4)
      /\ Len(Append(t, b)) = Len(t) + 1
  BY <1>1, AppendProperties
<1>5. QED
  BY Zenon, <1>2, <1>3, <1>4

\* What is between the flags of a frame that carries p: it is unescaped to p and
\* its CRC.
Carries(e, p) ==
  /\ e \in Seq(Bytes4) /\ Len(e) >= 3
  /\ Unescaped(e) = [bytes |-> p \o Crc16(p), esc |-> FALSE]

\* Everything between the flags escaped
LEMMA StuffedCarries ==
  ASSUME NEW p \in Packets
  PROVE  Carries(Escaped(p \o Crc16(p)), p)
<1> DEFINE c == Crc16(p)
           q == p \o c
<1>1. p \in Seq(Bytes4) /\ Len(p) \in Nat /\ Len(p) + 2 \in 3..MaxUnescaped
  BY GatewayAssumption, LenProperties DEF Bytes4
<1>2. c \in Seq(Bytes4) /\ Len(c) = 2
  BY <1>1, CrcIs
<1> HIDE DEF c
<1>3. q \in Seq(Bytes4) /\ Len(q) = Len(p) + 2
  BY Zenon, <1>1, <1>2, PairBehind
<1>4. /\ Escaped(q) \in Seq(Bytes4) /\ Len(Escaped(q)) >= Len(q)
      /\ Unescaped(Escaped(q)) = [bytes |-> q, esc |-> FALSE]
  BY Zenon, <1>3, UnescapedEscaped
<1>5. Len(Escaped(q)) >= 3
  <2> DEFINE m == Len(Escaped(q))  n == Len(q)
  <2>1. m \in Nat /\ n >= 3 /\ n \in Nat /\ m >= n
    BY <1>1, <1>3, <1>4, LenProperties
  <2> HIDE DEF m, n
  <2>2. m >= 3
    BY <2>1
  <2>3. QED
    BY <2>2 DEF m
<1>6. QED
  BY Zenon, <1>4, <1>5 DEF Carries, c

\* The CRC behind the escaped packet as it is, with no escape in it
LEMMA PlainCarries ==
  ASSUME NEW p \in Packets, \A i \in 1..2 : Crc16(p)[i] # ESC
  PROVE  Carries(Escaped(p) \o Crc16(p), p)
<1> DEFINE c == Crc16(p)
           t == Escaped(p)
<1>1. p \in Seq(Bytes4) /\ Len(p) \in Nat /\ Len(p) >= 1
  <2>1. p \in Seq(Bytes4) /\ Len(p) + 2 \in 3..MaxUnescaped
    BY GatewayAssumption DEF Bytes4
  <2>2. Len(p) \in Nat
    BY <2>1, LenProperties
  <2> DEFINE n == Len(p)
  <2>3. n \in Nat /\ n + 2 >= 3
    BY <2>1, <2>2
  <2> HIDE DEF n
  <2>4. n >= 1
    BY <2>3
  <2>5. QED
    BY <2>1, <2>2, <2>4 DEF n
<1>2. c \in Seq(Bytes4) /\ Len(c) = 2
  BY <1>1, CrcIs
<1>3. \A i \in 1..2 : c[i] # ESC
  OBVIOUS
<1> HIDE DEF c
<1>4. c[1] \in Bytes4 \ {ESC} /\ c[2] \in Bytes4 \ {ESC} /\ c = <<c[1], c[2]>>
  BY <1>2, <1>3
<1>5. /\ t \in Seq(Bytes4) /\ Len(t) >= Len(p)
      /\ Unescaped(t) = [bytes |-> p, esc |-> FALSE]
  BY Zenon, <1>1, UnescapedEscaped
<1> HIDE DEF t
<1> DEFINE x == c[1]  y == c[2]
           t1 == Append(t, x)  q1 == Append(p, x)
           t2 == Append(t1, y)  q2 == Append(q1, y)
<1>6. /\ Unescaped(t1) = [bytes |-> q1, esc |-> FALSE]
      /\ t1 \in Seq(Bytes4) /\ q1 \in Seq(Bytes4) /\ Len(t1) = Len(t) + 1
  BY Zenon, <1>1, <1>4, <1>5, UnescapedPlain
<1>7. /\ Unescaped(t2) = [bytes |-> q2, esc |-> FALSE]
      /\ t2 \in Seq(Bytes4) /\ Len(t2) = Len(t1) + 1
  <2> HIDE DEF t1, q1
  <2>1. QED
    BY Zenon, <1>4, <1>6, UnescapedPlain
<1>8. t2 = t \o c /\ q2 = p \o c
  <2>1. c = <<x, y>> /\ x \in Bytes4 /\ y \in Bytes4
    BY <1>4
  <2> HIDE DEF x, y
  <2>2. t2 = t \o <<x, y>> /\ q2 = p \o <<x, y>>
    BY Zenon, <1>1, <1>5, <2>1, TwoAppended
  <2>3. QED
    BY Zenon, <2>1, <2>2
<1>9. Len(t2) >= 3
  <2> DEFINE k == Len(t)  l == Len(t1)  m == Len(t2)  n == Len(p)
  <2>1. k \in Nat /\ n \in Nat /\ n >= 1 /\ k >= n /\ l = k + 1 /\ m = l + 1
    BY <1>1, <1>5, <1>6, <1>7, LenProperties
  <2> HIDE DEF k, l, m, n
  <2>2. m >= 3
    BY <2>1
  <2>3. QED
    BY <2>2 DEF m
<1>10. Carries(t2, p)
  <2> HIDE DEF t2
  <2>1. QED
    BY Zenon, <1>7, <1>8, <1>9 DEF Carries, c
<1>11. QED
  BY Zenon, <1>8, <1>10 DEF t, c

\* A frame that carries a packet passes every check.
LEMMA CarriedIsValid ==
  ASSUME NEW p \in Packets, NEW e, Carries(e, p)
  PROVE  ValidHdlc(<<FLAG>> \o e \o <<FLAG>>)
<1> DEFINE c == Crc16(p)
           q == p \o c
           f == <<FLAG>> \o e \o <<FLAG>>
<1>1. p \in Seq(Bytes4) /\ Len(p) \in Nat /\ Len(p) + 2 \in 3..MaxUnescaped
  BY GatewayAssumption, LenProperties DEF Bytes4
<1>2. c \in Seq(Bytes4) /\ Len(c) = 2
  BY <1>1, CrcIs
<1> HIDE DEF c
<1>3. /\ q \in Seq(Bytes4) /\ Len(q) = Len(p) + 2
      /\ \A i \in 1..(Len(p) + 2) : q[i] = IF i <= Len(p) THEN p[i] ELSE c[i - Len(p)]
  BY Zenon, <1>1, <1>2, PairBehind
<1> HIDE DEF q
<1>4. /\ e \in Seq(Bytes4) /\ Len(e) \in Nat /\ Len(e) >= 3
      /\ Unescaped(e) = [bytes |-> q, esc |-> FALSE]
  BY LenProperties DEF Carries, q, c
<1>5. f = (<<FLAG>> \o e) \o <<FLAG>>
  OBVIOUS
<1> HIDE DEF f
<1> DEFINE n == Len(e)
           h == <<FLAG>> \o e
<1>6. /\ h \in Seq(Bytes4) /\ Len(h) = n + 1 /\ h[1] = FLAG
      /\ \A i \in 1..n : h[i + 1] = e[i]
  <2>1. <<FLAG>> \in Seq(Bytes4) /\ Len(<<FLAG>>) = 1 /\ <<FLAG>>[1] = FLAG
    BY Marks
  <2>2. /\ h \in Seq(Bytes4) /\ Len(h) = 1 + n
        /\ \A i \in 1..(1 + n) : h[i] = IF i <= 1 THEN <<FLAG>>[i] ELSE e[i - 1]
    BY <1>4, <2>1, ConcatProperties
  <2> HIDE DEF h
  <2>3. QED
    BY <1>4, <2>1, <2>2
<1> HIDE DEF h
<1>7. /\ f \in Seq(Bytes4) /\ Len(f) = n + 2 /\ f[1] = FLAG /\ f[n + 2] = FLAG
      /\ \A i \in 1..n : f[i + 1] = e[i]
  <2>1. f = Append(h, FLAG)
    BY <1>5, <1>6, Marks, AppendIsConcat DEF h
  <2>2. /\ f \in Seq(Bytes4) /\ Len(f) = n + 2 /\ f[n + 2] = FLAG
        /\ \A i \in 1..(n + 1) : f[i] = h[i]
    BY <1>4, <1>6, <2>1, Marks, AppendProperties
  <2>3. QED
    BY <1>4, <1>6, <2>2
<1>8. SubSeq(f, 2, Len(f) - 1) = e
  <2> DEFINE g == SubSeq(f, 2, n + 1)
  <2>1. \A i \in 2..(n + 1) : f[i] \in Bytes4
    BY <1>4, <1>7, ElementOfSeq
  <2>2. g \in Seq(Bytes4) /\ Len(g) = n /\ \A i \in 1..n : g[i] = f[i + 1]
    BY <1>4, <2>1, SubSeqProperties
  <2> HIDE DEF g
  <2>3. g = e
    BY <1>4, <1>7, <2>2, SeqEqual
  <2>4. Len(f) - 1 = n + 1
    BY <1>4, <1>7
  <2>5. QED
    BY <2>3, <2>4 DEF g
<1>9. SubSeq(q, 1, Len(q) - 2) = p
  <2> DEFINE m == Len(p)
             g == SubSeq(q, 1, m)
  <2>1. \A i \in 1..m : q[i] \in Bytes4 /\ q[i] = p[i]
    BY <1>1, <1>3, ElementOfSeq
  <2>2. g \in Seq(Bytes4) /\ Len(g) = m /\ \A i \in 1..m : g[i] = q[i]
    BY <1>1, <2>1, SubSeqProperties
  <2> HIDE DEF g
  <2>3. g = p
    BY <1>1, <2>1, <2>2, SeqEqual
  <2>4. Len(q) - 2 = m
    BY <1>1, <1>3
  <2>5. QED
    BY <2>3, <2>4 DEF g
<1>10. SubSeq(q, Len(q) - 1, Len(q)) = c
  <2> DEFINE m == Len(p)
             g == SubSeq(q, m + 1, m + 2)
  <2>1. q[m + 1] = c[1] /\ q[m + 2] = c[2] /\ c[1] \in Bytes4 /\ c[2] \in Bytes4
    BY <1>1, <1>2, <1>3
  <2>2. \A i \in (m + 1)..(m + 2) : q[i] \in Bytes4
    BY <1>1, <1>3, ElementOfSeq
  <2>3. g \in Seq(Bytes4) /\ Len(g) = 2 /\ \A i \in 1..2 : g[i] = q[m + i]
    BY <1>1, <2>2, SubSeqProperties
  <2> HIDE DEF g
  <2>4. \A i \in 1..2 : g[i] = c[i]
    BY <2>1, <2>3
  <2>5. g = c
    BY <1>2, <2>3, <2>4, SeqEqual
  <2>6. Len(q) - 1 = m + 1 /\ Len(q) = m + 2
    BY <1>1, <1>3
  <2>7. QED
    BY <2>5, <2>6 DEF g
<1>11. Unescaped(e).bytes = q /\ ~Unescaped(e).esc
  BY <1>4
<1>12. Len(f) >= 4 /\ f[1] = FLAG /\ f[Len(f)] = FLAG /\ f # <<>>
  BY <1>4, <1>7
<1>13. Len(q) \in 3..MaxUnescaped
  BY <1>1, <1>3
<1>14. ValidHdlc(f)
  BY <1>8, <1>9, <1>10, <1>11, <1>12, <1>13 DEF ValidHdlc, c
<1>15. QED
  BY <1>12, <1>14 DEF f

\* Either sender's frame, if the CRC has no escape in it where it is not stuffed
GoodFrame(f) ==
  \E p \in Packets :
    \/ f = StuffedFrame(p)
    \/ f = HdlcFrame(p) /\ \A i \in 1..2 : Crc16(p)[i] # ESC

LEMMA FrameIsValid ==
  ASSUME NEW f, GoodFrame(f)
  PROVE  ValidHdlc(f) /\ f # <<>>
<1>1. PICK p \in Packets :
        \/ f = StuffedFrame(p)
        \/ f = HdlcFrame(p) /\ \A i \in 1..2 : Crc16(p)[i] # ESC
  BY Zenon DEF GoodFrame
<1>2. ValidHdlc(f)
  <2>1. CASE f = StuffedFrame(p)
    BY Zenon, <2>1, StuffedCarries, CarriedIsValid DEF StuffedFrame
  <2>2. CASE f = HdlcFrame(p) /\ \A i \in 1..2 : Crc16(p)[i] # ESC
    BY Zenon, <2>2, PlainCarries, CarriedIsValid DEF HdlcFrame
  <2>3. QED
    BY Zenon, <1>1, <2>1, <2>2
<1>3. Len(f) >= 4
  BY Zenon, <1>2 DEF ValidHdlc
<1>4. f # <<>>
  BY <1>3
<1>5. QED
  BY <1>2, <1>4
-----------------------------------------------------------------------------
\* The last frame of an HDLC link published housekeeping if it was valid.
AcceptInv ==
  bus = "hdlc" /\ given # <<>> /\ ValidHdlc(given) => recent[Len(recent)].hk

LEMMA AcceptStep == SilenceInv /\ AcceptInv /\ [Round]_gvars => AcceptInv'
<1> SUFFICES ASSUME SilenceInv, AcceptInv, [Round]_gvars
             PROVE  AcceptInv'
  OBVIOUS
<1>1. ASSUME NEW c, NEW f, ValidFrame(c, f)
      PROVE  AcceptInv'
  <2>1. recent' = Seen(TRUE, FALSE) /\ recent \in Seq(RoundSeen) /\ Len(recent) <= SilenceCycles
    BY <1>1 DEF ValidFrame, EndSilence, SilenceInv
  <2> DEFINE w == recent'
  <2>2. w[Len(w)] = [hk |-> TRUE, alarm |-> FALSE]
    BY <2>1, SeenIs
  <2> HIDE DEF w
  <2>3. w[Len(w)].hk
    BY <2>2
  <2>4. QED
    BY <2>3 DEF AcceptInv, w
<1>2. ASSUME NEW c, NEW f, CorruptFrame(c, f), given' = f, UNCHANGED bus
      PROVE  AcceptInv'
  BY <1>2 DEF CorruptFrame, Accepted, AcceptInv
<1>3. ASSUME NEW c, NoFrame(c)
      PROVE  AcceptInv'
  BY <1>3 DEF NoFrame, AcceptInv
<1>4. CASE UNCHANGED gvars
  BY <1>4 DEF gvars, AcceptInv
<1>5. QED
  BY <1>1, <1>2, <1>3, <1>4 DEF Round

\* The HDLC check accepts every packet that is stuffed as a whole, and every one
\* whose CRC follows as it is if there is no escape in it, of any length that fits
\* the buffers and with flags and escapes wherever they fall, and the round that
\* takes the frame publishes housekeeping (mcu_eps_gw.c:140-168, 246-311).
THEOREM AlwaysFramedIsAccepted == GatewaySpec => []FramedIsAccepted
<1>1. GatewayInit => AcceptInv
  BY DEF GatewayInit, AcceptInv
<1>2. AcceptInv => FramedIsAccepted
  BY Zenon, FrameIsValid DEF AcceptInv, FramedIsAccepted, GoodFrame
<1>3. QED
  BY <1>1, <1>2, GatewayStart, SilenceStep, AcceptStep, PTL DEF GatewaySpec
-----------------------------------------------------------------------------
(* The bus                                                                   *)

IsRover(m) == m.mid \in Bridge!RoverCommands
\* Whatever may be in a pipe
Traffic ==
  Commands \cup
    {[mid |-> i] : i \in Requested \cup {HkMid, "ROS2_BRIDGE_HK"} \cup Bridge!RoverTelemetry}

\* A rover command waits for the bridge once, and only if it was brought: it is
\* in b.
WaitingOK(q, b) ==
  /\ q \in Seq(Traffic)
  /\ \A i \in 1..Len(q) : IsRover(q[i]) => q[i] \in b
  /\ \A i, j \in 1..Len(q) : IsRover(q[i]) /\ q[i] = q[j] => i = j

\* What was sent was brought, was sent once and waits no longer.
SentOK(s, q, b) ==
  /\ s \in Seq(Traffic)
  /\ \A i \in 1..Len(s) : IsRover(s[i]) /\ s[i] \in b
  /\ \A i, j \in 1..Len(s) : s[i] = s[j] => i = j
  /\ \A i \in 1..Len(s), j \in 1..Len(q) : s[i] # q[j]

PipesOK(p, s, b) ==
  /\ p \in [Apps -> Seq(Traffic)]
  /\ WaitingOK(p["bridge"], b) /\ SentOK(s, p["bridge"], b)

CountOK ==
  /\ bridgeCount \in [Bridge!Counters -> 0..(CountMod - 1)]
  /\ resetAt \in 0..Len(tcSent)
  /\ bridgeCount.forwarded = (Len(tcSent) - resetAt) % CountMod

SentInv == PipesOK(pipe, tcSent, brought) /\ CountOK

\* What an application transmits of its own is no rover command.
Own(i) == [mid |-> i] \in Traffic /\ i \notin Bridge!RoverCommands

LEMMA OwnIds ==
  /\ \A i \in Requested \cup Bridge!RoverTelemetry : Own(i)
  /\ Own(HkMid) /\ Own("ROS2_BRIDGE_HK")
BY IdsAssumption DEF Own, Traffic, Bridge!RoverCommands, Bridge!RoverTelemetry

\* A message joins at most the end of the pipe.
LEMMA DeliveredIs ==
  ASSUME NEW p \in [Apps -> Seq(Traffic)], NEW m \in Traffic
  PROVE  /\ Delivered(p, m) \in [Apps -> Seq(Traffic)]
         /\ \/ Delivered(p, m)["bridge"] = p["bridge"]
            \/ Delivered(p, m)["bridge"] = Append(p["bridge"], m)
<1>1. \A a \in Apps : p[a] \in Seq(Traffic) /\ Append(p[a], m) \in Seq(Traffic)
  BY AppendProperties
<1>2. "bridge" \in Apps
  BY DEF Apps
<1>3. QED
  BY <1>1, <1>2 DEF Delivered

LEMMA QuietJoins ==
  ASSUME NEW p, NEW s, NEW b, PipesOK(p, s, b), NEW m \in Traffic, ~IsRover(m)
  PROVE  PipesOK(Delivered(p, m), s, b)
<1> DEFINE q == p["bridge"]
           r == Append(q, m)
<1>1. /\ q \in Seq(Traffic) /\ Len(q) \in Nat
      /\ r \in Seq(Traffic) /\ Len(r) = Len(q) + 1 /\ r[Len(q) + 1] = m
      /\ \A i \in 1..Len(q) : r[i] = q[i]
  BY AppendProperties, LenProperties DEF PipesOK, WaitingOK
<1>2. WaitingOK(q, b) /\ SentOK(s, q, b)
  BY DEF PipesOK
<1>3. Delivered(p, m) \in [Apps -> Seq(Traffic)] /\ Delivered(p, m)["bridge"] \in {q, r}
  BY DeliveredIs DEF PipesOK
<1> HIDE DEF q, r
<1>4. WaitingOK(r, b)
  BY <1>1, <1>2 DEF WaitingOK
<1>5. SentOK(s, r, b)
  BY <1>1, <1>2 DEF SentOK
<1>6. QED
  BY <1>2, <1>3, <1>4, <1>5 DEF PipesOK

LEMMA TransmittedOK ==
  ASSUME NEW p, NEW s, NEW b, PipesOK(p, s, b),
         NEW o, o = <<>> \/ \E i : Own(i) /\ o = <<i>>
  PROVE  PipesOK(Transmitted(p, o), s, b)
<1>1. CASE o = <<>>
  BY <1>1 DEF Transmitted
<1>2. ASSUME NEW i, Own(i), o = <<i>>
      PROVE  PipesOK(Transmitted(p, o), s, b)
  <2>1. Transmitted(p, o) = Delivered(p, [mid |-> i])
    BY <1>2 DEF Transmitted
  <2>2. [mid |-> i] \in Traffic /\ ~IsRover([mid |-> i])
    BY <1>2 DEF Own, IsRover
  <2>3. QED
    BY <2>1, <2>2, QuietJoins
<1>3. QED
  BY <1>1, <1>2

\* A turn of another application takes nothing from the bridge's pipe.
LEMMA OthersTake ==
  ASSUME SentInv, NEW a \in {"comm", "cdh"}, pipe[a] # <<>>
  PROVE  PipesOK(Took(a), tcSent, brought)
<1>1. /\ pipe \in [Apps -> Seq(Traffic)] /\ a \in Apps
      /\ Tail(pipe[a]) \in Seq(Traffic)
  BY DEF SentInv, PipesOK, Apps
<1>2. Took(a) \in [Apps -> Seq(Traffic)] /\ Took(a)["bridge"] = pipe["bridge"]
  BY <1>1 DEF Took, Apps
<1>3. QED
  BY <1>2 DEF SentInv, PipesOK

\* The bridge takes the first message; a rover command may go to Space ROS.
LEMMA BridgeTakes ==
  ASSUME SentInv, pipe["bridge"] # <<>>
  PROVE  LET h == Head(pipe["bridge"])
             p == Took("bridge")
         IN  /\ h \in Traffic /\ PipesOK(p, tcSent, brought)
             /\ IsRover(h) => PipesOK(p, Append(tcSent, h), brought)
<1> DEFINE q == pipe["bridge"]
           h == Head(q)
           r == Tail(q)
           s == tcSent
           t == Append(s, h)
<1>1. /\ q \in Seq(Traffic) /\ Len(q) \in Nat \ {0} /\ h = q[1] /\ h \in Traffic
      /\ r \in Seq(Traffic) /\ Len(r) = Len(q) - 1
      /\ \A i \in 1..Len(r) : r[i] = q[i + 1] /\ i + 1 \in 1..Len(q)
  <2>1. q \in Seq(Traffic) /\ Len(q) \in Nat \ {0}
    BY EmptySeq, LenProperties DEF SentInv, PipesOK, WaitingOK
  <2> HIDE DEF q
  <2>2. QED
    BY <2>1, ElementOfSeq
<1>2. /\ t \in Seq(Traffic) /\ Len(s) \in Nat /\ Len(t) = Len(s) + 1
      /\ t[Len(s) + 1] = h /\ \A i \in 1..Len(s) : t[i] = s[i]
  BY <1>1, AppendProperties, LenProperties DEF SentInv, PipesOK, SentOK
<1>3. WaitingOK(q, brought) /\ SentOK(s, q, brought) /\ pipe \in [Apps -> Seq(Traffic)]
  BY DEF SentInv, PipesOK
<1>4. Took("bridge") \in [Apps -> Seq(Traffic)] /\ Took("bridge")["bridge"] = r
  BY <1>1, <1>3 DEF Took, Apps
<1> HIDE DEF q, h, r, s, t
<1>5. WaitingOK(r, brought)
  <2>1. \A i \in 1..Len(r) : IsRover(r[i]) => r[i] \in brought
    BY <1>1, <1>3 DEF WaitingOK
  <2>2. ASSUME NEW i \in 1..Len(r), NEW j \in 1..Len(r), IsRover(r[i]), r[i] = r[j]
        PROVE  i = j
    <3>1. i + 1 = j + 1
      BY <1>1, <1>3, <2>2 DEF WaitingOK
    <3>2. QED
      BY <3>1
  <2>3. QED
    BY <1>1, <2>1, <2>2 DEF WaitingOK
<1>6. SentOK(s, r, brought)
  BY <1>1, <1>3 DEF SentOK
<1>7. ASSUME IsRover(h)
      PROVE  SentOK(t, r, brought)
  <2>1. h \in brought
    BY <1>1, <1>3, <1>7 DEF WaitingOK
  <2>2. \A i \in 1..Len(s) : s[i] # h
    BY <1>1, <1>3 DEF SentOK
  <2>3. \A i \in 1..Len(r) : r[i] # h
    BY <1>1, <1>3, <1>7 DEF WaitingOK
  <2>4. \A i \in 1..Len(t) : IsRover(t[i]) /\ t[i] \in brought
    BY <1>2, <1>3, <1>7, <2>1 DEF SentOK
  <2>5. \A i, j \in 1..Len(t) : t[i] = t[j] => i = j
    BY <1>2, <1>3, <2>2 DEF SentOK
  <2>6. \A i \in 1..Len(t), j \in 1..Len(r) : t[i] # r[j]
    <3>1. \A i \in 1..Len(s), j \in 1..Len(r) : s[i] # r[j]
      BY <1>6 DEF SentOK
    <3>2. \A i \in 1..Len(t) : t[i] = h \/ (i \in 1..Len(s) /\ t[i] = s[i])
      BY <1>2
    <3>3. QED
      BY Zenon, <2>3, <3>1, <3>2
  <2>7. QED
    BY <1>2, <2>4, <2>5, <2>6 DEF SentOK
<1>8. QED
  BY <1>1, <1>4, <1>5, <1>6, <1>7 DEF PipesOK, q, h, r, s, t

\* What the uplink brings is new to the pipe and to Space ROS.
LEMMA UplinkKeeps ==
  ASSUME SentInv, NEW m \in Commands \ brought
  PROVE  PipesOK(Delivered(pipe, m), tcSent, brought \cup {m})
<1> DEFINE q == pipe["bridge"]
           r == Append(q, m)
           s == tcSent
           b == brought \cup {m}
           p == Delivered(pipe, m)
<1>1. m \in Traffic
  BY DEF Traffic
<1>2. /\ q \in Seq(Traffic) /\ Len(q) \in Nat
      /\ r \in Seq(Traffic) /\ Len(r) = Len(q) + 1 /\ r[Len(q) + 1] = m
      /\ \A i \in 1..Len(q) : r[i] = q[i]
  BY <1>1, AppendProperties, LenProperties DEF SentInv, PipesOK, WaitingOK
<1>3. WaitingOK(q, brought) /\ SentOK(s, q, brought)
  BY DEF SentInv, PipesOK
<1>4. p \in [Apps -> Seq(Traffic)] /\ p["bridge"] \in {q, r}
  BY <1>1, DeliveredIs DEF SentInv, PipesOK
<1> HIDE DEF q, r, s, p
<1>5. WaitingOK(q, b) /\ SentOK(s, q, b)
  BY <1>3 DEF WaitingOK, SentOK
<1>6. WaitingOK(r, b)
  BY <1>2, <1>3 DEF WaitingOK
<1>7. SentOK(s, r, b)
  BY <1>2, <1>3 DEF SentOK
<1>8. QED
  BY <1>4, <1>5, <1>6, <1>7 DEF PipesOK, s, p

\* Counting another counter of the bridge leaves the forwarded ones.
LEMMA BridgeCounts ==
  ASSUME CountOK, NEW c \in Bridge!Counters
  PROVE  /\ Bridge!Counted(c) \in [Bridge!Counters -> 0..(CountMod - 1)]
         /\ c # "forwarded" => Bridge!Counted(c).forwarded = bridgeCount.forwarded
         /\ c = "forwarded" =>
              Bridge!Counted(c).forwarded = (bridgeCount.forwarded + 1) % CountMod
<1>1. CountMod \in Nat \ {0} /\ "forwarded" \in Bridge!Counters
  BY CommAssumption DEF Bridge!Counters
<1>2. bridgeCount \in [Bridge!Counters -> 0..(CountMod - 1)]
  BY DEF CountOK
<1>3. (bridgeCount[c] + 1) % CountMod \in 0..(CountMod - 1)
  BY <1>1, <1>2
<1>4. QED
  BY <1>1, <1>2, <1>3 DEF Bridge!Counted

\* The bridge's poll of its pipe.  h is the message it takes.
LEMMA BridgeSbKeeps == SentInv /\ BridgeSb => SentInv'
<1> SUFFICES ASSUME SentInv, BridgeSb
             PROVE  SentInv'
  OBVIOUS
<1> DEFINE h == Head(pipe["bridge"])
           n == Len(tcSent)
<1>1. CountMod \in Nat \ {0} /\ "forwarded" \in Bridge!Counters
  BY CommAssumption DEF Bridge!Counters
<1>2. CountOK /\ tcSent \in Seq(Traffic) /\ n \in Nat /\ resetAt \in 0..n
  BY LenProperties DEF SentInv, CountOK, PipesOK, SentOK
<1>3. brought' = brought /\ tcSent' = tcSent \o tc'
  BY DEF BridgeSb
<1>4. CASE pipe["bridge"] = <<>> /\ Bridge!NoMessage /\ UNCHANGED <<pipe, bridgeHk, resetAt>>
  <2>1. tcSent' = tcSent /\ bridgeCount' = bridgeCount
    BY <1>2, <1>3, <1>4, ConcatEmptySeq DEF Bridge!NoMessage
  <2>2. QED
    BY <1>3, <1>4, <2>1 DEF SentInv, CountOK
<1>5. ASSUME NEW ok \in BOOLEAN, pipe["bridge"] # <<>>, Bridge!TakeMessage(h, ok),
             pipe' = Transmitted(Took("bridge"), bridgeOut'),
             resetAt' = IF IsReset(h) THEN n ELSE resetAt
      PROVE  SentInv'
  <2>1. /\ h \in Traffic /\ PipesOK(Took("bridge"), tcSent, brought)
        /\ IsRover(h) => PipesOK(Took("bridge"), Append(tcSent, h), brought)
    BY <1>5, BridgeTakes
  <2> HIDE DEF h, n
  <2>2. CASE h.mid \in Bridge!RoverCommands /\ ok /\ tc' = <<h>>
             /\ bridgeCount' = Bridge!Counted("forwarded") /\ bridgeOut' = <<>>
    <3>1. tcSent' = Append(tcSent, h) /\ Len(tcSent') = n + 1
      BY <1>2, <1>3, <2>1, <2>2 DEF n
    <3>2. PipesOK(pipe', tcSent', brought')
      BY <1>3, <1>5, <2>1, <2>2, <3>1, TransmittedOK DEF IsRover
    <3>3. resetAt' = resetAt
      BY <1>5, <2>2 DEF IsReset, Bridge!RoverCommands
    <3>4. bridgeCount'.forwarded = ((n + 1) - resetAt) % CountMod
      <4>1. bridgeCount'.forwarded = (((n - resetAt) % CountMod) + 1) % CountMod
        BY <1>2, <2>2, BridgeCounts, <1>1 DEF CountOK, n
      <4>2. n - resetAt \in Nat /\ (n - resetAt) + 1 = (n + 1) - resetAt
        BY <1>2
      <4>3. QED
        BY <1>1, <4>1, <4>2, ModNext
    <3>5. CountOK'
      BY <1>1, <1>2, <2>2, <3>1, <3>3, <3>4, BridgeCounts DEF CountOK
    <3>6. QED
      BY <3>2, <3>5 DEF SentInv
  <2>3. CASE /\ tc' = <<>> /\ ~IsReset(h)
             /\ bridgeOut' = <<>> \/ bridgeOut' = <<"ROS2_BRIDGE_HK">>
             /\ \/ bridgeCount' = bridgeCount
                \/ bridgeCount' \in {Bridge!Counted("cmd"), Bridge!Counted("err")}
    <3>1. tcSent' = tcSent
      BY <1>2, <1>3, <2>3, ConcatEmptySeq
    <3>2. PipesOK(pipe', tcSent', brought')
      BY <1>3, <1>5, <2>1, <2>3, <3>1, TransmittedOK, OwnIds
    <3>3. bridgeCount' \in [Bridge!Counters -> 0..(CountMod - 1)]
          /\ bridgeCount'.forwarded = bridgeCount.forwarded
      BY <1>2, <2>3, BridgeCounts DEF CountOK, Bridge!Counters
    <3>4. CountOK'
      BY <1>2, <1>5, <2>3, <3>1, <3>3 DEF CountOK
    <3>5. QED
      BY <3>2, <3>4 DEF SentInv
  <2>4. CASE IsReset(h) /\ tc' = <<>> /\ bridgeOut' = <<>>
             /\ bridgeCount' = [c \in Bridge!Counters |-> 0]
    <3>1. tcSent' = tcSent
      BY <1>2, <1>3, <2>4, ConcatEmptySeq
    <3>2. PipesOK(pipe', tcSent', brought')
      BY <1>3, <1>5, <2>1, <2>4, <3>1, TransmittedOK
    <3>3. resetAt' = n /\ n - n = 0
      BY <1>2, <1>5, <2>4
    <3>4. 0 % CountMod = 0
      BY <1>1, ModUnique
    <3>5. CountOK'
      BY <1>1, <1>2, <2>4, <3>1, <3>3, <3>4 DEF CountOK, n
    <3>6. QED
      BY <3>2, <3>5 DEF SentInv
  <2>5. h.mid = "ROS2_BRIDGE_CMD" => h.cc \in {"noop", "reset", "other"}
    BY <2>1, IdsAssumption, BridgeCommandAssumption DEF Traffic, Bridge!RoverTelemetry
  <2>6. CASE h.mid = "ROS2_BRIDGE_HK"
    BY <1>5, <2>3, <2>6 DEF Bridge!TakeMessage, IsReset, Bridge!RoverCommands, Bridge!Subscribed
  <2>7. CASE h.mid = "ROS2_BRIDGE_CMD"
    BY <1>5, <2>3, <2>4, <2>5, <2>7 DEF Bridge!TakeMessage, IsReset, Bridge!RoverCommands, Bridge!Subscribed
  <2>8. CASE h.mid \in Bridge!RoverCommands
    BY <1>5, <2>2, <2>3, <2>8
    DEF Bridge!TakeMessage, Bridge!ForwardTc, IsReset, Bridge!RoverCommands, Bridge!Subscribed
  <2>9. CASE h.mid \notin Bridge!Subscribed
    BY <1>5, <2>3, <2>9 DEF Bridge!TakeMessage, IsReset, Bridge!Subscribed
  <2>10. QED
    BY <2>6, <2>7, <2>8, <2>9 DEF Bridge!Subscribed
<1>6. QED
  BY <1>4, <1>5 DEF BridgeSb

LEMMA SentStart == BusInit => SentInv
<1> SUFFICES ASSUME BusInit
             PROVE  SentInv
  OBVIOUS
<1>1. /\ pipe = [a \in Apps |-> <<>>] /\ tcSent = <<>> /\ brought = {} /\ resetAt = 0
      /\ bridgeCount = [c \in Bridge!Counters |-> 0]
  BY DEF BusInit, Bridge!Init
<1>2. pipe["bridge"] = <<>> /\ pipe \in [Apps -> Seq(Traffic)]
  BY <1>1 DEF Apps
<1>3. PipesOK(pipe, tcSent, brought)
  <2>1. <<>> \in Seq(Traffic) /\ \A i \in 1..Len(<<>>) : FALSE
    OBVIOUS
  <2>2. WaitingOK(<<>>, brought)
    BY <2>1 DEF WaitingOK
  <2>3. SentOK(<<>>, <<>>, brought)
    BY <2>1 DEF SentOK
  <2>4. QED
    BY <1>1, <1>2, <2>2, <2>3 DEF PipesOK
<1>4. CountMod \in Nat \ {0} /\ "forwarded" \in Bridge!Counters
  BY CommAssumption DEF Bridge!Counters
<1>5. 0 % CountMod = 0 /\ 0 - 0 = 0
  BY <1>4, ModUnique
<1>6. CountOK
  BY <1>1, <1>4, <1>5 DEF CountOK
<1>7. QED
  BY <1>3, <1>6 DEF SentInv

LEMMA SentStep == SentInv /\ [BusNext]_fvars => SentInv'
<1> SUFFICES ASSUME SentInv, [BusNext]_fvars
             PROVE  SentInv'
  OBVIOUS
<1>1. CASE Schedule
  <2>1. PICK i \in Requested : pipe' = Delivered(pipe, [mid |-> i])
    BY <1>1 DEF Schedule
  <2>2. [mid |-> i] \in Traffic /\ ~IsRover([mid |-> i])
    BY OwnIds DEF Own, IsRover
  <2>3. PipesOK(pipe', tcSent, brought)
    BY <2>1, <2>2, QuietJoins DEF SentInv
  <2>4. QED
    BY <1>1, <2>3 DEF Schedule, bridgeVars, SentInv, CountOK
<1>2. CASE Uplink
  <2>1. PICK m \in Commands \ brought :
          brought' = brought \cup {m} /\ pipe' = Delivered(pipe, m)
    BY <1>2 DEF Uplink
  <2>2. PipesOK(pipe', tcSent, brought')
    BY <2>1, UplinkKeeps
  <2>3. QED
    BY <1>2, <2>2 DEF Uplink, bridgeVars, SentInv, CountOK
<1>3. CASE CommTurn
  <2>1. out' = <<>> \/ out' = <<HkMid>>
    BY <1>3 DEF CommTurn, Process, GroundCommand, SendHk, Forward, UnknownMid
  <2>2. PipesOK(pipe', tcSent, brought)
    BY <1>3, <2>1, OthersTake, TransmittedOK, OwnIds DEF CommTurn
  <2>3. QED
    BY <1>3, <2>2 DEF CommTurn, bridgeVars, SentInv, CountOK
<1>4. CASE CdhTurn
  <2>1. cdhOut' = <<>> \/ cdhOut' = <<HkMid>>
    BY <1>4 DEF CdhTurn, Cdh!Process, Cdh!GroundCommand, Cdh!SendHk, Cdh!PeerHk, Cdh!UnknownMid
  <2>2. PipesOK(pipe', tcSent, brought)
    BY <1>4, <2>1, OthersTake, TransmittedOK, OwnIds DEF CdhTurn
  <2>3. QED
    BY <1>4, <2>2 DEF CdhTurn, bridgeVars, SentInv, CountOK
<1>5. CASE BridgeUdp
  <2>1. /\ bridgeOut' = <<>> \/ \E d \in Bridge!RoverTelemetry : bridgeOut' = <<d>>
        /\ \/ bridgeCount' = bridgeCount
           \/ bridgeCount' \in {Bridge!Counted("routed"), Bridge!Counted("rejects")}
    BY <1>5 DEF BridgeUdp, Bridge!TakeDatagram, Bridge!NoDatagram
  <2>2. PipesOK(pipe', tcSent, brought)
    BY <1>5, <2>1, TransmittedOK, OwnIds DEF BridgeUdp, SentInv
  <2>3. bridgeCount' \in [Bridge!Counters -> 0..(CountMod - 1)]
        /\ bridgeCount'.forwarded = bridgeCount.forwarded
    BY <2>1, BridgeCounts DEF SentInv, CountOK, Bridge!Counters
  <2>4. QED
    BY <1>5, <2>2, <2>3 DEF BridgeUdp, SentInv, CountOK
<1>6. CASE BridgeSb
  BY <1>6, BridgeSbKeeps
<1>7. CASE UNCHANGED fvars
  BY <1>7 DEF fvars, bridgeVars, SentInv, CountOK
<1>8. QED
  BY <1>1, <1>2, <1>3, <1>4, <1>5, <1>6, <1>7 DEF BusNext

\* The bridge counts as forwarded what Space ROS was sent since the last reset,
\* and sends no command twice (ros2_bridge.c:437-441, 467-488), for every depth
\* of the pipes, every traffic on the bus and any answers of the socket.
THEOREM AlwaysForwardedIsSent == BusSpec => []ForwardedIsSent
<1>1. SentInv => ForwardedIsSent
  BY DEF SentInv, PipesOK, SentOK, CountOK, ForwardedIsSent
<1>2. QED
  BY <1>1, SentStart, SentStep, PTL DEF BusSpec

\* orbiter_comm judges the link rightly on the bus as well, where what it hears
\* is what the other applications, the scheduler and the uplink put in its pipe
\* and what fits (orbiter_comm.c:283-291, 410-423).
THEOREM BusLinkMeansHeard == BusSpec => []LinkMeansHeard
<1>1. BusInit => LinkInv
  BY LinkInit DEF BusInit
<1>2. LinkInv /\ [BusNext]_fvars => LinkInv'
  BY LinkTurn, LinkStill
  DEF BusNext, Schedule, Uplink, CommTurn, CdhTurn, BridgeUdp, BridgeSb, fvars
<1>3. LinkInv => LinkMeansHeard
  BY CommAssumption DEF LinkInv, LinkMeansHeard
<1>4. QED
  BY <1>1, <1>2, <1>3, PTL DEF BusSpec
=============================================================================
