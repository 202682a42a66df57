------------------------- MODULE RemoteProbeProofs -------------------------
(***************************************************************************)
(* Proofs about the harness's side of the probe for every number of        *)
(* attempts: the series it ends up with is a prefix of the agent's         *)
(* wherever the connection breaks, is final once the reader was joined,    *)
(* and validates if nothing is said to be wrong.                           *)
(***************************************************************************)
EXTENDS RemoteProbe, SequenceTheorems, TLAPS

(* Everything under way, in the order the reader will see it.              *)
Channel == pipe \o wire

(* What the agent writes next will be under way too.                       *)
Open == /\ client \in {"running", "signalled"} /\ network = "up"
        /\ agent \in {"probing", "stopping"}

Counts(series) == \A i \in 1 .. Len(series) : series[i] = i

(* The lines of a queue after line s are the attempts after number m, one  *)
(* by one, and nothing else but a stop line at the end; the agent, at a,   *)
(* has emitted k attempts.                                                 *)
Series(queue, s, m, k, a) ==
  \A i \in 1 .. Len(queue) : i > s =>
    \/ queue[i] = AttemptLine(m + i - s) /\ m + i - s <= k
    \/ /\ queue[i].kind = "stop" /\ i = Len(queue)
       /\ a = "done" /\ k = m + i - s - 1

(* What the reader has not seen continues what it has: from where it is    *)
(* after the start line, from 1 before it.  While more can arrive, nothing *)
(* is missing from the end.                                                *)
KnownInv ==
  /\ Series(Channel, 0, Len(attempts), Len(emitted), agent)
  /\ Open => Len(emitted) = Len(attempts) + Len(Channel)

UnknownInv ==
  \A s \in 1 .. Len(Channel) : Channel[s].kind = "start" =>
    /\ ~summary /\ \A i \in 1 .. s - 1 : Channel[i].kind = "noise"
    /\ Series(Channel, s, 0, Len(emitted), agent)
    /\ Open => Len(emitted) = Len(Channel) - s

ChannelInv ==
  reader # "crashed" => /\ skew = "known" => KnownInv
                        /\ skew = "unknown" => UnknownInv

SeriesInv ==
  /\ Counts(emitted) /\ Counts(attempts) /\ Len(attempts) <= Len(emitted)
  /\ skew = "unknown" => attempts = <<>>
  /\ agent \in {"none", "boot"} =>
       /\ skew = "unknown" /\ emitted = <<>> /\ wire = <<>>
       /\ \A i \in 1 .. Len(pipe) : pipe[i].kind = "noise"
  /\ \A i \in 1 .. Len(Channel) : Channel[i].kind = "stop" => agent = "done"
  /\ summary => agent = "done"
  /\ summary /\ skew = "known" => Len(attempts) = Len(emitted)

(* A reader that was joined does not run again.                            *)
OwnerInv ==
  /\ main = "new" => reader = "off" /\ agent = "none"
  /\ main \in {"closing", "stopped"} /\ ~abandoned => reader # "reading"
  /\ main # "stopped" => error # "empty"
  /\ main = "stopped" /\ ~abandoned =>
       /\ error = NoError => attempts # <<>>
       /\ error = "empty" => attempts = <<>>

ProbeInv == TypeOK /\ SeriesInv /\ ChannelInv /\ OwnerInv

-----------------------------------------------------------------------------
(* What the steps do to a queue.                                           *)

LEMMA LinesAreLines ==
  /\ Line("start") \in Lines /\ Line("garbled") \in Lines
  /\ Line("noise") \in Lines /\ Line("stop") \in Lines
  /\ \A n \in 1 .. MaxAttempts : AttemptLine(n) \in Lines
BY DEF Lines

LEMMA LineKinds ==
  /\ \A kind : Line(kind).kind = kind
  /\ \A n : AttemptLine(n).kind = "attempt" /\ AttemptLine(n).n = n
BY DEF Line, AttemptLine

LEMMA AttemptNumbers ==
  ASSUME NEW line \in Lines, line.kind = "attempt"
  PROVE  line.n \in 1 .. MaxAttempts
<1>1. CASE \E kind \in {"start", "garbled", "noise", "stop"} : line = Line(kind)
  BY <1>1, LineKinds
<1>2. CASE \E n \in 1 .. MaxAttempts : line = AttemptLine(n)
  BY <1>2, LineKinds
<1> QED
  BY <1>1, <1>2 DEF Lines

LEMMA OneLine ==
  ASSUME NEW line \in Lines
  PROVE  <<line>> \in Seq(Lines) /\ Len(<<line>>) = 1 /\ <<line>>[1] = line
OBVIOUS

LEMMA WriteKeepsLines ==
  ASSUME QueuesOK, NEW line \in Lines, Write(line)
  PROVE  wire' \in Seq(Lines)
BY AppendProperties DEF QueuesOK, Write

LEMMA ChannelLines ==
  ASSUME QueuesOK
  PROVE  /\ Channel \in Seq(Lines)
         /\ Len(Channel) = Len(pipe) + Len(wire)
         /\ \A i \in 1 .. Len(pipe) : Channel[i] = pipe[i]
BY ConcatProperties DEF QueuesOK, Channel

(* A lost wire leaves a prefix of the series.                              *)
LEMMA SeriesCut ==
  ASSUME NEW q \in Seq(Lines), NEW p \in Seq(Lines), Len(p) <= Len(q),
         \A i \in 1 .. Len(p) : p[i] = q[i],
         NEW s \in Nat, NEW m \in Nat, NEW k \in Nat, NEW a,
         Series(q, s, m, k, a)
  PROVE  Series(p, s, m, k, a)
BY DEF Series

(* An agent that goes on, without its lines arriving.                      *)
LEMMA SeriesGoesOn ==
  ASSUME NEW q \in Seq(Lines), NEW s \in Nat, NEW m \in Nat, NEW k \in Nat, NEW a, NEW b,
         NEW h \in Nat, a # "done", k <= h, Series(q, s, m, k, a)
  PROVE  Series(q, s, m, h, b)
BY DEF Series

LEMMA SeriesAttempt ==
  ASSUME NEW q \in Seq(Lines), NEW s \in Nat, NEW m \in Nat, NEW k \in Nat, NEW a,
         a # "done", k = m + Len(q) - s, Series(q, s, m, k, a)
  PROVE  Series(Append(q, AttemptLine(k + 1)), s, m, k + 1, a)
BY DEF Series

LEMMA SeriesStop ==
  ASSUME NEW q \in Seq(Lines), NEW s \in Nat, NEW m \in Nat, NEW k \in Nat, NEW a,
         a # "done", k = m + Len(q) - s, Series(q, s, m, k, a)
  PROVE  Series(Append(q, Line("stop")), s, m, k, "done")
BY DEF Series, Line

(* A line before the series, or the first of it, is read.                  *)
LEMMA SeriesTail ==
  ASSUME NEW q \in Seq(Lines), q # <<>>, NEW s \in Nat, NEW r \in Nat, NEW m \in Nat,
         NEW k \in Nat, NEW a, r = s + 1, Series(q, r, m, k, a)
  PROVE  Series(Tail(q), s, m, k, a)
BY HeadTailProperties DEF Series

LEMMA SeriesNext ==
  ASSUME NEW q \in Seq(Lines), q # <<>>, NEW m \in Nat, NEW n \in Nat, NEW k \in Nat,
         NEW a, n = m + 1, Series(q, 0, m, k, a)
  PROVE  Series(Tail(q), 0, n, k, a)
<1> DEFINE t == Tail(q)
<1>1. /\ Len(q) \in Nat \ {0} /\ Len(t) = Len(q) - 1
      /\ \A i \in 1 .. Len(t) : t[i] = q[i + 1]
  BY EmptySeq, HeadTailProperties
<1> HIDE DEF t
<1>2. ASSUME NEW i \in 1 .. Len(t), i > 0
      PROVE  \/ t[i] = AttemptLine(n + i - 0) /\ n + i - 0 <= k
             \/ t[i].kind = "stop" /\ i = Len(t) /\ a = "done" /\ k = n + i - 0 - 1
  <2>1. i + 1 \in 1 .. Len(q) /\ i + 1 > 0 /\ m + (i + 1) - 0 = n + i - 0 /\ t[i] = q[i + 1]
    BY <1>1
  <2>2. \/ q[i + 1] = AttemptLine(m + (i + 1) - 0) /\ m + (i + 1) - 0 <= k
        \/ /\ q[i + 1].kind = "stop" /\ i + 1 = Len(q)
           /\ a = "done" /\ k = m + (i + 1) - 0 - 1
    BY <2>1 DEF Series
  <2>3. i + 1 = Len(q) => i = Len(t)
    BY <1>1
  <2> QED
    BY <2>1, <2>2, <2>3
<1>3. Series(t, 0, n, k, a)
  BY <1>2 DEF Series
<1> QED
  BY <1>3 DEF t

LEMMA SeriesHead ==
  ASSUME NEW q \in Seq(Lines), q # <<>>, NEW m \in Nat, NEW k \in Nat, NEW a,
         Series(q, 0, m, k, a)
  PROVE  \/ q[1] = AttemptLine(m + 1) /\ m + 1 <= k
         \/ q[1].kind = "stop" /\ Len(q) = 1 /\ a = "done" /\ k = m
<1>1. 1 \in 1 .. Len(q) /\ 1 > 0
  BY EmptySeq
<1>2. \/ q[1] = AttemptLine(m + 1 - 0) /\ m + 1 - 0 <= k
      \/ q[1].kind = "stop" /\ 1 = Len(q) /\ a = "done" /\ k = m + 1 - 0 - 1
  BY <1>1 DEF Series
<1>3. m + 1 - 0 = m + 1 /\ m + 1 - 0 - 1 = m
  OBVIOUS
<1> QED
  BY <1>2, <1>3

-----------------------------------------------------------------------------
(* Types.                                                                  *)

(* Only an attempt of the agent is observed.                               *)
LEMMA ObservedStep == TypeOK /\ [Next]_vars => ObservedOK'
<1> SUFFICES ASSUME TypeOK, [Next]_vars PROVE ObservedOK'
  OBVIOUS
<1>1. CASE Emit
  <2>1. Len(emitted) + 1 \in 1 .. MaxAttempts
    BY <1>1, MaxAttemptsAssumption, LenProperties DEF Emit, TypeOK, QueuesOK
  <2> QED
    BY <1>1, <2>1 DEF Emit, Observe, TypeOK, ObservedOK
<1>2. CASE UNCHANGED observedVars
  BY <1>2 DEF observedVars, TypeOK, ObservedOK
<1>3. Emit \/ UNCHANGED observedVars
  BY DEF Next, vars, agentVars, Owner, Stopping, Start, StartFails, Stop, WaitReturns, Kill,
         JoinReader, CloseLog, Finish, Reader, Read, EndOfFile, Agent, Announce, Deadline,
         StopLine, AgentDies, Environment, Deliver, Noise, ClientEnds, NetworkCut
<1> QED
  BY <1>1, <1>2, <1>3

LEMMA TypesStep == TypeOK /\ [Next]_vars => TypeOK'
<1> SUFFICES ASSUME TypeOK, [Next]_vars PROVE FlagsOK' /\ StatesOK' /\ QueuesOK'
  BY ObservedStep DEF TypeOK
<1> USE DEF TypeOK, ownerVars, agentVars, resultVars
<1>1. CASE Owner
  <2> USE <1>1 DEF Owner, Stopping, Start, StartFails, Stop, WaitReturns, Kill,
                   JoinReader, CloseLog, Finish
  <2>1. FlagsOK'
    BY DEF FlagsOK
  <2>2. StatesOK'
    BY DEF StatesOK, NoError
  <2>3. QueuesOK'
    BY EmptySeq DEF QueuesOK
  <2> QED
    BY <2>1, <2>2, <2>3
<1>2. CASE Read
  <2>1. Head(pipe) \in Lines /\ Tail(pipe) \in Seq(Lines)
    BY <1>2, HeadTailProperties DEF Read, QueuesOK
  <2>2. FlagsOK'
    BY <1>2 DEF Read, Handle, FlagsOK
  <2>3. StatesOK'
    BY <1>2 DEF Read, Handle, StatesOK, NoError
  <2>4. QueuesOK'
    <3>1. CASE log = "closed"
      BY <1>2, <2>1, <3>1 DEF Read, QueuesOK
    <3>2. CASE log # "closed"
      <4>1. Head(pipe).kind = "attempt" => Head(pipe).n \in 1 .. MaxAttempts
        BY <2>1, AttemptNumbers
      <4>2. attempts' = attempts \/ (Head(pipe).kind = "attempt" /\ attempts' = Append(attempts, Head(pipe).n))
        BY <1>2, <3>2 DEF Read, Handle
      <4>3. attempts' \in Seq(1 .. MaxAttempts)
        <5>1. CASE attempts' = attempts
          BY <5>1 DEF QueuesOK
        <5>2. CASE Head(pipe).kind = "attempt" /\ attempts' = Append(attempts, Head(pipe).n)
          BY <4>1, <5>2, AppendProperties DEF QueuesOK
        <5> QED
          BY <4>2, <5>1, <5>2
      <4> QED
        BY <1>2, <2>1, <4>3 DEF Read, QueuesOK
    <3> QED
      BY <3>1, <3>2
  <2> QED
    BY <2>2, <2>3, <2>4
<1>3. CASE EndOfFile \/ Deadline \/ AgentDies
  BY <1>3 DEF EndOfFile, Deadline, AgentDies, FlagsOK, StatesOK, QueuesOK
<1>4. CASE Announce \/ StopLine
  <2> USE <1>4 DEF Announce, StopLine
  <2>1. wire' \in Seq(Lines)
    BY LinesAreLines, WriteKeepsLines
  <2> QED
    BY <2>1 DEF FlagsOK, StatesOK, QueuesOK
<1>5. CASE Emit
  <2> USE <1>5 DEF Emit
  <2>1. Len(emitted) + 1 \in 1 .. MaxAttempts
    BY MaxAttemptsAssumption DEF QueuesOK
  <2>2. wire' \in Seq(Lines)
    <3>1. AttemptLine(Len(emitted) + 1) \in Lines
      BY <2>1, LinesAreLines
    <3> QED
      BY <3>1, WriteKeepsLines
  <2>3. emitted' \in Seq(1 .. MaxAttempts)
    BY <2>1, AppendProperties DEF QueuesOK
  <2>4. FlagsOK'
    BY DEF FlagsOK
  <2>5. StatesOK'
    BY DEF StatesOK
  <2> QED
    BY <2>2, <2>3, <2>4, <2>5 DEF QueuesOK
<1>6. CASE Environment
  <2> USE <1>6 DEF Environment, Deliver, Noise, ClientEnds, NetworkCut
  <2>5. FlagsOK'
    BY DEF FlagsOK
  <2>6. StatesOK'
    <3>1. client' \in {"none", "running", "signalled", "dead"} /\ network' \in {"up", "cut"}
      BY DEF StatesOK
    <3> QED
      BY <3>1 DEF StatesOK
  <2>1. FlagsOK' /\ StatesOK'
    BY <2>5, <2>6
  <2>2. CASE Deliver
    <3>1. Head(wire) \in Lines /\ wire' \in Seq(Lines)
      BY <2>2, HeadTailProperties DEF QueuesOK
    <3>2. pipe' \in Seq(Lines)
      BY <2>2, <3>1, AppendProperties DEF QueuesOK
    <3> QED
      BY <2>1, <2>2, <3>1, <3>2 DEF QueuesOK
  <2>3. CASE Noise
    <3>1. <<Line("noise")>> \in Seq(Lines)
      BY LinesAreLines, OneLine
    <3> QED
      BY <2>1, <2>3, <3>1 DEF QueuesOK
  <2>4. CASE ClientEnds \/ NetworkCut
    BY <2>1, <2>4, EmptySeq DEF QueuesOK
  <2> QED
    BY <1>6, <2>2, <2>3, <2>4 DEF Environment
<1>7. CASE UNCHANGED vars
  <2> USE <1>7 DEF vars
  <2>1. FlagsOK'
    BY DEF FlagsOK
  <2>2. StatesOK'
    BY DEF StatesOK, NoError
  <2>3. QueuesOK'
    BY DEF QueuesOK
  <2> QED
    BY <2>1, <2>2, <2>3
<1> QED
  BY <1>1, <1>2, <1>3, <1>4, <1>5, <1>6, <1>7 DEF Next, Reader, Agent

(* The owner's part is disturbed by the owner and the reader only.         *)
LEMMA OwnerInvStep == ProbeInv /\ [Next]_vars => OwnerInv'
<1> SUFFICES ASSUME ProbeInv, [Next]_vars PROVE OwnerInv'
  OBVIOUS
<1> USE DEF ProbeInv, ownerVars, agentVars, resultVars
<1>1. CASE Owner
  BY <1>1 DEF Owner, Stopping, Start, StartFails, Stop, WaitReturns, Kill,
              JoinReader, CloseLog, Finish, OwnerInv, NoError
<1>2. CASE Reader
  BY <1>2 DEF Reader, Read, EndOfFile, Handle, OwnerInv, NoError
<1>3. CASE Agent
  BY <1>3 DEF Agent, Announce, Emit, Deadline, StopLine, AgentDies, OwnerInv
<1>4. CASE Environment
  BY <1>4 DEF Environment, Deliver, Noise, ClientEnds, NetworkCut, OwnerInv
<1>5. CASE UNCHANGED vars
  BY <1>5 DEF vars, OwnerInv
<1> QED
  BY <1>1, <1>2, <1>3, <1>4, <1>5 DEF Next

-----------------------------------------------------------------------------
(* The channel.                                                            *)

(* Steps that leave the lines and the series as they are.                  *)
LEMMA QuietStep ==
  ASSUME ProbeInv, Channel' = Channel, UNCHANGED <<emitted, attempts, skew, summary>>,
         reader' # "crashed" => reader # "crashed",
         agent = "done" => agent' = "done", Open' => Open,
         agent' \in {"none", "boot"} =>
           agent \in {"none", "boot"} /\ UNCHANGED <<pipe, wire>>
  PROVE  SeriesInv' /\ ChannelInv'
<1> USE DEF ProbeInv, TypeOK
<1>1. SeriesInv'
  BY DEF SeriesInv, Counts
<1>2. \A s, m : Series(Channel, s, m, Len(emitted), agent) =>
                Series(Channel', s, m, Len(emitted'), agent')
  BY DEF Series
<1>3. ASSUME reader # "crashed", skew = "known" PROVE KnownInv'
  BY <1>2, <1>3 DEF ChannelInv, KnownInv
<1>4. ASSUME reader # "crashed", skew = "unknown" PROVE UnknownInv'
  BY <1>2, <1>4 DEF ChannelInv, UnknownInv
<1> QED
  BY <1>1, <1>3, <1>4 DEF ChannelInv

(* Steps that append a line to what is under way.                          *)
LEMMA ChannelAppend ==
  ASSUME QueuesOK, NEW line \in Lines, pipe' = pipe, wire' = Append(wire, line)
  PROVE  Channel' = Append(Channel, line)
<1>1. Append(wire, line) = wire \o <<line>> /\ <<line>> \in Seq(Lines)
  BY AppendIsConcat DEF QueuesOK
<1>2. pipe \o (wire \o <<line>>) = (pipe \o wire) \o <<line>>
  BY <1>1, ConcatAssociative DEF QueuesOK
<1>3. Append(pipe \o wire, line) = (pipe \o wire) \o <<line>>
  BY ConcatProperties, AppendIsConcat DEF QueuesOK
<1> QED
  BY <1>1, <1>2, <1>3 DEF Channel

(* The head of the pipe is the first line under way.                       *)
LEMMA ChannelTail ==
  ASSUME QueuesOK, pipe # <<>>, pipe' = Tail(pipe), wire' = wire
  PROVE  /\ Channel # <<>> /\ Channel[1] = Head(pipe) /\ Channel' = Tail(Channel)
         /\ Len(Channel') = Len(Channel) - 1
         /\ \A i \in 1 .. Len(Channel') : Channel'[i] = Channel[i + 1]
<1>1. /\ Tail(pipe) \in Seq(Lines) /\ Len(Tail(pipe)) = Len(pipe) - 1
      /\ \A i \in 1 .. Len(Tail(pipe)) : Tail(pipe)[i] = pipe[i + 1]
      /\ Len(pipe) \in Nat \ {0} /\ Len(wire) \in Nat
  BY HeadTailProperties, EmptySeq, LenProperties DEF QueuesOK
<1>2. /\ Channel' \in Seq(Lines) /\ Len(Channel') = Len(pipe) - 1 + Len(wire)
      /\ \A i \in 1 .. Len(Channel') :
           Channel'[i] = IF i <= Len(pipe) - 1 THEN pipe[i + 1] ELSE wire[i - (Len(pipe) - 1)]
  BY <1>1, ConcatProperties DEF Channel, QueuesOK
<1>3. /\ Channel \in Seq(Lines) /\ Len(Channel) = Len(pipe) + Len(wire)
      /\ \A i \in 1 .. Len(Channel) :
           Channel[i] = IF i <= Len(pipe) THEN pipe[i] ELSE wire[i - Len(pipe)]
  BY ConcatProperties DEF Channel, QueuesOK
<1>4. ASSUME NEW i \in 1 .. Len(Channel') PROVE Channel'[i] = Channel[i + 1]
  <2>1. i + 1 \in 1 .. Len(Channel) /\ i - (Len(pipe) - 1) = (i + 1) - Len(pipe)
    BY <1>1, <1>2, <1>3
  <2>2. CASE i <= Len(pipe) - 1
    BY <1>1, <1>2, <1>3, <2>1, <2>2
  <2>3. CASE ~(i <= Len(pipe) - 1)
    BY SMTT(30), <1>1, <1>2, <1>3, <2>1, <2>3
  <2> QED
    BY <2>2, <2>3
<1>5. Channel # <<>> /\ Channel[1] = Head(pipe)
  BY <1>1, <1>3, EmptySeq DEF QueuesOK
<1>6. Tail(Channel) \in Seq(Lines) /\ Len(Tail(Channel)) = Len(Channel) - 1
      /\ \A i \in 1 .. Len(Tail(Channel)) : Tail(Channel)[i] = Channel[i + 1]
  BY <1>3, <1>5, HeadTailProperties
<1>7. Channel' = Tail(Channel)
  BY <1>1, <1>2, <1>3, <1>4, <1>6, SeqEqual
<1> QED
  BY <1>1, <1>2, <1>3, <1>4, <1>5, <1>7

(* Steps that lose what is on the wire.                                    *)
LEMMA CutStep ==
  ASSUME ProbeInv, wire' = <<>>, ~Open',
         UNCHANGED <<agentVars, pipe, reader, skew, attempts, summary>>
  PROVE  SeriesInv' /\ ChannelInv'
<1> USE DEF ProbeInv, TypeOK, agentVars
<1>1. Channel' = pipe
  BY ConcatEmptySeq DEF Channel, QueuesOK
<1>2. /\ Channel \in Seq(Lines) /\ pipe \in Seq(Lines) /\ Len(pipe) <= Len(Channel)
      /\ \A i \in 1 .. Len(pipe) : pipe[i] = Channel[i]
  BY ChannelLines DEF QueuesOK
<1>3. Len(emitted) \in Nat /\ Len(attempts) \in Nat
  BY DEF QueuesOK
<1>4. ASSUME NEW s \in Nat, NEW m \in Nat, Series(Channel, s, m, Len(emitted), agent)
      PROVE  Series(Channel', s, m, Len(emitted'), agent')
  BY <1>1, <1>2, <1>3, <1>4, SeriesCut
<1>5. SeriesInv'
  <2>1. \A i \in 1 .. Len(Channel') : Channel'[i].kind = "stop" => agent' = "done"
    BY <1>1, <1>2 DEF SeriesInv
  <2> QED
    BY <2>1 DEF SeriesInv, Counts
<1>6. ASSUME reader # "crashed", skew = "known" PROVE KnownInv'
  BY <1>3, <1>4, <1>6 DEF ChannelInv, KnownInv
<1>7. ASSUME reader # "crashed", skew = "unknown" PROVE UnknownInv'
  BY <1>1, <1>2, <1>4, <1>7 DEF ChannelInv, UnknownInv
<1> QED
  BY <1>5, <1>6, <1>7 DEF ChannelInv

(* The start line: until now there was nothing but noise.                  *)
LEMMA AnnounceStep == ProbeInv /\ Announce => SeriesInv' /\ ChannelInv'
<1> SUFFICES ASSUME ProbeInv, Announce PROVE SeriesInv' /\ ChannelInv'
  OBVIOUS
<1> USE DEF ProbeInv, TypeOK, ownerVars, resultVars
<1>1. /\ skew = "unknown" /\ emitted = <<>> /\ Channel = pipe /\ ~summary
      /\ \A i \in 1 .. Len(Channel) : Channel[i].kind = "noise"
      /\ Channel \in Seq(Lines)
  BY ConcatEmptySeq DEF Announce, SeriesInv, Channel, QueuesOK, FlagsOK
<1>2. /\ agent' = "probing"
      /\ UNCHANGED <<emitted, attempts, skew, summary, reader, pipe, client, network>>
  BY DEF Announce
<1>3. CASE Channel' = Channel
  BY <1>1, <1>2, <1>3 DEF SeriesInv, Counts, ChannelInv, UnknownInv
<1>4. ASSUME NEW w \in {"start", "garbled"}, Channel' = Append(Channel, Line(w))
      PROVE  SeriesInv' /\ ChannelInv'
  <2>1. /\ Len(Channel') = Len(Channel) + 1 /\ Len(Channel) \in Nat
        /\ \A i \in 1 .. Len(Channel) : Channel'[i] = Channel[i]
        /\ Channel'[Len(Channel) + 1].kind = w
    <3>1. Line(w) \in Lines /\ Line(w).kind = w
      BY LinesAreLines, LineKinds
    <3>2. Channel \in Seq(Lines)
      BY <1>1
    <3>3. /\ Len(Append(Channel, Line(w))) = Len(Channel) + 1 /\ Len(Channel) \in Nat
          /\ \A i \in 1 .. Len(Channel) : Append(Channel, Line(w))[i] = Channel[i]
          /\ Append(Channel, Line(w))[Len(Channel) + 1] = Line(w)
      BY <3>1, <3>2, AppendProperties, LenProperties
    <3> QED
      BY <1>4, <3>1, <3>3
  <2>2. \A i \in 1 .. Len(Channel') :
          Channel'[i].kind # "stop" /\ (Channel'[i].kind = "start" => i = Len(Channel'))
    <3> SUFFICES ASSUME NEW i \in 1 .. Len(Channel')
                 PROVE  \/ Channel'[i].kind = "noise"
                        \/ i = Len(Channel') /\ Channel'[i].kind = w
      OBVIOUS
    <3>1. i \in 1 .. Len(Channel) \/ i = Len(Channel) + 1
      BY <2>1
    <3> QED
      BY <1>1, <2>1, <3>1
  <2>3. SeriesInv'
    BY <1>1, <1>2, <2>2 DEF SeriesInv, Counts
  <2>4. UnknownInv'
    <3> SUFFICES ASSUME NEW s \in 1 .. Len(Channel'), Channel'[s].kind = "start"
                 PROVE  /\ ~summary' /\ \A i \in 1 .. s - 1 : Channel'[i].kind = "noise"
                        /\ Series(Channel', s, 0, Len(emitted'), agent')
                        /\ Open' => Len(emitted') = Len(Channel') - s
      BY DEF UnknownInv
    <3>1. s = Len(Channel) + 1 /\ s = Len(Channel') /\ s \in Nat
      BY <2>1, <2>2
    <3>2. \A i \in 1 .. s - 1 : Channel'[i].kind = "noise"
      <4>1. s - 1 = Len(Channel)
        BY <2>1, <3>1
      <4> QED
        BY <1>1, <2>1, <4>1
    <3>3. Series(Channel', s, 0, Len(emitted'), agent')
      BY <2>1, <3>1 DEF Series
    <3>4. Len(emitted') = 0 /\ Len(Channel') - s = 0
      BY <1>1, <1>2, <2>1, <3>1, EmptySeq
    <3> QED
      BY <1>1, <1>2, <3>2, <3>3, <3>4
  <2> QED
    BY <1>1, <1>2, <2>3, <2>4 DEF ChannelInv
<1>5. Channel' = Channel \/ \E w \in {"start", "garbled"} : Channel' = Append(Channel, Line(w))
  <2>1. PICK w \in {"start", "garbled"} : Write(Line(w))
    BY DEF Announce
  <2>2. CASE wire' = wire
    BY <1>2, <2>2 DEF Channel
  <2>3. CASE wire' = Append(wire, Line(w))
    BY <1>2, <2>3, ChannelAppend, LinesAreLines
  <2> QED
    BY <2>1, <2>2, <2>3 DEF Write
<1> QED
  BY <1>3, <1>4, <1>5

(* What an attempt or the stop line, written or not, does to the channel.  *)
LEMMA WriteStep ==
  ASSUME QueuesOK, NEW line \in Lines, Write(line), pipe' = pipe
  PROVE  IF client \in {"running", "signalled"} /\ network = "up"
           THEN Channel' = Append(Channel, line) ELSE Channel' = Channel
BY ChannelAppend DEF Write, Channel

LEMMA EmitStep == ProbeInv /\ Emit => SeriesInv' /\ ChannelInv'
<1> SUFFICES ASSUME ProbeInv, Emit PROVE SeriesInv' /\ ChannelInv'
  OBVIOUS
<1> USE DEF ProbeInv, TypeOK, ownerVars, resultVars
<1> DEFINE k == Len(emitted)
           line == AttemptLine(k + 1)
<1>1. /\ agent' = agent /\ agent \in {"probing", "stopping"}
      /\ UNCHANGED <<attempts, skew, summary, reader, pipe, client, network>>
      /\ emitted' = Append(emitted, k + 1)
  BY DEF Emit
<1>2. k \in Nat /\ k + 1 \in 1 .. MaxAttempts /\ Len(attempts) \in Nat
  BY MaxAttemptsAssumption DEF Emit, QueuesOK
<1>3. Len(emitted') = k + 1 /\ Counts(emitted')
  BY <1>1, <1>2, AppendProperties DEF QueuesOK, SeriesInv, Counts
<1>4. line \in Lines /\ line.kind = "attempt"
  BY <1>2, LinesAreLines, LineKinds
<1>5. Channel \in Seq(Lines) /\ Len(Channel) \in Nat
  BY ChannelLines DEF QueuesOK
<1>6. CASE ~Open
  <2>1. Channel' = Channel /\ ~Open'
    BY <1>1, <1>4, <1>6, WriteStep DEF Emit, Open
  <2>2. SeriesInv'
    BY <1>1, <1>2, <1>3, <2>1 DEF SeriesInv, Counts
  <2>3. ASSUME NEW s \in Nat, NEW m \in Nat, Series(Channel, s, m, k, agent)
        PROVE  Series(Channel', s, m, k + 1, agent')
    BY <1>1, <1>2, <1>5, <2>1, <2>3, SeriesGoesOn
  <2>4. ASSUME reader # "crashed", skew = "known" PROVE KnownInv'
    BY <1>1, <1>2, <1>3, <2>1, <2>3, <2>4 DEF ChannelInv, KnownInv
  <2>5. ASSUME reader # "crashed", skew = "unknown" PROVE UnknownInv'
    BY <1>1, <1>2, <1>3, <2>1, <2>3, <2>5 DEF ChannelInv, UnknownInv
  <2> QED
    BY <1>1, <2>2, <2>4, <2>5 DEF ChannelInv
<1>7. CASE Open
  <2>1. Channel' = Append(Channel, line)
    BY <1>1, <1>4, <1>7, WriteStep DEF Emit, Open
  <2>2. /\ Len(Channel') = Len(Channel) + 1
        /\ \A i \in 1 .. Len(Channel) : Channel'[i] = Channel[i]
        /\ Channel'[Len(Channel) + 1] = line
    BY <1>4, <1>5, <2>1, AppendProperties
  <2>3. SeriesInv'
    <3>1. \A i \in 1 .. Len(Channel') : Channel'[i].kind = "stop" => agent' = "done"
      BY <1>1, <1>4, <1>5, <2>2 DEF SeriesInv
    <3> QED
      BY <1>1, <1>2, <1>3, <3>1 DEF SeriesInv, Counts
  <2>4. ASSUME NEW s \in Nat, NEW m \in Nat, k = m + Len(Channel) - s,
               Series(Channel, s, m, k, agent)
        PROVE  Series(Channel', s, m, k + 1, agent')
    BY <1>1, <1>2, <1>5, <2>1, <2>4, SeriesAttempt
  <2>5. ASSUME reader # "crashed", skew = "known" PROVE KnownInv'
    <3>1. k = Len(attempts) + Len(Channel) - 0 /\ Series(Channel, 0, Len(attempts), k, agent)
      BY <1>2, <1>5, <1>7, <2>5 DEF ChannelInv, KnownInv
    <3>2. Series(Channel', 0, Len(attempts), k + 1, agent')
      BY <1>2, <2>4, <3>1
    <3> QED
      BY <1>1, <1>2, <1>3, <1>5, <2>2, <3>1, <3>2 DEF KnownInv
  <2>6. ASSUME reader # "crashed", skew = "unknown" PROVE UnknownInv'
    <3> SUFFICES ASSUME NEW s \in 1 .. Len(Channel'), Channel'[s].kind = "start"
                 PROVE  /\ ~summary' /\ \A i \in 1 .. s - 1 : Channel'[i].kind = "noise"
                        /\ Series(Channel', s, 0, Len(emitted'), agent')
                        /\ Open' => Len(emitted') = Len(Channel') - s
      BY DEF UnknownInv
    <3>1. s \in 1 .. Len(Channel) /\ Channel[s].kind = "start"
      BY <1>4, <1>5, <2>2
    <3>2. /\ ~summary /\ \A i \in 1 .. s - 1 : Channel[i].kind = "noise"
          /\ Series(Channel, s, 0, k, agent) /\ k = Len(Channel) - s
      BY <1>7, <2>6, <3>1 DEF ChannelInv, UnknownInv
    <3>3. Series(Channel', s, 0, k + 1, agent')
      BY <1>2, <1>5, <2>4, <3>1, <3>2
    <3> QED
      BY <1>1, <1>2, <1>3, <1>5, <2>2, <3>1, <3>2, <3>3
  <2> QED
    BY <1>1, <2>3, <2>5, <2>6 DEF ChannelInv
<1> QED
  BY <1>6, <1>7

LEMMA StopLineStep == ProbeInv /\ StopLine => SeriesInv' /\ ChannelInv'
<1> SUFFICES ASSUME ProbeInv, StopLine PROVE SeriesInv' /\ ChannelInv'
  OBVIOUS
<1> USE DEF ProbeInv, TypeOK, ownerVars, resultVars
<1> DEFINE k == Len(emitted)
           line == Line("stop")
<1>1. /\ agent = "stopping" /\ agent' = "done" /\ ~Open'
      /\ UNCHANGED <<attempts, emitted, skew, summary, reader, pipe, client, network>>
  BY DEF StopLine, Open
<1>2. k \in Nat /\ Len(attempts) \in Nat /\ line \in Lines /\ line.kind = "stop"
  <2>1. line \in Lines /\ line.kind = "stop"
    BY LinesAreLines, LineKinds
  <2> QED
    BY <2>1 DEF QueuesOK
<1>3. Channel \in Seq(Lines) /\ Len(Channel) \in Nat
  BY ChannelLines DEF QueuesOK
<1>4. SeriesInv'
  BY <1>1 DEF SeriesInv, Counts
<1>5. CASE ~Open
  <2>1. Channel' = Channel
    BY <1>1, <1>2, <1>5, WriteStep DEF StopLine, Open
  <2>2. ASSUME NEW s \in Nat, NEW m \in Nat, Series(Channel, s, m, k, agent)
        PROVE  Series(Channel', s, m, k, agent')
    BY <1>1, <1>2, <1>3, <2>1, <2>2, SeriesGoesOn
  <2>3. ASSUME reader # "crashed", skew = "known" PROVE KnownInv'
    BY <1>1, <1>2, <2>2, <2>3 DEF ChannelInv, KnownInv
  <2>4. ASSUME reader # "crashed", skew = "unknown" PROVE UnknownInv'
    BY <1>1, <2>1, <2>2, <2>4 DEF ChannelInv, UnknownInv
  <2> QED
    BY <1>1, <1>4, <2>3, <2>4 DEF ChannelInv
<1>6. CASE Open
  <2>1. Channel' = Append(Channel, line)
    BY <1>1, <1>2, <1>6, WriteStep DEF StopLine, Open
  <2>2. /\ Len(Channel') = Len(Channel) + 1
        /\ \A i \in 1 .. Len(Channel) : Channel'[i] = Channel[i]
        /\ Channel'[Len(Channel) + 1] = line
    BY <1>2, <1>3, <2>1, AppendProperties
  <2>3. ASSUME NEW s \in Nat, NEW m \in Nat, k = m + Len(Channel) - s,
               Series(Channel, s, m, k, agent)
        PROVE  Series(Channel', s, m, k, agent')
    BY <1>1, <1>2, <1>3, <2>1, <2>3, SeriesStop
  <2>4. ASSUME reader # "crashed", skew = "known" PROVE KnownInv'
    <3>1. k = Len(attempts) + Len(Channel) - 0 /\ Series(Channel, 0, Len(attempts), k, agent)
      BY <1>2, <1>3, <1>6, <2>4 DEF ChannelInv, KnownInv
    <3>2. Series(Channel', 0, Len(attempts), k, agent')
      BY <1>2, <2>3, <3>1
    <3> QED
      BY <1>1, <3>2 DEF KnownInv
  <2>5. ASSUME reader # "crashed", skew = "unknown" PROVE UnknownInv'
    <3> SUFFICES ASSUME NEW s \in 1 .. Len(Channel'), Channel'[s].kind = "start"
                 PROVE  /\ ~summary' /\ \A i \in 1 .. s - 1 : Channel'[i].kind = "noise"
                        /\ Series(Channel', s, 0, Len(emitted'), agent')
      BY <1>1 DEF UnknownInv
    <3>1. s \in 1 .. Len(Channel) /\ Channel[s].kind = "start"
      BY <1>2, <1>3, <2>2
    <3>2. /\ ~summary /\ \A i \in 1 .. s - 1 : Channel[i].kind = "noise"
          /\ Series(Channel, s, 0, k, agent) /\ k = Len(Channel) - s
      BY <1>6, <2>5, <3>1 DEF ChannelInv, UnknownInv
    <3>3. Series(Channel', s, 0, k, agent')
      BY <1>2, <1>3, <2>3, <3>1, <3>2
    <3> QED
      BY <1>1, <1>3, <2>2, <3>1, <3>2, <3>3
  <2> QED
    BY <1>1, <1>4, <2>4, <2>5 DEF ChannelInv
<1> QED
  BY <1>5, <1>6

LEMMA NoiseStep == ProbeInv /\ Noise => SeriesInv' /\ ChannelInv'
<1> SUFFICES ASSUME ProbeInv, Noise PROVE SeriesInv' /\ ChannelInv'
  OBVIOUS
<1> USE DEF ProbeInv, TypeOK, ownerVars, agentVars, resultVars
<1>1. /\ wire' = <<>> /\ pipe' = <<Line("noise")>> /\ skew' = "unknown" /\ ~summary'
      /\ UNCHANGED <<agent, emitted, attempts, reader>>
  BY DEF Noise, SeriesInv, FlagsOK
<1>2. Channel' = pipe' /\ Len(pipe') = 1 /\ pipe'[1] = Line("noise")
  BY <1>1, ConcatEmptySeq, LinesAreLines, OneLine DEF Channel
<1>3. \A i \in 1 .. Len(Channel') : Channel'[i].kind = "noise"
  BY <1>2, LineKinds
<1>4. SeriesInv'
  BY <1>1, <1>2, <1>3 DEF Noise, SeriesInv, Counts
<1>5. UnknownInv'
  BY <1>3 DEF UnknownInv
<1> QED
  BY <1>1, <1>4, <1>5 DEF ChannelInv

(* A line is read: one of the series is appended to it, the start line     *)
(* begins it, anything else leaves it.                                     *)
LEMMA ReadStep == ProbeInv /\ Read => SeriesInv' /\ ChannelInv'
<1> SUFFICES ASSUME ProbeInv, Read PROVE SeriesInv' /\ ChannelInv'
  OBVIOUS
<1> USE DEF ProbeInv, TypeOK, ownerVars, agentVars
<1> DEFINE line == Head(pipe)
<1>1. /\ UNCHANGED <<agent, emitted, client, network, wire>>
      /\ reader = "reading" /\ pipe # <<>> /\ pipe' = Tail(pipe)
  BY DEF Read
<1>2. /\ Channel # <<>> /\ Channel[1] = line /\ Channel' = Tail(Channel)
      /\ Len(Channel') = Len(Channel) - 1
      /\ \A i \in 1 .. Len(Channel') : Channel'[i] = Channel[i + 1]
  BY <1>1, ChannelTail
<1>3. /\ Channel \in Seq(Lines) /\ Len(Channel) \in Nat \ {0} /\ (Open' => Open)
      /\ 1 \in 1 .. Len(Channel) /\ Len(Channel') \in Nat
      /\ Len(emitted) \in Nat /\ Len(attempts) \in Nat
  BY <1>1, <1>2, ChannelLines, EmptySeq DEF QueuesOK, Open
<1>4. /\ Len(pipe) \in Nat \ {0} /\ Len(pipe') = Len(pipe) - 1 /\ line = pipe[1]
      /\ \A i \in 1 .. Len(pipe') : pipe'[i] = pipe[i + 1]
  BY <1>1, HeadTailProperties, EmptySeq DEF QueuesOK
<1>5. agent' \in {"none", "boot"} =>
        /\ skew = "unknown" /\ emitted' = <<>> /\ wire' = <<>> /\ line.kind = "noise"
        /\ \A i \in 1 .. Len(pipe') : pipe'[i].kind = "noise"
  BY <1>1, <1>4 DEF SeriesInv
<1>6. \A i \in 1 .. Len(Channel') : Channel'[i].kind = "stop" => agent' = "done"
  BY <1>1, <1>2, <1>3 DEF SeriesInv
<1>7. CASE log = "closed"
  <2>1. reader' = "crashed" /\ UNCHANGED resultVars
    BY <1>7 DEF Read
  <2>2. SeriesInv'
    BY <1>1, <1>5, <1>6, <2>1 DEF SeriesInv, Counts, resultVars
  <2> QED
    BY <2>1, <2>2 DEF ChannelInv
<1>8. CASE log # "closed" /\ skew = "known"
  <2>1. /\ skew' = "known" /\ reader' = reader
        /\ attempts' = IF line.kind = "attempt" THEN Append(attempts, line.n) ELSE attempts
        /\ summary' = (summary \/ line.kind = "stop")
    BY <1>8 DEF Read, Handle
  <2>2. /\ Series(Channel, 0, Len(attempts), Len(emitted), agent)
        /\ Open => Len(emitted) = Len(attempts) + Len(Channel)
    BY <1>1, <1>8 DEF ChannelInv, KnownInv
  <2>3. \/ line = AttemptLine(Len(attempts) + 1) /\ Len(attempts) + 1 <= Len(emitted)
        \/ /\ line.kind = "stop" /\ Len(Channel) = 1
           /\ agent = "done" /\ Len(emitted) = Len(attempts)
    BY <1>2, <1>3, <2>2, SeriesHead
  <2>4. CASE line = AttemptLine(Len(attempts) + 1) /\ Len(attempts) + 1 <= Len(emitted)
    <3>1. line.kind = "attempt" /\ line.n = Len(attempts) + 1
      BY <2>4 DEF AttemptLine
    <3>2. attempts' = Append(attempts, Len(attempts) + 1) /\ summary' = summary
      BY <2>1, <3>1 DEF FlagsOK
    <3>3. /\ Len(attempts') = Len(attempts) + 1 /\ Counts(attempts')
      BY <1>3, <3>2, AppendProperties DEF SeriesInv, Counts, QueuesOK
    <3>4. ~(summary /\ skew = "known")
      BY <1>3, <2>4 DEF SeriesInv
    <3>5. SeriesInv'
      BY <1>1, <1>3, <1>5, <1>6, <1>8, <2>1, <2>4, <3>2, <3>3, <3>4 DEF SeriesInv, Counts
    <3>6. Series(Channel', 0, Len(attempts'), Len(emitted'), agent')
      BY <1>1, <1>2, <1>3, <2>2, <3>3, SeriesNext
    <3>7. Open' => Len(emitted') = Len(attempts') + Len(Channel')
      BY SMTT(30), <1>1, <1>2, <1>3, <2>2, <3>3
    <3>8. KnownInv'
      BY <3>6, <3>7 DEF KnownInv
    <3> QED
      BY <2>1, <3>5, <3>8 DEF ChannelInv
  <2>5. CASE line.kind = "stop" /\ Len(Channel) = 1 /\ agent = "done" /\ Len(emitted) = Len(attempts)
    <3>1. attempts' = attempts /\ Len(Channel') = 0 /\ ~Open
      BY <1>2, <1>3, <2>1, <2>5 DEF Open
    <3>2. SeriesInv'
      BY <1>1, <1>6, <2>1, <2>5, <3>1 DEF SeriesInv, Counts
    <3>3. KnownInv'
      BY <1>3, <3>1 DEF KnownInv, Series
    <3> QED
      BY <2>1, <3>2, <3>3 DEF ChannelInv
  <2> QED
    BY <2>3, <2>4, <2>5
<1>9. CASE log # "closed" /\ skew = "unknown"
  <2>1. /\ skew' = (IF line.kind = "start" THEN "known" ELSE "unknown") /\ reader' = reader
        /\ attempts' = attempts /\ attempts = <<>> /\ Len(attempts) = 0
        /\ summary' <=> (summary \/ line.kind = "stop")
    BY <1>9, EmptySeq DEF Read, Handle, SeriesInv
  <2>2. UnknownInv
    BY <1>1, <1>9 DEF ChannelInv
  <2>3. CASE line.kind = "start"
    <3>1. /\ ~summary /\ Series(Channel, 1, 0, Len(emitted), agent)
          /\ Open => Len(emitted) = Len(Channel) - 1
      BY <1>2, <1>3, <2>2, <2>3 DEF UnknownInv
    <3>2. Series(Channel', 0, 0, Len(emitted), agent)
      <4>1. 1 = 0 + 1
        OBVIOUS
      <4> QED
        BY <1>2, <1>3, <3>1, <4>1, SeriesTail
    <3>3. SeriesInv'
      BY <1>1, <1>5, <1>6, <2>1, <2>3, <3>1 DEF SeriesInv, Counts
    <3>4. Series(Channel', 0, Len(attempts'), Len(emitted'), agent')
      BY <1>1, <2>1, <3>2
    <3>5. Open' => Len(emitted') = Len(attempts') + Len(Channel')
      <4>1. Len(attempts') = 0
        BY <2>1
      <4>2. Open' => Len(emitted') = Len(Channel')
        BY <1>1, <1>2, <1>3, <3>1
      <4> QED
        BY <1>3, <4>1, <4>2
    <3>6. KnownInv'
      BY <3>4, <3>5 DEF KnownInv
    <3> QED
      BY <2>1, <2>3, <3>3, <3>6 DEF ChannelInv
  <2>4. CASE line.kind # "start"
    <3>1. SeriesInv'
      <4>1. summary' => agent' = "done"
        BY <1>1, <1>2, <1>3, <2>1 DEF SeriesInv
      <4> QED
        BY <1>1, <1>5, <1>6, <2>1, <2>4, <4>1 DEF SeriesInv, Counts
    <3>2. ASSUME NEW s \in 1 .. Len(Channel'), Channel'[s].kind = "start"
          PROVE  /\ ~summary' /\ \A i \in 1 .. s - 1 : Channel'[i].kind = "noise"
                 /\ Series(Channel', s, 0, Len(emitted'), agent')
                 /\ Open' => Len(emitted') = Len(Channel') - s
      <4>1. s + 1 \in 1 .. Len(Channel) /\ Channel[s + 1].kind = "start"
        BY <1>2, <1>3, <3>2
      <4>2. /\ ~summary /\ \A i \in 1 .. s : Channel[i].kind = "noise"
            /\ Series(Channel, s + 1, 0, Len(emitted), agent)
            /\ Open => Len(emitted) = Len(Channel) - (s + 1)
        BY <2>2, <4>1 DEF UnknownInv
      <4>3. Series(Channel', s, 0, Len(emitted), agent)
        <5>1. s \in Nat /\ s + 1 \in Nat /\ 0 \in Nat
          BY <1>3
        <5> QED
          BY <1>2, <1>3, <4>2, <5>1, SeriesTail
      <4>4. line.kind = "noise"
        <5>1. 1 \in 1 .. s
          BY <1>3
        <5> QED
          BY <1>2, <4>2, <5>1
      <4>5. \A i \in 1 .. s - 1 : Channel'[i].kind = "noise"
        <5> SUFFICES ASSUME NEW i \in 1 .. s - 1 PROVE Channel'[i].kind = "noise"
          OBVIOUS
        <5>1. i + 1 \in 1 .. s /\ i \in 1 .. Len(Channel')
          BY <1>3
        <5> QED
          BY <1>2, <4>2, <5>1
      <4>6. Open' => Len(emitted') = Len(Channel') - s
        BY <1>1, <1>2, <1>3, <4>2
      <4> QED
        BY <1>1, <2>1, <4>2, <4>3, <4>4, <4>5, <4>6
    <3> QED
      BY <2>1, <2>4, <3>1, <3>2 DEF ChannelInv, UnknownInv
  <2> QED
    BY <2>3, <2>4
<1> QED
  BY <1>7, <1>8, <1>9 DEF StatesOK

LEMMA ProbeInductive == ProbeInv /\ [Next]_vars => ProbeInv'
<1> SUFFICES ASSUME ProbeInv, [Next]_vars PROVE SeriesInv' /\ ChannelInv'
  BY TypesStep, OwnerInvStep DEF ProbeInv
<1> USE DEF ownerVars, agentVars, resultVars
<1>6. CASE Start
  <2>1. agent = "none" /\ agent' = "boot" /\ reader = "off" /\ ~Open'
    BY <1>6 DEF Start, ProbeInv, OwnerInv, Open
  <2>2. Channel' = Channel /\ UNCHANGED <<emitted, attempts, skew, summary, pipe, wire>>
    BY <1>6 DEF Start, Channel
  <2> QED
    BY <2>1, <2>2, QuietStep
<1>1. CASE StartFails \/ Stop \/ WaitReturns \/ JoinReader \/ CloseLog \/ Finish
  BY <1>1, QuietStep DEF StartFails, Stop, WaitReturns, JoinReader, CloseLog, Finish,
                         Channel, Open
<1>2. CASE Kill \/ ClientEnds \/ NetworkCut
  BY <1>2, CutStep DEF Kill, ClientEnds, NetworkCut, Open
<1>3. CASE EndOfFile \/ Deadline \/ AgentDies
  BY <1>3, QuietStep DEF EndOfFile, Deadline, AgentDies, Channel, Open
<1>4. CASE Deliver
  <2>1. Channel' = Channel
    <3>1. /\ QueuesOK /\ wire # <<>> /\ Head(wire) \in Lines /\ Tail(wire) \in Seq(Lines)
          /\ Len(wire) \in Nat \ {0} /\ Len(pipe) \in Nat
          /\ Len(Tail(wire)) = Len(wire) - 1 /\ Head(wire) = wire[1]
          /\ \A i \in 1 .. Len(Tail(wire)) : Tail(wire)[i] = wire[i + 1]
      BY <1>4, HeadTailProperties, EmptySeq, LenProperties DEF Deliver, ProbeInv, TypeOK, QueuesOK
    <3>2. /\ pipe' \in Seq(Lines) /\ Len(pipe') = Len(pipe) + 1
          /\ \A i \in 1 .. Len(pipe) : pipe'[i] = pipe[i]
          /\ pipe'[Len(pipe) + 1] = wire[1]
      BY <1>4, <3>1, AppendProperties DEF Deliver, QueuesOK
    <3>3. /\ Channel' \in Seq(Lines) /\ Len(Channel') = Len(pipe) + Len(wire)
          /\ \A i \in 1 .. Len(Channel') :
               Channel'[i] = IF i <= Len(pipe) + 1 THEN pipe'[i] ELSE wire[i - Len(pipe)]
      BY <1>4, <3>1, <3>2, ConcatProperties DEF Deliver, Channel
    <3>4. /\ Channel \in Seq(Lines) /\ Len(Channel) = Len(pipe) + Len(wire)
          /\ \A i \in 1 .. Len(Channel) :
               Channel[i] = IF i <= Len(pipe) THEN pipe[i] ELSE wire[i - Len(pipe)]
      BY <3>1, ConcatProperties DEF Channel, QueuesOK
    <3>5. ASSUME NEW i \in 1 .. Len(Channel) PROVE Channel'[i] = Channel[i]
      <4>1. CASE i <= Len(pipe)
        BY <3>1, <3>2, <3>3, <3>4, <4>1
      <4>2. CASE i = Len(pipe) + 1
        <5>1. i - Len(pipe) = 1
          BY <3>1, <4>2
        <5> QED
          BY <3>1, <3>2, <3>3, <3>4, <4>2, <5>1
      <4>3. CASE i > Len(pipe) + 1
        BY <3>1, <3>3, <3>4, <4>3
      <4> QED
        BY <3>1, <4>1, <4>2, <4>3
    <3> QED
      BY <3>1, <3>3, <3>4, <3>5, SeqEqual
  <2>2. agent \notin {"none", "boot"}
    BY <1>4 DEF Deliver, ProbeInv, SeriesInv
  <2> QED
    BY <1>4, <2>1, <2>2, QuietStep DEF Deliver, Open
<1>5. CASE UNCHANGED vars
  BY <1>5, QuietStep DEF vars, Channel, Open
<1> QED
  BY <1>1, <1>2, <1>3, <1>4, <1>5, <1>6, AnnounceStep, EmitStep, StopLineStep, NoiseStep, ReadStep
     DEF Next, Owner, Stopping, Reader, Agent, Environment

LEMMA ProbeInitial == Init => ProbeInv
<1> SUFFICES ASSUME Init PROVE ProbeInv
  OBVIOUS
<1> USE DEF Init
<1>1. FlagsOK /\ StatesOK /\ ObservedOK
  BY DEF FlagsOK, StatesOK, ObservedOK, NoError
<1>2. QueuesOK
  BY EmptySeq DEF QueuesOK
<1>3. Channel = <<>>
  BY ConcatEmptySeq, EmptySeq DEF Channel
<1>4. SeriesInv
  BY <1>3, EmptySeq DEF SeriesInv, Counts
<1>5. ChannelInv /\ OwnerInv
  BY <1>3, EmptySeq DEF ChannelInv, UnknownInv, OwnerInv, NoError
<1> QED
  BY <1>1, <1>2, <1>4, <1>5 DEF ProbeInv, TypeOK

-----------------------------------------------------------------------------
(* The invariant holds of every run of the harness's side.                 *)
THEOREM ProbeInvariance == Spec => []ProbeInv
BY ProbeInitial, ProbeInductive, PTL DEF Spec

(* Every variable keeps its type, whatever the connection does.            *)
THEOREM ProbeTypeCorrectness == Spec => []TypeOK
<1>1. ProbeInv => TypeOK
  BY DEF ProbeInv
<1> QED
  BY <1>1, ProbeInvariance, PTL

(* The series is the agent's without its end, and without a loss if the    *)
(* stop line came through.                                                 *)
THEOREM SeriesOnlyLosesItsEnd == Spec => []SeriesIsPrefix
<1>1. ProbeInv => SeriesIsPrefix
  <2> SUFFICES ASSUME ProbeInv PROVE SeriesIsPrefix
    OBVIOUS
  <2> USE DEF ProbeInv, TypeOK, QueuesOK, SeriesInv, Counts
  <2>1. /\ Len(attempts) \in Nat /\ Len(emitted) \in Nat /\ Len(attempts) <= Len(emitted)
        /\ \A i \in 1 .. Len(attempts) : attempts[i] = emitted[i]
    OBVIOUS
  <2>2. \A i \in 1 .. Len(attempts) :
          attempts[i] \in 1 .. MaxAttempts /\ emitted[i] \in 1 .. MaxAttempts
    BY <2>1, ElementOfSeq
  <2>3. SubSeq(attempts, 1, Len(attempts)) = SubSeq(emitted, 1, Len(attempts))
    <3> DEFINE s == SubSeq(attempts, 1, Len(attempts))
               t == SubSeq(emitted, 1, Len(attempts))
               n == IF 1 <= Len(attempts) THEN Len(attempts) - 1 + 1 ELSE 0
    <3>1. /\ s \in Seq(1 .. MaxAttempts) /\ Len(s) = n
          /\ \A i \in 1 .. Len(attempts) - 1 + 1 : s[i] = attempts[1 + i - 1]
      BY <2>1, <2>2, SubSeqProperties
    <3>2. /\ t \in Seq(1 .. MaxAttempts) /\ Len(t) = n
          /\ \A i \in 1 .. Len(attempts) - 1 + 1 : t[i] = emitted[1 + i - 1]
      BY <2>1, <2>2, SubSeqProperties
    <3> HIDE DEF s, t
    <3>3. \A i \in 1 .. Len(s) : s[i] = t[i]
      BY <2>1, <3>1, <3>2
    <3> QED
      BY <3>1, <3>2, <3>3, SeqEqual
  <2>4. summary /\ skew = "known" => attempts = emitted
    BY <2>1, SeqEqual
  <2> QED
    BY <2>1, <2>3, <2>4 DEF SeriesIsPrefix, IsPrefix
<1> QED
  BY <1>1, ProbeInvariance, PTL

(* A probe that stopped without an error, and whose first write was        *)
(* served, left a log that validates if the clocks agree well enough.      *)
THEOREM NoErrorMeansValid == Spec => []QuietMeansValid
<1>1. ProbeInv => QuietMeansValid
  <2> SUFFICES ASSUME ProbeInv PROVE QuietMeansValid
    OBVIOUS
  <2>1. /\ DOMAIN attempts = 1 .. Len(attempts) /\ Len(attempts) \in Nat
        /\ \A i \in DOMAIN attempts : attempts[i] = i
    BY LenProperties DEF ProbeInv, TypeOK, QueuesOK, SeriesInv, Counts
  <2>2. \A i, j \in DOMAIN attempts : attempts[i] = attempts[j] => i = j
    BY <2>1
  <2>3. attempts # <<>> => 1 \in DOMAIN attempts /\ attempts[1] = 1
    BY <2>1, EmptySeq DEF ProbeInv, TypeOK, QueuesOK
  <2>4. clock = "ahead" => early = {}
    BY DEF ProbeInv, TypeOK, ObservedOK
  <2>5. attempts # <<>> /\ 1 \in served /\ clock = "ahead" => ProbeValidates
    BY <2>2, <2>3, <2>4 DEF ProbeValidates
  <2> QED
    BY <2>5 DEF ProbeInv, OwnerInv, QuietMeansValid
<1> QED
  BY <1>1, ProbeInvariance, PTL

(* Once stop() has joined the reader the series is final.                  *)
THEOREM SeriesIsFinal == Spec => FinalOnceStopped
<1>1. ProbeInv /\ [Next]_vars => [main = "stopped" /\ ~abandoned => UNCHANGED resultVars]_vars
  <2> SUFFICES ASSUME ProbeInv, Next, main = "stopped", ~abandoned PROVE UNCHANGED resultVars
    OBVIOUS
  <2>1. reader # "reading"
    BY DEF ProbeInv, OwnerInv
  <2>2. CASE Owner
    BY <2>2 DEF Owner, Stopping, Start, StartFails, Stop, WaitReturns, Kill, JoinReader,
                CloseLog, Finish
  <2>3. CASE Reader
    BY <2>1, <2>3 DEF Reader, Read, EndOfFile
  <2>4. CASE Agent
    BY <2>4 DEF Agent, Announce, Emit, Deadline, StopLine, AgentDies
  <2>5. CASE Environment
    BY <2>5 DEF Environment, Deliver, Noise, ClientEnds, NetworkCut
  <2> QED
    BY <2>2, <2>3, <2>4, <2>5 DEF Next
<1> QED
  BY <1>1, ProbeInvariance, PTL DEF Spec, FinalOnceStopped
=============================================================================
