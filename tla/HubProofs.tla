------------------------------ MODULE HubProofs ------------------------------
(* Proofs about the message hub, for any stations, numbers of messages,     *)
(* modulus and gap: new readings pass, repeated ones are dropped.  The      *)
(* argument follows the readings of one station from the radio network      *)
(* through the queue to the last one that was passed on: each is the one    *)
(* before it or a few readings on, and so is its number.                    *)
EXTENDS Hub, SequenceTheorems, TLAPS

Number == 0 .. MODULUS - 1

\* The numbers, and the test for a new one.
LEMMA NumberFacts ==
    ASSUME NEW no \in Number, NEW d \in Nat
    PROVE  /\ Later(no, d) \in Number
           /\ d = 0 => Later(no, d) = no
  BY FilterAssumption DEF Number, Later

LEMMA FilterFacts ==
    ASSUME NEW no \in Number, NEW d \in 0 .. LOSSES + 1, NEW age \in 0 .. AGE + 1
    PROVE  /\ d > 0 => IsNew(no, Later(no, d), age)
           /\ age <= AGE => ~IsNew(no, no, age)
<1>1. /\ MODULUS \in Int /\ GAP \in Int /\ 0 <= GAP /\ AGE \in Int
      /\ LOSSES \in Int /\ d < MODULUS - GAP
  BY FilterAssumption, HubAssumption, LossAssumption
<1>2. ASSUME d > 0, no + d < MODULUS PROVE IsNew(no, Later(no, d), age)
  <2>1. Later(no, d) = no + d
    BY <1>2, FilterAssumption DEF Later, Number
  <2> QED BY <1>2, <2>1 DEF IsNew, Number
<1>3. ASSUME d > 0, no + d >= MODULUS PROVE IsNew(no, Later(no, d), age)
  <2>1. Later(no, d) = no + d - MODULUS
    BY <1>1, <1>3, FilterAssumption DEF Later, Number
  <2> QED BY <1>1, <1>3, <2>1 DEF IsNew, Number
<1>4. age <= AGE => ~IsNew(no, no, age)
  BY <1>1 DEF IsNew, Number
<1> QED BY <1>1, <1>2, <1>3, <1>4 DEF Number

----------------------------------------------------------------------------
(* The messages on their way.                                               *)

Packet == [kind : {"reading"}, station : Station, no : Number, n : Nat, life : Nat]
          \cup [kind : Kinds]

HubTypes ==
    /\ inbox \in Seq(Packet)
    /\ sent \in [Station -> [n : Nat, no : Number, life : Nat, any : BOOLEAN]]
    /\ \A s \in Station : sent[s].any => sent[s].n > 0
    /\ lastSeen \in [Station -> [no : Number \cup {-1}, age : 0 .. AGE + 1]]
    /\ \A s \in Station : lastSeen[s].no = -1 => lastSeen[s] = Never
    /\ history.passed \in [Station -> [n : Nat, life : Nat]]
    /\ DOMAIN history = {"passed", "failures"}

\* Position i holds a reading of s.
IsOf(i, s) == inbox[i].kind = "reading" /\ inbox[i].station = s

\* The last reading of s that was passed on, once there is one.
Last(s) == [n |-> history.passed[s].n, no |-> lastSeen[s].no,
            life |-> history.passed[s].life]

\* b is the next reading of a station that was published after a, or a again:
\* of a later life, or of the same and at most so many readings on.
Follows(a, b) ==
    /\ a.life <= b.life /\ a.n <= b.n
    /\ a.life < b.life => a.n < b.n
    /\ a.life = b.life => b.n - a.n <= LOSSES + 1 /\ b.no = Later(a.no, b.n - a.n)

\* a is the last reading that the station has sent, or the first after it was
\* restarted is still to come.
Ends(a, x) ==
    /\ a.life <= x.life /\ a.n <= x.n
    /\ a.life < x.life /\ x.any => a.n < x.n
    /\ a.life = x.life => a.n = x.n /\ a.no = x.no

\* The readings of a station follow one another through the queue, the last one
\* is what the station sent last, ...
Chain ==
    \A s \in Station :
       /\ \A i, j \in 1 .. Len(inbox) :
             /\ i < j /\ IsOf(i, s) /\ IsOf(j, s)
             /\ \A k \in i + 1 .. j - 1 : ~IsOf(k, s)
             => Follows(inbox[i], inbox[j])
       /\ \A i \in 1 .. Len(inbox) :
             /\ IsOf(i, s) /\ \A k \in i + 1 .. Len(inbox) : ~IsOf(k, s)
             => Ends(inbox[i], sent[s])

\* ... and the first one follows what was passed on, until there is an exception.
FirstFollows(s) ==
    IF lastSeen[s] = Never
    THEN /\ history.passed[s] = [n |-> 0, life |-> 0]
         /\ \A i \in 1 .. Len(inbox) : IsOf(i, s) => inbox[i].n > 0
    ELSE /\ \A i \in 1 .. Len(inbox) :
               IsOf(i, s) /\ (\A k \in 1 .. i - 1 : ~IsOf(k, s)) => Follows(Last(s), inbox[i])
         /\ (\A i \in 1 .. Len(inbox) : ~IsOf(i, s)) => Ends(Last(s), sent[s])

Connected == running => \A s \in Station : FirstFollows(s)

HubInv == HubTypes /\ Chain /\ Connected

LEMMA HubInit == Init => HubInv
<1> SUFFICES ASSUME Init PROVE HubInv
  OBVIOUS
<1>1. inbox = <<>> /\ Len(inbox) = 0 /\ inbox \in Seq(Packet)
  BY EmptySeq DEF Init
<1>2. 0 \in Number /\ 0 \in 0 .. AGE + 1
  BY FilterAssumption DEF Number
<1>3. /\ sent = [s \in Station |-> [n |-> 0, no |-> 0, life |-> 0, any |-> FALSE]]
      /\ lastSeen = [s \in Station |-> Never]
      /\ history = [passed |-> [s \in Station |-> [n |-> 0, life |-> 0]], failures |-> 0]
  BY DEF Init, NothingSent
<1>4. sent \in [Station -> [n : Nat, no : Number, life : Nat, any : BOOLEAN]]
  BY <1>2, <1>3
<1>5. lastSeen \in [Station -> [no : Number \cup {-1}, age : 0 .. AGE + 1]]
  BY <1>2, <1>3 DEF Never
<1>6. HubTypes
  BY <1>1, <1>3, <1>4, <1>5 DEF HubTypes
<1>7. Chain
  BY <1>1 DEF Chain
<1>8. Connected
  BY <1>1, <1>3 DEF Connected, FirstFollows
<1> QED BY <1>6, <1>7, <1>8 DEF HubInv

----------------------------------------------------------------------------
(* The queue.                                                               *)

LEMMA AppendFacts ==
    ASSUME NEW m \in Packet, inbox \in Seq(Packet), inbox' = Append(inbox, m)
    PROVE  /\ inbox' \in Seq(Packet) /\ Len(inbox) \in Nat /\ Len(inbox') = Len(inbox) + 1
           /\ \A i \in 1 .. Len(inbox) : inbox'[i] = inbox[i]
           /\ inbox'[Len(inbox) + 1] = m
<1>1. Len(inbox) \in Nat
  BY LenProperties
<1>2. inbox' \in Seq(Packet) /\ Len(inbox') = Len(inbox) + 1
  OBVIOUS
<1>3. \A i \in 1 .. Len(inbox) : inbox'[i] = inbox[i]
  OBVIOUS
<1>4. inbox'[Len(inbox) + 1] = m
  OBVIOUS
<1> QED BY <1>1, <1>2, <1>3, <1>4

LEMMA TailFacts ==
    ASSUME inbox \in Seq(Packet), inbox # <<>>, inbox' = Tail(inbox)
    PROVE  /\ inbox' \in Seq(Packet) /\ Len(inbox) \in Nat \ {0}
           /\ Len(inbox') = Len(inbox) - 1 /\ Head(inbox) = inbox[1]
           /\ inbox[1] \in Packet
           /\ \A i \in 1 .. Len(inbox) - 1 : inbox'[i] = inbox[i + 1]
  BY HeadTailProperties, EmptySeq

\* Positions and members.
LEMMA PacketFacts ==
    ASSUME inbox \in Seq(Packet), NEW i \in 1 .. Len(inbox), NEW s \in Station, IsOf(i, s)
    PROVE  inbox[i] \in [kind : {"reading"}, station : Station, no : Number, n : Nat,
                         life : Nat]
<1>1. inbox[i] \in Packet
  BY ElementOfSeq
<1>2. "reading" \notin Kinds
  BY DEF Kinds
<1> QED BY <1>1, <1>2 DEF Packet, IsOf

\* What the properties of a chain need of readings, and of Last and sent.
Link(a) == a.n \in Nat /\ a.no \in Number /\ a.life \in Nat

LEMMA Links ==
    ASSUME HubTypes, NEW s \in Station
    PROVE  /\ \A i \in 1 .. Len(inbox) : IsOf(i, s) => Link(inbox[i])
           /\ Link(sent[s])
           /\ lastSeen[s] # Never => Link(Last(s))
<1>1. \A i \in 1 .. Len(inbox) : IsOf(i, s) => Link(inbox[i])
  BY PacketFacts DEF HubTypes, Link
<1>2. Link(sent[s])
  BY DEF HubTypes, Link
<1>3. lastSeen[s] # Never => Link(Last(s))
  BY DEF HubTypes, Link, Last
<1> QED BY <1>1, <1>2, <1>3

----------------------------------------------------------------------------
(* A message that is published.                                             *)

\* Anything but a reading.
LEMMA OtherAppended ==
    ASSUME HubInv, NEW m \in Packet, m.kind # "reading", inbox' = Append(inbox, m),
           UNCHANGED <<sent, lastSeen, history, running>>
    PROVE  HubInv'
<1>0. PICK L \in Nat : L = Len(inbox)
  BY LenProperties DEF HubInv, HubTypes
<1>1. /\ inbox' \in Seq(Packet) /\ Len(inbox') = L + 1
      /\ \A i \in 1 .. L : inbox'[i] = inbox[i]
      /\ inbox'[L + 1] = m
  BY <1>0, AppendFacts DEF HubInv, HubTypes
<1>2. HubTypes'
  BY <1>1 DEF HubInv, HubTypes
<1>3. ASSUME NEW s \in Station
      PROVE  /\ \A i \in 1 .. L : IsOf(i, s)' <=> IsOf(i, s)
             /\ ~IsOf(L + 1, s)'
  BY <1>0, <1>1 DEF IsOf
<1>4. Chain'
  <2> SUFFICES ASSUME NEW s \in Station
               PROVE  /\ \A i, j \in 1 .. L + 1 :
                            /\ i < j /\ IsOf(i, s)' /\ IsOf(j, s)'
                            /\ \A k \in i + 1 .. j - 1 : ~IsOf(k, s)'
                            => Follows(inbox'[i], inbox'[j])
                      /\ \A i \in 1 .. L + 1 :
                            /\ IsOf(i, s)' /\ \A k \in i + 1 .. L + 1 : ~IsOf(k, s)'
                            => Ends(inbox'[i], sent[s])
    BY <1>0, <1>1 DEF Chain
  <2>1. ASSUME NEW i \in 1 .. L + 1, NEW j \in 1 .. L + 1, i < j, IsOf(i, s)', IsOf(j, s)',
               \A k \in i + 1 .. j - 1 : ~IsOf(k, s)'
        PROVE  Follows(inbox'[i], inbox'[j])
    <3>1. i \in 1 .. L /\ j \in 1 .. L
      BY <1>1, <1>3, <2>1
    <3>2. \A k \in i + 1 .. j - 1 : ~IsOf(k, s)
      BY <1>1, <1>3, <2>1, <3>1
    <3> QED BY <1>0, <1>1, <1>3, <2>1, <3>1, <3>2 DEF HubInv, Chain
  <2>2. ASSUME NEW i \in 1 .. L + 1, IsOf(i, s)', \A k \in i + 1 .. L + 1 : ~IsOf(k, s)'
        PROVE  Ends(inbox'[i], sent[s])
    <3>1. i \in 1 .. L
      BY <1>1, <1>3, <2>2
    <3>2. \A k \in i + 1 .. L : ~IsOf(k, s)
      BY <1>1, <1>3, <2>2, <3>1
    <3> QED BY <1>0, <1>1, <1>3, <2>2, <3>1, <3>2 DEF HubInv, Chain
  <2> QED BY <2>1, <2>2
<1>5. Connected'
  <2> SUFFICES ASSUME running, NEW s \in Station PROVE FirstFollows(s)'
    BY DEF Connected
  <2>1. FirstFollows(s)
    BY DEF HubInv, Connected
  <2>2. CASE lastSeen[s] = Never
    BY <1>0, <1>1, <1>3, <2>1, <2>2 DEF FirstFollows
  <2>3. CASE lastSeen[s] # Never
    <3>1. ASSUME NEW i \in 1 .. L + 1, IsOf(i, s)', \A k \in 1 .. i - 1 : ~IsOf(k, s)'
          PROVE  Follows(Last(s), inbox'[i])
      <4>1. i \in 1 .. L
        BY <1>1, <1>3, <3>1
      <4>2. \A k \in 1 .. i - 1 : ~IsOf(k, s)
        BY <1>1, <1>3, <3>1, <4>1
      <4> QED BY <1>0, <1>1, <1>3, <2>1, <2>3, <3>1, <4>1, <4>2 DEF FirstFollows
    <3>2. ASSUME \A i \in 1 .. L + 1 : ~IsOf(i, s)' PROVE Ends(Last(s), sent[s])
      BY <1>0, <1>1, <1>3, <2>1, <2>3, <3>2 DEF FirstFollows
    <3> QED BY <1>0, <1>1, <2>3, <3>1, <3>2 DEF FirstFollows, Last
  <2> QED BY <2>2, <2>3
<1> QED BY <1>2, <1>4, <1>5 DEF HubInv

\* A reading, one that follows whatever ends at what its station sent before.
LEMMA ReadingAppended ==
    ASSUME HubInv, NEW z \in Station, NEW m \in Packet, m.kind = "reading", m.station = z,
           NEW x \in [n : Nat, no : Number, life : Nat, any : BOOLEAN],
           inbox' = Append(inbox, m), sent' = [sent EXCEPT ![z] = x],
           UNCHANGED <<lastSeen, history, running>>,
           m.n > 0, x.n > 0, Ends(m, x),
           \A a : Link(a) /\ Ends(a, sent[z]) => Follows(a, m)
    PROVE  HubInv'
<1>0. PICK L \in Nat : L = Len(inbox)
  BY LenProperties DEF HubInv, HubTypes
<1>1. /\ inbox' \in Seq(Packet) /\ Len(inbox') = L + 1
      /\ \A i \in 1 .. L : inbox'[i] = inbox[i]
      /\ inbox'[L + 1] = m
  BY <1>0, AppendFacts DEF HubInv, HubTypes
<1>2. \A s \in Station : sent'[s] = IF s = z THEN x ELSE sent[s]
  BY DEF HubInv, HubTypes
<1>3. HubTypes'
  BY <1>1, <1>2 DEF HubInv, HubTypes
<1>4. ASSUME NEW s \in Station
      PROVE  /\ \A i \in 1 .. L : IsOf(i, s)' <=> IsOf(i, s)
             /\ IsOf(L + 1, s)' <=> s = z
  BY <1>0, <1>1 DEF IsOf
<1>5. Chain'
  <2> SUFFICES ASSUME NEW s \in Station
               PROVE  /\ \A i, j \in 1 .. L + 1 :
                            /\ i < j /\ IsOf(i, s)' /\ IsOf(j, s)'
                            /\ \A k \in i + 1 .. j - 1 : ~IsOf(k, s)'
                            => Follows(inbox'[i], inbox'[j])
                      /\ \A i \in 1 .. L + 1 :
                            /\ IsOf(i, s)' /\ \A k \in i + 1 .. L + 1 : ~IsOf(k, s)'
                            => Ends(inbox'[i], sent'[s])
    BY <1>0, <1>1 DEF Chain
  <2>1. ASSUME NEW i \in 1 .. L + 1, NEW j \in 1 .. L + 1, i < j, IsOf(i, s)', IsOf(j, s)',
               \A k \in i + 1 .. j - 1 : ~IsOf(k, s)'
        PROVE  Follows(inbox'[i], inbox'[j])
    <3>0. i \in 1 .. L /\ IsOf(i, s) /\ \A k \in i + 1 .. j - 1 : ~IsOf(k, s)
      BY <1>1, <1>4, <2>1
    <3>1. CASE j \in 1 .. L
      BY <1>0, <1>1, <1>4, <2>1, <3>0, <3>1 DEF HubInv, Chain
    <3>2. CASE j = L + 1
      <4>1. s = z
        BY <1>4, <2>1, <3>2
      <4>2. Ends(inbox[i], sent[z])
        BY <1>0, <1>1, <3>0, <3>2, <4>1 DEF HubInv, Chain
      <4>3. Link(inbox[i])
        BY <1>0, <3>0, Links DEF HubInv
      <4> QED BY <1>1, <3>0, <3>2, <4>2, <4>3
    <3> QED BY <1>1, <3>1, <3>2
  <2>2. ASSUME NEW i \in 1 .. L + 1, IsOf(i, s)', \A k \in i + 1 .. L + 1 : ~IsOf(k, s)'
        PROVE  Ends(inbox'[i], sent'[s])
    <3>1. CASE i = L + 1
      BY <1>1, <1>2, <1>4, <2>2, <3>1
    <3>2. CASE i \in 1 .. L
      <4>1. s # z
        BY <1>1, <1>4, <2>2, <3>2
      <4>2. \A k \in i + 1 .. L : ~IsOf(k, s)
        BY <1>1, <1>4, <2>2, <3>2
      <4> QED BY <1>0, <1>1, <1>2, <1>4, <2>2, <3>2, <4>1, <4>2 DEF HubInv, Chain
    <3> QED BY <1>1, <3>1, <3>2
  <2> QED BY <2>1, <2>2
<1>6. Connected'
  <2> SUFFICES ASSUME running, NEW s \in Station PROVE FirstFollows(s)'
    BY DEF Connected
  <2>1. FirstFollows(s)
    BY DEF HubInv, Connected
  <2>2. CASE lastSeen[s] = Never
    <3>1. \A i \in 1 .. L + 1 : IsOf(i, s)' => inbox'[i].n > 0
      <4> SUFFICES ASSUME NEW i \in 1 .. L + 1, IsOf(i, s)' PROVE inbox'[i].n > 0
        OBVIOUS
      <4>1. CASE i \in 1 .. L
        BY <1>0, <1>1, <1>4, <2>1, <2>2, <4>1 DEF FirstFollows
      <4>2. CASE i = L + 1
        BY <1>1, <4>2
      <4> QED BY <1>1, <4>1, <4>2
    <3> QED BY <1>0, <1>1, <2>1, <2>2, <3>1 DEF FirstFollows
  <2>3. CASE lastSeen[s] # Never
    <3>1. ASSUME NEW i \in 1 .. L + 1, IsOf(i, s)', \A k \in 1 .. i - 1 : ~IsOf(k, s)'
          PROVE  Follows(Last(s), inbox'[i])
      <4>1. \A k \in 1 .. i - 1 : ~IsOf(k, s)
        BY <1>1, <1>4, <3>1
      <4>2. CASE i \in 1 .. L
        BY <1>0, <1>1, <1>4, <2>1, <2>3, <3>1, <4>1, <4>2 DEF FirstFollows
      <4>3. CASE i = L + 1
        <5>1. s = z
          BY <1>4, <3>1, <4>3
        <5>2. Ends(Last(s), sent[s])
          BY <1>0, <1>1, <2>1, <2>3, <4>1, <4>3 DEF FirstFollows
        <5>3. Link(Last(s))
          BY <2>3, Links DEF HubInv
        <5> QED BY <1>1, <4>3, <5>1, <5>2, <5>3
      <4> QED BY <1>1, <4>2, <4>3
    <3>2. ASSUME \A i \in 1 .. L + 1 : ~IsOf(i, s)' PROVE Ends(Last(s), sent'[s])
      <4>1. s # z /\ \A i \in 1 .. L : ~IsOf(i, s)
        BY <1>1, <1>4, <3>2
      <4> QED BY <1>0, <1>2, <2>1, <2>3, <4>1 DEF FirstFollows
    <3> QED BY <1>0, <1>1, <2>3, <3>1, <3>2 DEF FirstFollows, Last
  <2> QED BY <2>2, <2>3
<1> QED BY <1>3, <1>5, <1>6 DEF HubInv

----------------------------------------------------------------------------
(* A message that is taken.                                                 *)

\* The positions behind the head: the chain there, the first reading of s and
\* what the last one is, whether or not the head is of s.
LEMMA TailChain ==
    ASSUME HubInv, inbox # <<>>, inbox' = Tail(inbox), UNCHANGED sent
    PROVE  /\ Chain'
           /\ \A s \in Station : \A i \in 1 .. Len(inbox') :
                 IsOf(i, s)' /\ (\A k \in 1 .. i - 1 : ~IsOf(k, s)')
                 => IF IsOf(1, s) THEN Follows(inbox[1], inbox'[i])
                    ELSE i + 1 \in 1 .. Len(inbox) /\ IsOf(i + 1, s)
                         /\ (\A k \in 1 .. (i + 1) - 1 : ~IsOf(k, s))
           /\ \A s \in Station :
                 (\A i \in 1 .. Len(inbox') : ~IsOf(i, s)')
                 => IF IsOf(1, s) THEN Ends(inbox[1], sent[s])
                    ELSE \A i \in 1 .. Len(inbox) : ~IsOf(i, s)
<1>0. PICK L \in Nat \ {0} : L = Len(inbox)
  BY TailFacts DEF HubInv, HubTypes
<1>1. /\ Len(inbox') = L - 1
      /\ \A i \in 1 .. L - 1 : inbox'[i] = inbox[i + 1]
  BY <1>0, TailFacts DEF HubInv, HubTypes
<1>2. ASSUME NEW s \in Station, NEW i \in 1 .. L - 1 PROVE IsOf(i, s)' <=> IsOf(i + 1, s)
  BY <1>1 DEF IsOf
<1>3. ASSUME NEW s \in Station, NEW i \in 0 .. L - 1, NEW j \in 1 .. L,
             \A k \in i + 1 .. j - 1 : ~IsOf(k, s)', j - 1 <= L - 1
      PROVE  \A k \in i + 2 .. j : ~IsOf(k, s)
  <2> SUFFICES ASSUME NEW k \in i + 2 .. j PROVE ~IsOf(k, s)
    OBVIOUS
  <2>1. k - 1 \in i + 1 .. j - 1 /\ k - 1 \in 1 .. L - 1 /\ (k - 1) + 1 = k
    OBVIOUS
  <2>2. ~IsOf(k - 1, s)'
    BY <1>3, <2>1
  <2> QED BY <1>2, <2>1, <2>2
<1>4. Chain'
  <2> SUFFICES ASSUME NEW s \in Station
               PROVE  /\ \A i, j \in 1 .. L - 1 :
                            /\ i < j /\ IsOf(i, s)' /\ IsOf(j, s)'
                            /\ \A k \in i + 1 .. j - 1 : ~IsOf(k, s)'
                            => Follows(inbox'[i], inbox'[j])
                      /\ \A i \in 1 .. L - 1 :
                            /\ IsOf(i, s)' /\ \A k \in i + 1 .. L - 1 : ~IsOf(k, s)'
                            => Ends(inbox'[i], sent[s])
    BY <1>0, <1>1 DEF Chain
  <2>1. ASSUME NEW i \in 1 .. L - 1, NEW j \in 1 .. L - 1, i < j, IsOf(i, s)', IsOf(j, s)',
               \A k \in i + 1 .. j - 1 : ~IsOf(k, s)'
        PROVE  Follows(inbox'[i], inbox'[j])
    <3>1. i + 1 \in 1 .. L /\ j + 1 \in 1 .. L /\ i + 1 < j + 1
      BY <2>1
    <3>2. IsOf(i + 1, s) /\ IsOf(j + 1, s)
      BY <1>2, <2>1
    <3>3. \A k \in (i + 1) + 1 .. (j + 1) - 1 : ~IsOf(k, s)
      <4>1. /\ i \in 0 .. L - 1 /\ j \in 1 .. L /\ j - 1 <= L - 1
            /\ \A k \in i + 1 .. j - 1 : ~IsOf(k, s)'
        BY <2>1
      <4>2. \A k \in i + 2 .. j : ~IsOf(k, s)
        BY <1>3, <4>1
      <4> QED BY <4>2
    <3>4. Follows(inbox[i + 1], inbox[j + 1])
      BY <1>0, <3>1, <3>2, <3>3 DEF HubInv, Chain
    <3> QED BY <1>1, <3>4
  <2>2. ASSUME NEW i \in 1 .. L - 1, IsOf(i, s)', \A k \in i + 1 .. L - 1 : ~IsOf(k, s)'
        PROVE  Ends(inbox'[i], sent[s])
    <3>1. i + 1 \in 1 .. L /\ IsOf(i + 1, s)
      BY <1>2, <2>2
    <3>2. \A k \in (i + 1) + 1 .. L : ~IsOf(k, s)
      <4>1. /\ i \in 0 .. L - 1 /\ L \in 1 .. L /\ L - 1 <= L - 1
            /\ \A k \in i + 1 .. L - 1 : ~IsOf(k, s)'
        BY <2>2
      <4>2. \A k \in i + 2 .. L : ~IsOf(k, s)
        BY <1>3, <4>1
      <4> QED BY <4>2
    <3>3. Ends(inbox[i + 1], sent[s])
      BY <1>0, <3>1, <3>2 DEF HubInv, Chain
    <3> QED BY <1>1, <3>3
  <2> QED BY <2>1, <2>2
<1>5. ASSUME NEW s \in Station, NEW i \in 1 .. L - 1, IsOf(i, s)',
             \A k \in 1 .. i - 1 : ~IsOf(k, s)'
      PROVE  IF IsOf(1, s) THEN Follows(inbox[1], inbox'[i])
             ELSE i + 1 \in 1 .. L /\ IsOf(i + 1, s)
                  /\ (\A k \in 1 .. (i + 1) - 1 : ~IsOf(k, s))
  <2>1. i + 1 \in 1 .. L /\ 1 \in 1 .. L /\ 1 < i + 1 /\ IsOf(i + 1, s)
    BY <1>2, <1>5
  <2>2. \A k \in 2 .. i : ~IsOf(k, s)
    <3>1. 0 \in 0 .. L - 1 /\ i \in 1 .. L /\ i - 1 <= L - 1
      OBVIOUS
    <3>2. \A k \in 0 + 1 .. i - 1 : ~IsOf(k, s)'
      BY <1>5
    <3>3. \A k \in 0 + 2 .. i : ~IsOf(k, s)
      BY <1>3, <3>1, <3>2
    <3> QED BY <3>3
  <2>3. CASE IsOf(1, s)
    <3>1. \A k \in 1 + 1 .. (i + 1) - 1 : ~IsOf(k, s)
      BY <2>2
    <3>2. Follows(inbox[1], inbox[i + 1])
      BY <1>0, <2>1, <2>3, <3>1 DEF HubInv, Chain
    <3> QED BY <1>1, <2>3, <3>2
  <2>4. CASE ~IsOf(1, s)
    <3>1. \A k \in 1 .. (i + 1) - 1 : k = 1 \/ k \in 2 .. i
      OBVIOUS
    <3> QED BY <2>1, <2>2, <2>4, <3>1
  <2> QED BY <2>3, <2>4
<1>6. ASSUME NEW s \in Station, \A i \in 1 .. L - 1 : ~IsOf(i, s)'
      PROVE  IF IsOf(1, s) THEN Ends(inbox[1], sent[s]) ELSE \A i \in 1 .. L : ~IsOf(i, s)
  <2>1. \A k \in 2 .. L : ~IsOf(k, s)
    <3> SUFFICES ASSUME NEW k \in 2 .. L PROVE ~IsOf(k, s)
      OBVIOUS
    <3>1. k - 1 \in 1 .. L - 1 /\ (k - 1) + 1 = k
      OBVIOUS
    <3> QED BY <1>2, <1>6, <3>1
  <2>2. CASE IsOf(1, s)
    <3>1. 1 \in 1 .. L /\ \A k \in 1 + 1 .. L : ~IsOf(k, s)
      BY <2>1
    <3> QED BY <1>0, <2>2, <3>1 DEF HubInv, Chain
  <2>3. CASE ~IsOf(1, s)
    <3>1. \A k \in 1 .. L : k = 1 \/ k \in 2 .. L
      OBVIOUS
    <3> QED BY <2>1, <2>3, <3>1
  <2> QED BY <2>2, <2>3
<1> QED BY <1>0, <1>1, <1>4, <1>5, <1>6

\* A station whose readings were not touched.
LEMMA OthersFollow ==
    ASSUME HubInv, running, inbox # <<>>, inbox' = Tail(inbox), UNCHANGED sent,
           NEW s \in Station, ~IsOf(1, s), lastSeen'[s] = lastSeen[s],
           history'.passed[s] = history.passed[s]
    PROVE  FirstFollows(s)'
<1>0. PICK L \in Nat \ {0} : L = Len(inbox)
  BY TailFacts DEF HubInv, HubTypes
<1>1. /\ Len(inbox') = L - 1
      /\ \A i \in 1 .. L - 1 : inbox'[i] = inbox[i + 1]
  BY <1>0, TailFacts DEF HubInv, HubTypes
<1>2. FirstFollows(s) /\ Last(s)' = Last(s)
  BY DEF HubInv, Connected, Last
<1>3. CASE lastSeen[s] = Never
  <2>1. ASSUME NEW i \in 1 .. L - 1, IsOf(i, s)' PROVE inbox'[i].n > 0
    <3>1. i + 1 \in 1 .. L /\ inbox'[i] = inbox[i + 1] /\ IsOf(i + 1, s)
      BY <1>1, <2>1 DEF IsOf
    <3> QED BY <1>0, <1>2, <1>3, <3>1 DEF FirstFollows
  <2> QED BY <1>0, <1>1, <1>2, <1>3, <2>1 DEF FirstFollows
<1>4. CASE lastSeen[s] # Never
  <2>1. ASSUME NEW i \in 1 .. L - 1, IsOf(i, s)', \A k \in 1 .. i - 1 : ~IsOf(k, s)'
        PROVE  Follows(Last(s), inbox'[i])
    <3>1. /\ i + 1 \in 1 .. L /\ IsOf(i + 1, s)
          /\ \A k \in 1 .. (i + 1) - 1 : ~IsOf(k, s)
      BY <1>0, <1>1, <2>1, TailChain
    <3> QED BY <1>0, <1>1, <1>2, <1>4, <3>1 DEF FirstFollows
  <2>2. ASSUME \A i \in 1 .. L - 1 : ~IsOf(i, s)' PROVE Ends(Last(s), sent[s])
    <3>1. \A i \in 1 .. L : ~IsOf(i, s)
      BY <1>0, <1>1, <2>2, TailChain
    <3> QED BY <1>0, <1>2, <1>4, <3>1 DEF FirstFollows
  <2> QED BY <1>0, <1>1, <1>2, <1>4, <2>1, <2>2 DEF FirstFollows
<1> QED BY <1>3, <1>4

\* The head, a reading of s, and what follows it, when Last has become as good
\* as the head.
LEMMA HeadFollows ==
    ASSUME HubInv, inbox # <<>>, inbox' = Tail(inbox), UNCHANGED sent,
           NEW s \in Station, IsOf(1, s), lastSeen'[s] # Never,
           \A b : Link(b) /\ Follows(inbox[1], b) => Follows(Last(s)', b),
           Ends(inbox[1], sent[s]) => Ends(Last(s)', sent[s])
    PROVE  FirstFollows(s)'
<1>0. PICK L \in Nat \ {0} : L = Len(inbox)
  BY TailFacts DEF HubInv, HubTypes
<1>1. /\ Len(inbox') = L - 1
      /\ \A i \in 1 .. L - 1 : inbox'[i] = inbox[i + 1]
  BY <1>0, TailFacts DEF HubInv, HubTypes
<1>2. ASSUME NEW i \in 1 .. L - 1, IsOf(i, s)', \A k \in 1 .. i - 1 : ~IsOf(k, s)'
      PROVE  Follows(Last(s)', inbox'[i])
  <2>1. Follows(inbox[1], inbox'[i])
    BY <1>0, <1>1, <1>2, TailChain
  <2>2. i + 1 \in 1 .. L /\ IsOf(i + 1, s) /\ inbox'[i] = inbox[i + 1]
    BY <1>1, <1>2 DEF IsOf
  <2>3. Link(inbox'[i])
    BY <1>0, <2>2, Links DEF HubInv
  <2> QED BY <2>1, <2>3
<1>3. ASSUME \A i \in 1 .. L - 1 : ~IsOf(i, s)' PROVE Ends(Last(s)', sent[s])
  BY <1>0, <1>1, <1>3, TailChain
<1> QED BY <1>0, <1>1, <1>2, <1>3 DEF FirstFollows

\* A reading that is dropped leaves Last as good as it is itself.
LEMMA Dropped ==
    ASSUME NEW a, NEW m, NEW age \in 0 .. AGE + 1,
           Link(a), Link(m), Follows(a, m), ~IsNew(a.no, m.no, age)
    PROVE  /\ \A b : Link(b) /\ Follows(m, b) => Follows(a, b)
           /\ \A x : Link(x) /\ Ends(m, x) => Ends(a, x)
<1>1. CASE a.life < m.life
  BY <1>1 DEF Follows, Ends, Link
<1>2. CASE a.life = m.life
  <2>1. m.n - a.n \in 0 .. LOSSES + 1 /\ m.no = Later(a.no, m.n - a.n)
    BY <1>2, HubAssumption DEF Follows, Link
  <2>2. m.n - a.n = 0
    BY <2>1, FilterFacts DEF Link
  <2>3. m.n = a.n /\ m.no = a.no
    BY <2>1, <2>2, NumberFacts DEF Link
  <2> QED BY <1>2, <2>3 DEF Follows, Ends, Link
<1> QED BY <1>1, <1>2 DEF Follows, Link

LEMMA ReceiveStep == HubInv /\ Receive => HubInv'
<1> SUFFICES ASSUME HubInv, Receive PROVE HubInv'
  OBVIOUS
<1>0. inbox # <<>> /\ inbox' = Tail(inbox) /\ UNCHANGED sent /\ HubTypes
  BY DEF Receive, HubInv
<1>1. PICK m : m = inbox[1]
  OBVIOUS
<1>2. m \in Packet /\ Head(inbox) = m /\ inbox' \in Seq(Packet) /\ 1 \in 1 .. Len(inbox)
  BY <1>0, <1>1, TailFacts DEF HubTypes
<1>3. PICK raises \in BOOLEAN :
         IF m.kind = "reading" THEN Reading(m, raises) ELSE Other(m, raises)
  BY <1>2 DEF Receive
<1>4. CASE m.kind # "reading"
  <2>1. UNCHANGED <<lastSeen, history>> /\ (running' => running)
    BY <1>3, <1>4 DEF Other
  <2>2. HubTypes'
    BY <1>0, <1>2, <2>1 DEF HubTypes
  <2>3. Connected'
    <3> SUFFICES ASSUME running', NEW s \in Station PROVE FirstFollows(s)'
      BY DEF Connected
    <3>1. ~IsOf(1, s)
      BY <1>1, <1>4 DEF IsOf
    <3> QED BY <1>0, <2>1, <3>1, OthersFollow
  <2> QED BY <1>0, <2>2, <2>3, TailChain DEF HubInv
<1>5. CASE m.kind = "reading"
  <2>0. PICK z \in Station : z = m.station
    BY <1>2, <1>5 DEF Packet, Kinds
  <2>1. IsOf(1, z) /\ \A s \in Station : s # z => ~IsOf(1, s)
    BY <1>1, <1>5, <2>0 DEF IsOf
  <2>2. m.no \in Number /\ m.n \in Nat /\ m.life \in Nat /\ Link(m)
    BY <1>0, <1>1, <1>2, <2>1, PacketFacts DEF HubTypes, Link
  <2>3. PICK last : last = lastSeen[z]
    OBVIOUS
  <2>4. CASE last = Never \/ IsNew(last.no, m.no, last.age)
    <3>1. /\ \/ lastSeen' = [lastSeen EXCEPT ![z] = [no |-> m.no, age |-> 0]]
             \/ UNCHANGED lastSeen /\ ~running'
          /\ history' = [history EXCEPT !.passed[z] = [n |-> m.n, life |-> m.life]]
          /\ running' => running
      BY <1>3, <1>5, <2>0, <2>3, <2>4 DEF Reading, Seen
    <3>2. HubTypes'
      <4>1. 0 \in 0 .. AGE + 1 /\ m.no # -1
        BY <2>2, FilterAssumption DEF Number
      <4>2. /\ lastSeen' \in [Station -> [no : Number \cup {-1}, age : 0 .. AGE + 1]]
            /\ \A s \in Station : lastSeen'[s].no = -1 => lastSeen'[s] = Never
        <5>1. [no |-> m.no, age |-> 0] \in [no : Number \cup {-1}, age : 0 .. AGE + 1]
          BY <2>2, <4>1
        <5>2. CASE lastSeen' = [lastSeen EXCEPT ![z] = [no |-> m.no, age |-> 0]]
          <6>1. \A s \in Station :
                   lastSeen'[s] = IF s = z THEN [no |-> m.no, age |-> 0] ELSE lastSeen[s]
            BY <1>0, <5>2 DEF HubTypes
          <6>2. \A s \in Station : lastSeen'[s].no = -1 => lastSeen'[s] = Never
            <7>1. [no |-> m.no, age |-> 0].no # -1
              BY <4>1
            <7> QED BY <1>0, <6>1, <7>1 DEF HubTypes
          <6> QED BY <1>0, <5>1, <5>2, <6>2 DEF HubTypes
        <5> QED BY <1>0, <3>1, <5>2 DEF HubTypes
      <4>3. /\ history'.passed \in [Station -> [n : Nat, life : Nat]]
            /\ DOMAIN history' = {"passed", "failures"}
        BY <1>0, <2>2, <3>1 DEF HubTypes
      <4> QED BY <1>0, <1>2, <4>2, <4>3 DEF HubTypes
    <3>3. Connected'
      <4> SUFFICES ASSUME running', NEW s \in Station PROVE FirstFollows(s)'
        BY DEF Connected
      <4>1. running /\ lastSeen' = [lastSeen EXCEPT ![z] = [no |-> m.no, age |-> 0]]
        BY <3>1
      <4>2. CASE s # z
        <5>1. lastSeen'[s] = lastSeen[s] /\ history'.passed[s] = history.passed[s]
          BY <1>0, <3>1, <4>1, <4>2 DEF HubTypes
        <5> QED BY <1>0, <2>1, <4>1, <4>2, <5>1, OthersFollow
      <4>3. CASE s = z
        <5>1. /\ lastSeen'[s] = [no |-> m.no, age |-> 0]
              /\ history'.passed[s] = [n |-> m.n, life |-> m.life]
          BY <1>0, <3>1, <4>1, <4>3 DEF HubTypes
        <5>2. lastSeen'[s] # Never
          BY <2>2, <5>1, FilterAssumption DEF Number, Never
        <5>3. Last(s)' = [n |-> m.n, no |-> m.no, life |-> m.life]
          BY <5>1 DEF Last
        <5>4. /\ \A b : Link(b) /\ Follows(inbox[1], b) => Follows(Last(s)', b)
              /\ Ends(inbox[1], sent[s]) => Ends(Last(s)', sent[s])
          BY <1>1, <5>3 DEF Follows, Ends
        <5> QED BY <1>0, <2>1, <4>3, <5>2, <5>4, HeadFollows
      <4> QED BY <4>2, <4>3
    <3> QED BY <1>0, <3>2, <3>3, TailChain DEF HubInv
  <2>5. CASE ~(last = Never \/ IsNew(last.no, m.no, last.age))
    <3>1. UNCHANGED <<lastSeen, history, running>>
      BY <1>3, <1>5, <2>0, <2>3, <2>5 DEF Reading
    <3>2. HubTypes'
      BY <1>0, <1>2, <3>1 DEF HubTypes
    <3>3. Connected'
      <4> SUFFICES ASSUME running', NEW s \in Station PROVE FirstFollows(s)'
        BY DEF Connected
      <4>1. CASE s # z
        BY <1>0, <2>1, <3>1, <4>1, OthersFollow
      <4>2. CASE s = z
        <5>1. lastSeen[s] # Never /\ Link(Last(s)) /\ Last(s)' = Last(s)
          BY <1>0, <2>3, <2>5, <3>1, <4>2, Links DEF Last
        <5>2. Follows(Last(s), m)
          <6>1. FirstFollows(s)
            BY <3>1 DEF HubInv, Connected
          <6> QED BY <1>1, <1>2, <2>1, <4>2, <5>1, <6>1 DEF FirstFollows
        <5>3. last.age \in 0 .. AGE + 1 /\ Last(s).no = last.no
          BY <1>0, <2>3, <4>2 DEF HubTypes, Last
        <5>4. /\ \A b : Link(b) /\ Follows(m, b) => Follows(Last(s), b)
              /\ \A x : Link(x) /\ Ends(m, x) => Ends(Last(s), x)
          BY <2>2, <2>5, <5>1, <5>2, <5>3, Dropped
        <5>5. Link(sent[s])
          BY <1>0, Links
        <5> QED BY <1>0, <1>1, <2>1, <3>1, <4>2, <5>1, <5>4, <5>5, HeadFollows
      <4> QED BY <4>1, <4>2
    <3> QED BY <1>0, <3>2, <3>3, TailChain DEF HubInv
  <2> QED BY <2>4, <2>5
<1> QED BY <1>4, <1>5

----------------------------------------------------------------------------
(* The other steps, and the invariant.                                      *)

LEMMA Untouched ==
    ASSUME HubInv, UNCHANGED <<inbox, lastSeen, sent>>, running' => running,
           history'.passed = history.passed, DOMAIN history' = DOMAIN history
    PROVE  HubInv'
<1>1. HubTypes'
  BY DEF HubInv, HubTypes
<1>2. \A i, s : IsOf(i, s)' <=> IsOf(i, s)
  BY DEF IsOf
<1>3. Chain'
  BY <1>2 DEF HubInv, Chain
<1>4. Connected'
  BY <1>2 DEF HubInv, Connected, FirstFollows, Last
<1> QED BY <1>1, <1>3, <1>4 DEF HubInv

LEMMA RadioReadsStep == HubInv /\ RadioReads => HubInv'
<1> SUFFICES ASSUME HubInv, RadioReads PROVE HubInv'
  OBVIOUS
<1>0. UNCHANGED <<lastSeen, history, running>> /\ HubTypes
  BY DEF RadioReads, HubInv
<1>1. ASSUME NEW s \in Station, NEW d \in 1 .. LOSSES + 1,
             sent' = [sent EXCEPT ![s] = [n |-> @.n + d, no |-> Later(@.no, d),
                                          life |-> @.life, any |-> TRUE]],
             Publish(ReadingOf(s, sent'[s]))
      PROVE  HubInv'
  <2>1. PICK x : x = [n |-> sent[s].n + d, no |-> Later(sent[s].no, d),
                      life |-> sent[s].life, any |-> TRUE]
    OBVIOUS
  <2>2. sent' = [sent EXCEPT ![s] = x] /\ sent'[s] = x
    BY <1>0, <1>1, <2>1 DEF HubTypes
  <2>3. Link(sent[s]) /\ d \in Nat /\ d > 0
    BY <1>0, Links, HubAssumption
  <2>4. x \in [n : Nat, no : Number, life : Nat, any : BOOLEAN] /\ x.n > 0
    BY <2>1, <2>3, NumberFacts DEF Link
  <2>5. PICK m : m = [kind |-> "reading", station |-> s, no |-> x.no, n |-> x.n,
                      life |-> x.life]
    OBVIOUS
  <2>6. m \in Packet /\ inbox' = Append(inbox, m)
    BY <1>1, <2>2, <2>4, <2>5 DEF Packet, Publish, ReadingOf
  <2>7. Ends(m, x)
    BY <2>1, <2>3, <2>4, <2>5 DEF Ends
  <2>8. ASSUME NEW a, Link(a), Ends(a, sent[s]) PROVE Follows(a, m)
    BY <2>1, <2>3, <2>5, <2>8, HubAssumption DEF Follows, Ends, Link
  <2> QED BY <1>0, <2>2, <2>4, <2>5, <2>6, <2>7, <2>8, ReadingAppended
<1>2. ASSUME NEW s \in Station, sent[s].any, UNCHANGED sent, Publish(ReadingOf(s, sent[s]))
      PROVE  HubInv'
  <2>1. PICK x : x = sent[s]
    OBVIOUS
  <2>2. sent' = [sent EXCEPT ![s] = x]
    BY <1>0, <1>2, <2>1 DEF HubTypes
  <2>3. Link(sent[s]) /\ x.any
    BY <1>0, <1>2, <2>1, Links
  <2>4. x \in [n : Nat, no : Number, life : Nat, any : BOOLEAN] /\ x.n > 0
    BY <1>0, <1>2, <2>1 DEF HubTypes
  <2>5. PICK m : m = [kind |-> "reading", station |-> s, no |-> x.no, n |-> x.n,
                      life |-> x.life]
    OBVIOUS
  <2>6. m \in Packet /\ inbox' = Append(inbox, m)
    BY <1>2, <2>1, <2>4, <2>5 DEF Packet, Publish, ReadingOf
  <2>7. Ends(m, x)
    BY <2>3, <2>4, <2>5 DEF Ends
  <2>8. ASSUME NEW a, Link(a), Ends(a, sent[s]) PROVE Follows(a, m)
    <3>1. Later(a.no, 0) = a.no
      BY <2>8, NumberFacts DEF Link
    <3> QED BY <2>1, <2>3, <2>5, <2>8, <3>1, HubAssumption DEF Follows, Ends, Link
  <2> QED BY <1>0, <2>2, <2>4, <2>5, <2>6, <2>7, <2>8, ReadingAppended
<1>3. ASSUME UNCHANGED <<inbox, sent>> PROVE HubInv'
  BY <1>0, <1>3, Untouched
<1> QED BY <1>1, <1>2, <1>3 DEF RadioReads

LEMMA RestartStep ==
    ASSUME HubInv, NEW z \in Station, StationRestart(z)
    PROVE  HubInv'
<1>0. /\ UNCHANGED <<inbox, lastSeen, history, running>> /\ HubTypes
      /\ \A s \in Station : Link(sent[s])
      /\ \A i, s : IsOf(i, s)' <=> IsOf(i, s)
  BY Links DEF StationRestart, HubInv, IsOf
<1>1. sent' = [sent EXCEPT ![z] = [n |-> sent[z].n, no |-> 0, life |-> sent[z].life + 1,
                                   any |-> FALSE]]
  BY DEF StationRestart, NothingSent
<1>2. \A s \in Station :
         sent'[s] = IF s = z THEN [n |-> sent[z].n, no |-> 0, life |-> sent[z].life + 1,
                                   any |-> FALSE]
                    ELSE sent[s]
  BY <1>0, <1>1 DEF HubTypes
<1>3. HubTypes'
  <2>1. [n |-> sent[z].n, no |-> 0, life |-> sent[z].life + 1, any |-> FALSE]
          \in [n : Nat, no : Number, life : Nat, any : BOOLEAN]
    BY <1>0, FilterAssumption DEF Link, Number
  <2>2. sent' \in [Station -> [n : Nat, no : Number, life : Nat, any : BOOLEAN]]
    BY <1>0, <1>1, <2>1 DEF HubTypes
  <2> QED BY <1>0, <1>2, <2>2 DEF HubTypes
<1>4. ASSUME NEW s \in Station, NEW a, Link(a), Ends(a, sent[s]) PROVE Ends(a, sent'[s])
  <2>1. CASE s = z
    BY <1>0, <1>2, <1>4, <2>1 DEF Ends, Link
  <2> QED BY <1>2, <1>4, <2>1
<1>5. Chain'
  <2>1. \A s \in Station : \A i \in 1 .. Len(inbox) : IsOf(i, s) => Link(inbox[i])
    BY <1>0, Links
  <2> QED BY <1>0, <1>4, <2>1 DEF HubInv, Chain
<1>6. Connected'
  <2> SUFFICES ASSUME running, NEW s \in Station PROVE FirstFollows(s)'
    BY <1>0 DEF Connected
  <2>1. FirstFollows(s) /\ Last(s)' = Last(s) /\ (lastSeen[s] # Never => Link(Last(s)))
    BY <1>0, Links DEF HubInv, Connected, Last
  <2> QED BY <1>0, <1>4, <2>1 DEF FirstFollows
<1> QED BY <1>3, <1>5, <1>6 DEF HubInv

LEMMA SecondStep == HubInv /\ Second => HubInv'
<1> SUFFICES ASSUME HubInv, Second PROVE HubInv'
  OBVIOUS
<1>0. /\ UNCHANGED <<inbox, sent, history, running>> /\ HubTypes
      /\ \A i, s : IsOf(i, s)' <=> IsOf(i, s)
  BY DEF Second, HubInv, IsOf
<1>1. ASSUME NEW s \in Station
      PROVE  /\ lastSeen'[s] \in [no : Number \cup {-1}, age : 0 .. AGE + 1]
             /\ lastSeen'[s].no = lastSeen[s].no
             /\ lastSeen'[s] = Never <=> lastSeen[s] = Never
  <2>0. /\ lastSeen[s] \in [no : Number \cup {-1}, age : 0 .. AGE + 1]
        /\ lastSeen[s].no = -1 => lastSeen[s] = Never
    BY <1>0 DEF HubTypes
  <2>1. CASE lastSeen[s] = Never
    BY <2>0, <2>1 DEF Second
  <2>2. CASE lastSeen[s] # Never
    <3>1. lastSeen'[s] = [no |-> lastSeen[s].no,
                          age |-> IF lastSeen[s].age > AGE THEN lastSeen[s].age
                                  ELSE lastSeen[s].age + 1]
      BY <2>0, <2>2 DEF Second
    <3> QED BY <2>0, <2>2, <3>1, FilterAssumption DEF Never
  <2> QED BY <2>1, <2>2
<1>2. HubTypes'
  <2>1. lastSeen' \in [Station -> [no : Number \cup {-1}, age : 0 .. AGE + 1]]
    BY <1>1 DEF Second
  <2>2. \A s \in Station : lastSeen'[s].no = -1 => lastSeen'[s] = Never
    BY <1>0, <1>1 DEF HubTypes
  <2> QED BY <1>0, <2>1, <2>2 DEF HubTypes
<1>3. Chain'
  BY <1>0 DEF HubInv, Chain
<1>4. Connected'
  <2> SUFFICES ASSUME running, NEW s \in Station PROVE FirstFollows(s)'
    BY <1>0 DEF Connected
  <2>1. FirstFollows(s) /\ Last(s)' = Last(s) /\ (lastSeen'[s] = Never <=> lastSeen[s] = Never)
    BY <1>0, <1>1 DEF HubInv, Connected, Last
  <2> QED BY <1>0, <2>1 DEF FirstFollows
<1> QED BY <1>2, <1>3, <1>4 DEF HubInv

LEMMA HubStep == HubInv /\ [HubNext]_hubVars => HubInv'
<1> SUFFICES ASSUME HubInv, [HubNext]_hubVars PROVE HubInv'
  OBVIOUS
<1>1. ASSUME RadioWaits \/ RadioWrites \/ MainTop \/ Command \/ MainWrites PROVE HubInv'
  <2>1. UNCHANGED <<inbox, lastSeen, sent>> /\ (running' => running)
    BY <1>1 DEF RadioWaits, RadioWrites, MainTop, Command, MainWrites
  <2>2. UNCHANGED history \/ history' = [history EXCEPT !.failures = @ + 1]
    BY <1>1 DEF RadioWaits, RadioWrites, MainTop, Command, MainWrites, Fails
  <2>3. history'.passed = history.passed /\ DOMAIN history' = DOMAIN history
    BY <2>2 DEF HubInv, HubTypes
  <2> QED BY <2>1, <2>3, Untouched
<1>2. ASSUME NEW kind \in Kinds, Publisher(kind) PROVE HubInv'
  <2>1. PICK m : m = [kind |-> kind]
    OBVIOUS
  <2>2. m \in Packet /\ m.kind # "reading" /\ inbox' = Append(inbox, m)
    BY <1>2, <2>1 DEF Publisher, Publish, Message, Packet, Kinds
  <2> QED BY <1>2, <2>2, OtherAppended DEF Publisher
<1>3. CASE UNCHANGED hubVars
  BY <1>3, Untouched DEF hubVars
<1> QED BY <1>1, <1>2, <1>3, RadioReadsStep, ReceiveStep, RestartStep, SecondStep
        DEF HubNext, RadioThread, MainThread

THEOREM HubInvariant == HubSpec => []HubInv
  BY HubInit, HubStep, PTL DEF HubSpec

----------------------------------------------------------------------------
(* What the hub promises.                                                   *)

\* Only the main loop's Receive takes a message from the queue.
LEMMA TakenByReceive ==
    ASSUME HubInv, HubNext, inbox # <<>>, inbox' = Tail(inbox)
    PROVE  Receive /\ Head(inbox) \in Packet
<1>1. Len(inbox) \in Nat \ {0} /\ Len(inbox') = Len(inbox) - 1 /\ Head(inbox) \in Packet
  BY TailFacts DEF HubInv, HubTypes
<1>2. inbox' # inbox
  <2>1. PICK L \in Nat : L = Len(inbox) /\ Len(inbox') = L - 1
    BY <1>1
  <2>2. L # L - 1
    OBVIOUS
  <2> QED BY <2>1, <2>2, Zenon
<1>3. \A m : inbox' # Append(inbox, m)
  <2> SUFFICES ASSUME NEW m, inbox' = Append(inbox, m) PROVE FALSE
    OBVIOUS
  <2>1. Len(inbox') = Len(inbox) + 1
    BY DEF HubInv, HubTypes
  <2> QED BY <1>1, <2>1
<1> QED BY <1>1, <1>2, <1>3
        DEF HubNext, RadioThread, MainThread, RadioWaits, RadioWrites, RadioReads, Publish,
            MainTop, Command, MainWrites, Publisher, StationRestart, Second

\* The reading that is taken, and the last one of its station before it.
LEMMA TakenFollows ==
    ASSUME HubInv, NEW m, Head(inbox) = m, inbox # <<>>, m \in Packet, m.kind = "reading",
           running
    PROVE  /\ m.station \in Station /\ Link(m)
           /\ LET last == lastSeen[m.station] IN
              \/ last = Never /\ history.passed[m.station].n = 0 /\ m.n > 0
              \/ /\ last # Never /\ last.age \in 0 .. AGE + 1
                 /\ Link(Last(m.station)) /\ Follows(Last(m.station), m)
<1>1. m.station \in Station /\ Link(m)
  BY DEF Packet, Kinds, Link
<1>2. PICK s \in Station : s = m.station
  BY <1>1
<1>3. m = inbox[1] /\ 1 \in 1 .. Len(inbox) /\ IsOf(1, s)
  <2>1. m = inbox[1] /\ 1 \in 1 .. Len(inbox)
    BY HeadTailProperties, EmptySeq DEF HubInv, HubTypes
  <2> QED BY <1>2, <2>1 DEF IsOf
<1>4. FirstFollows(s)
  BY DEF HubInv, Connected
<1>5. lastSeen[s].age \in 0 .. AGE + 1 /\ (lastSeen[s] # Never => Link(Last(s)))
  BY Links DEF HubInv, HubTypes
<1> QED BY <1>1, <1>2, <1>3, <1>4, <1>5 DEF FirstFollows

\* A new reading of a station is passed on, whatever the numbers, the modulus
\* and the gap are and for any stations, as long as each reading is less than
\* MODULUS - GAP readings after the last one that arrived (LossAssumption).
THEOREM NewReadingsArePassed == HubSpec => NewReadingsPass
<1>1. HubInv /\ [HubNext]_hubVars =>
        [\A i \in DOMAIN inbox :
           LET m == inbox[i] IN
           LET passed == history.passed[m.station] IN
           Takes(m) /\ m.n > passed.n /\ m.life = passed.life /\ running
              => history'.passed[m.station].n = m.n]_hubVars
  <2> SUFFICES ASSUME HubInv, HubNext, NEW m, Takes(m), running,
                      m.n > history.passed[m.station].n,
                      m.life = history.passed[m.station].life
               PROVE  history'.passed[m.station].n = m.n
    OBVIOUS
  <2>1. Receive /\ m \in Packet /\ Head(inbox) = m /\ inbox # <<>> /\ m.kind = "reading"
    BY TakenByReceive DEF Takes
  <2>2. PICK raises \in BOOLEAN : Reading(m, raises)
    BY <2>1 DEF Receive
  <2>3. PICK s \in Station : s = m.station
    BY <2>1, TakenFollows
  <2>4. lastSeen[s] = Never \/ IsNew(lastSeen[s].no, m.no, lastSeen[s].age)
    <3>1. CASE lastSeen[s] # Never
      <4>1. /\ Link(m) /\ Link(Last(s)) /\ Follows(Last(s), m)
            /\ lastSeen[s].age \in 0 .. AGE + 1
        BY <2>1, <2>3, <3>1, TakenFollows
      <4>2. /\ m.n > Last(s).n /\ m.life = Last(s).life /\ Last(s).no = lastSeen[s].no
        BY <2>3 DEF Last
      <4>3. /\ m.n - Last(s).n \in 0 .. LOSSES + 1 /\ m.n - Last(s).n > 0
            /\ m.no = Later(lastSeen[s].no, m.n - Last(s).n)
        BY <4>1, <4>2, HubAssumption DEF Follows, Link
      <4>4. lastSeen[s].no \in Number
        BY <4>1, <4>2 DEF Link
      <4> QED BY <4>1, <4>3, <4>4, FilterFacts
    <3> QED BY <3>1
  <2>5. history' = [history EXCEPT !.passed[s] = [n |-> m.n, life |-> m.life]]
    BY <2>2, <2>3, <2>4 DEF Reading
  <2> QED BY <2>3, <2>5 DEF HubInv, HubTypes
<1> QED BY <1>1, HubInvariant, PTL DEF HubSpec, NewReadingsPass

\* A repeated reading is dropped while its first copy is young enough.
THEOREM RepeatedReadingsStop == HubSpec => RepeatsAreDropped
<1>1. HubInv /\ [HubNext]_hubVars =>
        [\A i \in DOMAIN inbox :
           LET m == inbox[i] IN
           /\ Takes(m) /\ m.n = history.passed[m.station].n /\ running
           /\ lastSeen[m.station].age <= AGE
           => live' = live]_hubVars
  <2> SUFFICES ASSUME HubInv, HubNext, NEW m, Takes(m), running,
                      m.n = history.passed[m.station].n,
                      lastSeen[m.station].age <= AGE
               PROVE  live' = live
    OBVIOUS
  <2>1. Receive /\ m \in Packet /\ Head(inbox) = m /\ inbox # <<>> /\ m.kind = "reading"
    BY TakenByReceive DEF Takes
  <2>2. PICK raises \in BOOLEAN : Reading(m, raises)
    BY <2>1 DEF Receive
  <2>3. PICK s \in Station : s = m.station
    BY <2>1, TakenFollows
  <2>4. /\ lastSeen[s] # Never /\ Link(m) /\ Link(Last(s)) /\ Follows(Last(s), m)
        /\ lastSeen[s].age \in 0 .. AGE + 1
    BY <2>1, <2>3, TakenFollows
  <2>5. m.n = Last(s).n /\ Last(s).no = lastSeen[s].no
    BY <2>3 DEF Last
  <2>6. m.no = Later(lastSeen[s].no, 0)
    BY <2>4, <2>5 DEF Follows, Link
  <2>7. ~IsNew(lastSeen[s].no, m.no, lastSeen[s].age)
    <3>1. lastSeen[s].no \in Number /\ m.no = lastSeen[s].no
      BY <2>4, <2>5, <2>6, NumberFacts DEF Link
    <3>2. 0 \in 0 .. LOSSES + 1
      BY HubAssumption
    <3> QED BY <2>3, <2>4, <3>1, <3>2, FilterFacts
  <2> QED BY <2>2, <2>3, <2>4, <2>7 DEF Reading
<1> QED BY <1>1, HubInvariant, PTL DEF HubSpec, RepeatsAreDropped
=============================================================================
