--------------------------- MODULE AbuseGuard_proofs ---------------------------
(***************************************************************************)
(* What the guard promises for any addresses, tokens, settings and number  *)
(* of handlers and calls under way, with calls that are lost, sent twice   *)
(* or carried out late and handlers that are cut off: bans are earned,     *)
(* bans are kept, counters have deadlines.                                 *)
(***************************************************************************)
EXTENDS AbuseGuard, TLAPS

\* Constants of the model, small enough to be in sight everywhere.
USE DEF Idle, Reads, Calls, Absent, Never

LEMMA Settings ==
    /\ Window \in Nat \ {0} /\ MaxViolations \in Nat \ {0} /\ ViolationWindow \in Nat \ {0}
    /\ BanTime \in Nat \ {0} /\ Backoff \in Nat \ {0} /\ AdminTimes \subseteq Nat
BY GuardAssumption

LEMMA Types == Init => TypeOK
<1> SUFFICES ASSUME Init PROVE TypeOK
  OBVIOUS
<1>1. ViolationWindow \in 0 .. ViolationWindow /\ Never \in 1 .. Never /\ 0 \in 0 .. Backoff
  BY Settings
<1>2. 0 \in 0 .. MaxViolations
  BY Settings
<1> QED
  BY <1>1, <1>2 DEF Init, TypeOK

\* A handler goes on with the same errand, or the slot is free.
LEMMA ThenKeeps ==
  ASSUME NEW q \in Active, NEW pc \in Calls \cup {"end"}
  PROVE  /\ Then(q, pc) \in {Idle} \cup Active
         /\ pc = "end" \/ q.call = "left" => Then(q, pc) = Idle
         /\ Then(q, pc) # Idle =>
               /\ Then(q, pc) \in Active /\ q.call # "left" /\ pc # "end"
               /\ Then(q, pc).pc = pc /\ Then(q, pc).op = q.op /\ Then(q, pc).ip = q.ip
               /\ Then(q, pc).blind = q.blind /\ Then(q, pc).call = "first"
         /\ pc # "end" /\ q.call # "left" => Then(q, pc) # Idle
<1>1. CASE pc = "end" \/ q.call = "left"
  BY <1>1 DEF Then
<1>2. CASE ~(pc = "end" \/ q.call = "left")
  <2> DEFINE t == IF pc = "ban" THEN BanTime ELSE 0
             p == [q EXCEPT !.pc = pc, !.call = "first", !.time = t]
  <2>1. Then(q, pc) = p
    BY <1>2 DEF Then
  <2>2. t \in Nat
    BY Settings
  <2> HIDE DEF t
  <2>3. p \in Active /\ p.pc = pc /\ p.op = q.op /\ p.ip = q.ip /\ p.blind = q.blind
        /\ p.call = "first"
    BY <1>2, <2>2 DEF Active
  <2>4. p # Idle
    BY <1>2, <2>3
  <2> QED
    BY <1>2, <2>1, <2>3, <2>4
<1> QED
  BY <1>1, <1>2

\* A step of slot s that only moves on.
LEMMA Moved ==
  ASSUME TypeOK, NEW s \in Slot, slot[s] # Idle, NEW pc \in Calls \cup {"end"}, Go(s, pc)
  PROVE  /\ slot[s] \in Active
         /\ slot' \in [Slot -> {Idle} \cup Active]
         /\ \A r \in Slot \ {s} : slot'[r] = slot[r]
         /\ pc = "end" \/ slot[s].call = "left" => slot'[s] = Idle
         /\ slot'[s] # Idle =>
               /\ slot[s].call # "left" /\ pc # "end" /\ slot'[s].pc = pc
               /\ slot'[s].op = slot[s].op /\ slot'[s].ip = slot[s].ip
               /\ slot'[s].blind = slot[s].blind /\ slot'[s].call = "first"
         /\ pc # "end" /\ slot[s].call # "left" => slot'[s] # Idle
<1>1. slot[s] \in Active /\ slot \in [Slot -> {Idle} \cup Active]
  BY DEF TypeOK
<1>2. slot' = [slot EXCEPT ![s] = Then(slot[s], pc)]
  BY DEF Go
<1>3. slot'[s] = Then(slot[s], pc) /\ \A r \in Slot \ {s} : slot'[r] = slot[r]
  BY <1>1, <1>2
<1> QED
  BY <1>1, <1>2, <1>3, ThenKeeps

\* A handler that begins.
LEMMA Begun ==
  ASSUME TypeOK, NEW s \in Slot, Arrive(s)
  PROVE  /\ slot[s] = Idle
         /\ slot' \in [Slot -> {Idle} \cup Active]
         /\ slot'[s].pc \in {"check", "info", "set", "unban"}
         /\ slot'[s].pc = "set" => slot'[s].op = "ban"
         /\ slot'[s].pc = "unban" => slot'[s].op = "unban"
         /\ \A r \in Slot \ {s} : slot'[r] = slot[r]
         /\ UNCHANGED <<ban, count, dies, window, white, backoff, recent, loose>>
<1>1. ASSUME NEW op \in {"request", "look", "ban", "unban"},
             NEW pc \in {"check", "info", "set", "unban"}, NEW i \in Ip,
             NEW b \in Bucket \cup {NoBucket}, NEW t \in Nat, Begin(s, op, pc, i, b, t)
      PROVE  /\ slot[s] = Idle
             /\ slot' \in [Slot -> {Idle} \cup Active]
             /\ slot'[s].pc = pc /\ slot'[s].op = op
             /\ \A r \in Slot \ {s} : slot'[r] = slot[r]
             /\ UNCHANGED <<ban, count, dies, window, white, backoff, recent, loose>>
  <2> DEFINE q == [pc |-> pc, op |-> op, ip |-> i, bucket |-> b, time |-> t,
                   call |-> "first", blind |-> FALSE]
  <2>1. q \in Active
    BY DEF Active
  <2>2. slot' = [slot EXCEPT ![s] = q]
    BY <1>1 DEF Begin
  <2> HIDE DEF q
  <2>3. slot' \in [Slot -> {Idle} \cup Active] /\ slot'[s] = q
        /\ \A r \in Slot \ {s} : slot'[r] = slot[r]
    BY <2>1, <2>2 DEF TypeOK
  <2> QED
    BY <1>1, <2>3 DEF Begin, q
<1>2. CASE Request(s)
  <2>1. PICK i \in Ip : \E b \in BucketsOf(i) : Begin(s, "request", "check", i, b, 0)
    BY <1>2 DEF Request
  <2>2. PICK b \in BucketsOf(i) : Begin(s, "request", "check", i, b, 0)
    BY <2>1
  <2>3. b \in Bucket
    BY DEF Bucket
  <2> QED
    BY <1>1, <2>2, <2>3
<1>3. CASE Look(s)
  BY <1>1, <1>3 DEF Look
<1>4. CASE BanIp(s)
  BY <1>1, <1>4, Settings DEF BanIp
<1>5. CASE UnbanIp(s)
  BY <1>1, <1>5 DEF UnbanIp
<1> QED
  BY <1>2, <1>3, <1>4, <1>5 DEF Arrive

\* Writing a ban: the others under way for the address become blind.
LEMMA Written ==
  ASSUME TypeOK, NEW s \in Slot, slot[s] # Idle, NEW next \in Calls, Write(s, next)
  PROVE  /\ slot' \in [Slot -> {Idle} \cup Active]
         /\ slot'[s] = Idle \/ slot'[s].pc = next
         /\ \A r \in Slot \ {s} :
               /\ slot[r] = Idle => slot'[r] = Idle
               /\ slot[r] # Idle =>
                     /\ slot'[r] # Idle /\ slot'[r].pc = slot[r].pc
                     /\ slot'[r].op = slot[r].op /\ slot'[r].ip = slot[r].ip
                     /\ slot'[r].call = slot[r].call
                     /\ slot'[r].blind = (slot[r].blind \/ slot[r].ip = slot[s].ip)
         /\ ban' \in [Ip -> {Absent} \cup Nat]
         /\ \A i \in Ip : i # slot[s].ip => ban'[i] = ban[i]
         /\ UNCHANGED <<count, dies, window, white, backoff, recent, loose>>
<1>1. slot \in [Slot -> {Idle} \cup Active] /\ slot[s] \in Active
  BY DEF TypeOK
<1>2. slot' = [r \in Slot |->
          IF r = s THEN Then(slot[s], next)
          ELSE IF slot[r] # Idle /\ slot[r].ip = slot[s].ip THEN [slot[r] EXCEPT !.blind = TRUE]
          ELSE slot[r]]
  BY DEF Write
<1>3. slot'[s] \in {Idle} \cup Active /\ (slot'[s] = Idle \/ slot'[s].pc = next)
  BY <1>1, <1>2, ThenKeeps
<1>4. ASSUME NEW r \in Slot \ {s}, slot[r] # Idle
      PROVE  /\ slot'[r] \in Active
             /\ slot'[r] # Idle /\ slot'[r].pc = slot[r].pc
             /\ slot'[r].op = slot[r].op /\ slot'[r].ip = slot[r].ip
             /\ slot'[r].call = slot[r].call
             /\ slot'[r].blind = (slot[r].blind \/ slot[r].ip = slot[s].ip)
  <2>1. slot[r] \in Active /\ slot[r].blind \in BOOLEAN /\ slot[r].pc \in Calls
    BY <1>1, <1>4 DEF Active
  <2>2. CASE slot[r].ip = slot[s].ip
    <3>1. slot'[r] = [slot[r] EXCEPT !.blind = TRUE]
      BY <1>2, <1>4, <2>2
    <3>2. slot'[r] \in Active /\ slot'[r].pc = slot[r].pc
          /\ slot'[r].op = slot[r].op /\ slot'[r].ip = slot[r].ip
          /\ slot'[r].call = slot[r].call /\ slot'[r].blind = TRUE
      BY <2>1, <3>1 DEF Active
    <3>3. slot'[r] # Idle
      BY <3>2 DEF Active
    <3> QED
      BY <2>1, <2>2, <3>2, <3>3
  <2>3. CASE slot[r].ip # slot[s].ip
    <3>1. slot'[r] = slot[r]
      BY <1>2, <1>4, <2>3
    <3> QED
      BY <3>1, <1>4, <2>1, <2>3
  <2> QED
    BY <2>2, <2>3
<1>5. ASSUME NEW r \in Slot \ {s}, slot[r] = Idle
      PROVE  slot'[r] = Idle
  BY <1>2, <1>5
<1>6. slot' \in [Slot -> {Idle} \cup Active]
  <2>1. \A r \in Slot : slot'[r] \in {Idle} \cup Active
    BY <1>3, <1>4, <1>5
  <2> QED
    BY <1>2, <2>1
<1>7. /\ ban' \in [Ip -> {Absent} \cup Nat]
      /\ \A i \in Ip : i # slot[s].ip => ban'[i] = ban[i]
  <2>1. slot[s].time \in Nat
    BY <1>1 DEF Active
  <2> QED
    BY <2>1 DEF Write, TypeOK
<1>8. UNCHANGED <<count, dies, window, white, backoff, recent, loose>>
  BY DEF Write
<1> QED
  BY <1>3, <1>4, <1>5, <1>6, <1>7, <1>8

\* What a slot holds after an answer that did not come: what it held, what follows for
\* the handler, or the call that stays behind.
LEMMA Strayed ==
  ASSUME TypeOK, NEW s \in Slot, slot[s] # Idle, NEW q \in {Idle} \cup Active, Unanswered(s, q)
  PROVE  /\ slot' \in [Slot -> {Idle} \cup Active]
         /\ q # Idle => slot'[s] = q
         /\ \A r \in Slot :
               \/ slot'[r] = slot[r] /\ r # s
               \/ slot'[r] = q /\ r = s
               \/ /\ slot[r] = Idle \/ r = s
                  /\ slot'[r] # Idle /\ slot'[r].pc = slot[s].pc /\ slot'[r].op = slot[s].op
                  /\ slot'[r].ip = slot[s].ip /\ slot'[r].blind = slot[s].blind
                  /\ slot'[r].call = "left"
<1> DEFINE p == [slot[s] EXCEPT !.call = "left"]
<1>1. slot[s] \in Active /\ slot \in [Slot -> {Idle} \cup Active]
  BY DEF TypeOK
<1>2. p \in Active /\ p.pc = slot[s].pc /\ p.op = slot[s].op /\ p.ip = slot[s].ip
      /\ p.blind = slot[s].blind /\ p.call = "left"
  BY <1>1 DEF Active
<1>3. p # Idle
  BY <1>2 DEF Active
<1>4. CASE slot' = [slot EXCEPT ![s] = q]
  BY <1>1, <1>4
<1>5. CASE Leave(s, q)
  <2>1. PICK r \in Slot : /\ slot[r] = Idle \/ (r = s /\ q = Idle)
                          /\ slot' = [slot EXCEPT ![s] = q, ![r] = p]
    BY <1>5 DEF Leave
  <2> HIDE DEF p
  <2>2. /\ slot' \in [Slot -> {Idle} \cup Active]
        /\ slot'[r] = p /\ (r # s => slot'[s] = q)
        /\ \A t \in Slot \ {s, r} : slot'[t] = slot[t]
    BY <1>1, <1>2, <2>1
  <2> QED
    BY <1>2, <1>3, <2>1, <2>2
<1> QED
  BY <1>4, <1>5 DEF Unanswered

\* Where the three kinds of stray step lead.
LEMMA StrayTo ==
  ASSUME TypeOK, NEW s \in Slot, Stray(s)
  PROVE  /\ slot[s] \in Active
         /\ \E q \in {Idle} \cup Active :
               /\ Unanswered(s, q)
               /\ q # Idle =>
                     /\ q.op = slot[s].op /\ q.ip = slot[s].ip
                     /\ slot[s].blind => q.blind
                     /\ \/ q.pc = slot[s].pc
                        \/ q.pc = Failed(slot[s]) /\ (slot[s].pc = "check" => q.blind)
               /\ \/ /\ slot[s].call = "first" /\ UNCHANGED loose
                     /\ q # Idle /\ q.pc = slot[s].pc /\ q.call # "left"
                  \/ slot[s].call # "left" /\ GivenUp(s)
         /\ UNCHANGED <<ban, count, dies, window, white, recent>>
         /\ backoff' \in {0, Backoff, backoff}
<1>1. slot[s] \in Active
  BY DEF TypeOK, Stray, Resend, Fail, Abort
<1>2. CASE Resend(s)
  <2> DEFINE q == [slot[s] EXCEPT !.call = "again"]
  <2>1. /\ q \in Active /\ q.op = slot[s].op /\ q.ip = slot[s].ip /\ q.pc = slot[s].pc
        /\ q.blind = slot[s].blind /\ q.call = "again"
    BY <1>1 DEF Active
  <2>2. Unanswered(s, q)
    BY <1>2 DEF Resend, Unanswered
  <2>3. q # Idle
    BY <2>1 DEF Active
  <2> HIDE DEF q
  <2> QED
    BY <1>1, <1>2, <2>1, <2>2, <2>3 DEF Resend
<1>3. CASE Fail(s)
  <2> DEFINE p == [slot[s] EXCEPT !.blind = @ \/ slot[s].pc = "check"]
             q == Then(p, Failed(slot[s]))
  <2>1. /\ p \in Active /\ p.op = slot[s].op /\ p.ip = slot[s].ip /\ p.call = slot[s].call
        /\ p.blind = (slot[s].blind \/ slot[s].pc = "check")
    BY <1>1 DEF Active
  <2>2. Failed(slot[s]) \in Calls \cup {"end"}
    BY DEF Failed, Unbanned, Unlisted
  <2>3. Unanswered(s, q) /\ slot[s].call # "left" /\ GivenUp(s)
    BY <1>3 DEF Fail
  <2> HIDE DEF p
  <2>4. /\ q \in {Idle} \cup Active
        /\ q # Idle => /\ q.pc = Failed(slot[s]) /\ q.op = p.op /\ q.ip = p.ip
                       /\ q.blind = p.blind
    BY <2>1, <2>2, ThenKeeps
  <2> HIDE DEF q
  <2> QED
    BY <1>1, <1>3, <2>1, <2>3, <2>4 DEF Fail
<1>4. CASE Abort(s)
  BY <1>1, <1>4 DEF Abort
<1> QED
  BY <1>2, <1>3, <1>4 DEF Stray

-----------------------------------------------------------------------------
(* Types                                                                   *)

LEMMA HandleType ==
  ASSUME TypeOK, NEW s \in Slot, Handle(s)
  PROVE  TypeOK'
<1> USE Settings
<1>0. slot[s] # Idle => slot[s] \in Active /\ slot[s].ip \in Ip
  BY DEF TypeOK, Active
\* An action that moves on and leaves Redis alone.
<1>1. ASSUME slot[s] # Idle, NEW pc \in Calls \cup {"end"}, Go(s, pc),
             UNCHANGED <<ban, count, dies, window, white, backoff, recent, loose>>
      PROVE  TypeOK'
  BY <1>1, Moved DEF TypeOK
<1>2. CASE Check(s)
  <2>1. slot[s] # Idle
    BY <1>2 DEF Check
  <2>2. PICK pc \in Calls \cup {"end"} : Go(s, pc)
    BY <1>2, <2>1, <1>0 DEF Check, Unbanned, TypeOK
  <2> QED
    BY <1>1, <1>2, <2>1, <2>2 DEF Check
<1>3. CASE Info(s)
  <2>1. PICK pc \in {"drop", "end"} : Go(s, pc)
    BY <1>3 DEF Info
  <2> QED
    BY <1>1, <1>3, <2>1 DEF Info
<1>4. CASE Purge(s)
  <2>1. PICK pc \in Calls \cup {"end"} : Go(s, pc)
    BY <1>4 DEF Purge, Unbanned
  <2>2. slot[s] # Idle
    BY <1>4 DEF Purge
  <2>3. slot' \in [Slot -> {Idle} \cup Active]
    BY <2>1, <2>2, Moved
  <2> QED
    BY <1>4, <2>3 DEF Purge, TypeOK
<1>5. CASE White(s)
  <2>1. PICK pc \in Calls \cup {"end"} : Go(s, pc)
    BY <1>5 DEF White, Unlisted
  <2> QED
    BY <1>1, <1>5, <2>1 DEF White
<1>6. CASE CheckLimit(s)
  <2>1. PICK pc \in {"incr", "end"} : Go(s, pc)
    BY <1>6 DEF CheckLimit
  <2>2. slot[s] # Idle
    BY <1>6 DEF CheckLimit
  <2>3. slot' \in [Slot -> {Idle} \cup Active]
    BY <2>1, <2>2, Moved
  <2>4. 0 \in 0 .. Window - 1
    OBVIOUS
  <2>5. window' \in [Bucket -> SUBSET (0 .. Window - 1)]
    BY <1>6, <2>4 DEF CheckLimit, TypeOK
  <2> QED
    BY <1>6, <2>3, <2>5 DEF CheckLimit, TypeOK
<1>7. CASE Incr(s)
  <2>1. PICK pc \in {"expire", "ban", "end"} : Go(s, pc)
    BY <1>7 DEF Incr, Counted
  <2>2. slot[s] # Idle /\ slot[s].ip \in Ip
    BY <1>0, <1>7 DEF Incr, Incremented
  <2>3. slot' \in [Slot -> {Idle} \cup Active]
    BY <2>1, <2>2, Moved
  <2>4. Raised(slot[s].ip) \in 0 .. MaxViolations
    BY <2>2 DEF Raised, TypeOK
  <2>5. count' \in [Ip -> 0 .. MaxViolations]
    BY <1>7, <2>4 DEF Incr, Incremented, TypeOK
  <2>6. Recorded(slot[s].ip) \in [1 .. MaxViolations -> 0 .. ViolationWindow]
    BY <2>2 DEF Recorded, TypeOK
  <2>7. recent' \in [Ip -> [1 .. MaxViolations -> 0 .. ViolationWindow]]
    BY <1>7, <2>6 DEF Incr, Incremented, TypeOK
  <2>8. loose' \in [Ip -> BOOLEAN]
    BY <1>7 DEF Incr, Incremented, TypeOK
  <2> QED
    BY <1>7, <2>3, <2>5, <2>7, <2>8 DEF Incr, Incremented, TypeOK
<1>8. CASE Expire(s)
  <2>1. PICK pc \in {"ban", "end"} : Go(s, pc)
    BY <1>8 DEF Expire, Counted
  <2>2. slot[s] # Idle
    BY <1>8 DEF Expire
  <2>3. slot' \in [Slot -> {Idle} \cup Active]
    BY <2>1, <2>2, Moved
  <2>4. ViolationWindow \in 1 .. Never /\ dies \in [Ip -> 1 .. Never]
    BY DEF TypeOK
  <2>5. dies' \in [Ip -> 1 .. Never]
    BY <1>8, <2>4 DEF Expire
  <2> QED
    BY <1>8, <2>3, <2>5 DEF Expire, TypeOK
<1>9. CASE Ban(s)
  <2>1. slot[s] # Idle /\ Write(s, "reset")
    BY <1>9 DEF Ban
  <2> QED
    BY <2>1, Written DEF TypeOK
<1>10. CASE Set(s)
  <2>1. slot[s] # Idle /\ Write(s, "info")
    BY <1>10 DEF Set
  <2> QED
    BY <2>1, Written DEF TypeOK
<1>11. CASE Reset(s)
  <2>1. slot[s] # Idle /\ Go(s, "end")
    BY <1>11 DEF Reset
  <2>2. slot' \in [Slot -> {Idle} \cup Active]
    BY <2>1, Moved
  <2>3. /\ 0 \in 0 .. MaxViolations /\ count \in [Ip -> 0 .. MaxViolations]
        /\ Never \in 1 .. Never /\ dies \in [Ip -> 1 .. Never] /\ loose \in [Ip -> BOOLEAN]
    BY DEF TypeOK
  <2>4. /\ count' \in [Ip -> 0 .. MaxViolations] /\ dies' \in [Ip -> 1 .. Never]
        /\ loose' \in [Ip -> BOOLEAN]
    BY <1>11, <2>3 DEF Reset, NoCounter
  <2> QED
    BY <1>11, <2>2, <2>4 DEF Reset, TypeOK
<1>12. CASE Unban(s)
  <2>1. slot[s] # Idle /\ Go(s, "forget")
    BY <1>12 DEF Unban
  <2>2. slot' \in [Slot -> {Idle} \cup Active]
    BY <2>1, Moved
  <2> QED
    BY <1>12, <2>2 DEF Unban, TypeOK
<1> QED
  BY <1>2, <1>3, <1>4, <1>5, <1>6, <1>7, <1>8, <1>9, <1>10, <1>11, <1>12 DEF Handle

\* Only the clock changes what a handler holds without its taking part.
LEMMA Ticked ==
  ASSUME TypeOK, Tick
  PROVE  /\ slot' \in [Slot -> {Idle} \cup Active]
         /\ \A r \in Slot :
               /\ slot[r] = Idle => slot'[r] = Idle
               /\ slot[r] # Idle =>
                     /\ slot'[r] # Idle /\ slot'[r].pc = slot[r].pc
                     /\ slot'[r].op = slot[r].op /\ slot'[r].ip = slot[r].ip
                     /\ slot'[r].call = slot[r].call /\ slot'[r].blind = slot[r].blind
<1>1. slot' = [r \in Slot |-> IF slot[r] = Idle THEN Idle
                              ELSE [slot[r] EXCEPT !.time = Less(@)]]
  BY DEF Tick
<1>2. ASSUME NEW r \in Slot, slot[r] # Idle
      PROVE  /\ slot'[r] \in Active /\ slot'[r] # Idle /\ slot'[r].pc = slot[r].pc
             /\ slot'[r].op = slot[r].op /\ slot'[r].ip = slot[r].ip
             /\ slot'[r].call = slot[r].call /\ slot'[r].blind = slot[r].blind
  <2>1. slot[r] \in Active
    BY <1>2 DEF TypeOK
  <2>2. Less(slot[r].time) \in Nat
    BY <2>1 DEF Active, Less
  <2>3. slot'[r] = [slot[r] EXCEPT !.time = Less(slot[r].time)]
    BY <1>1, <1>2
  <2>4. /\ slot'[r] \in Active /\ slot'[r].pc = slot[r].pc
        /\ slot'[r].op = slot[r].op /\ slot'[r].ip = slot[r].ip
        /\ slot'[r].call = slot[r].call /\ slot'[r].blind = slot[r].blind
    BY <2>1, <2>2, <2>3 DEF Active
  <2> QED
    BY <2>4 DEF Active
<1>3. \A r \in Slot : slot[r] = Idle => slot'[r] = Idle
  BY <1>1
<1>4. slot' \in [Slot -> {Idle} \cup Active]
  BY <1>1, <1>2, <1>3
<1> QED
  BY <1>2, <1>3, <1>4

LEMMA TypeStep ==
  ASSUME TypeOK, [Next]_vars
  PROVE  TypeOK'
<1> USE Settings
<1>1. ASSUME NEW s \in Slot, Arrive(s)
      PROVE  TypeOK'
  BY <1>1, Begun DEF TypeOK
<1>2. ASSUME NEW s \in Slot, Stray(s)
      PROVE  TypeOK'
  <2>1. PICK q \in {Idle} \cup Active :
          /\ Unanswered(s, q)
          /\ UNCHANGED loose \/ GivenUp(s)
    BY <1>2, StrayTo
  <2>2. slot[s] \in Active /\ UNCHANGED <<ban, count, dies, window, white, recent>>
        /\ backoff' \in {0, Backoff, backoff}
    BY <1>2, StrayTo
  <2>3. slot[s] # Idle
    BY <2>2 DEF Active
  <2>4. slot' \in [Slot -> {Idle} \cup Active]
    BY <2>1, <2>3, Strayed
  <2>5. loose' \in [Ip -> BOOLEAN]
    BY <2>1 DEF GivenUp, TypeOK
  <2> QED
    BY <2>2, <2>4, <2>5 DEF TypeOK
<1>3. CASE EditWhitelist
  BY <1>3 DEF EditWhitelist, TypeOK
<1>4. CASE Tick
  <2>1. ban' \in [Ip -> {Absent} \cup Nat]
    BY <1>4 DEF Tick, TypeOK, Less
  <2>2. count' \in [Ip -> 0 .. MaxViolations] /\ dies' \in [Ip -> 1 .. Never]
    BY <1>4 DEF Tick, TypeOK
  <2>3. window' \in [Bucket -> SUBSET (0 .. Window - 1)]
    BY <1>4 DEF Tick, TypeOK, Older
  <2>4. backoff' \in 0 .. Backoff
    BY <1>4 DEF Tick, TypeOK, Less
  <2>5. recent' \in [Ip -> [1 .. MaxViolations -> 0 .. ViolationWindow]]
    BY <1>4 DEF Tick, TypeOK
  <2>6. loose' \in [Ip -> BOOLEAN]
    BY <1>4 DEF Tick, Late, TypeOK
  <2>7. white' \subseteq Ip
    BY <1>4 DEF Tick, TypeOK
  <2>8. slot' \in [Slot -> {Idle} \cup Active]
    BY <1>4, Ticked
  <2> QED
    BY <2>1, <2>2, <2>3, <2>4, <2>5, <2>6, <2>7, <2>8 DEF TypeOK
<1>5. CASE Evict
  BY <1>5 DEF Evict, TypeOK
<1>6. CASE UNCHANGED vars
  BY <1>6 DEF vars, TypeOK
<1> QED
  BY <1>1, <1>2, <1>3, <1>4, <1>5, <1>6, HandleType DEF Next

\* The state of the guard is well formed, whatever calls to Redis fail and however.
THEOREM TypeCorrect == Spec => []TypeOK
<1>1. Init => TypeOK
  BY Types
<1>2. TypeOK /\ [Next]_vars => TypeOK'
  BY TypeStep
<1> QED
  BY <1>1, <1>2, PTL DEF Spec

-----------------------------------------------------------------------------
(* Bans are kept                                                           *)

\* A handler, or a call it left, past is_banned has seen no ban, or is blind to one.
Past == {"purge", "drop", "white", "limit", "incr", "expire", "ban"}
BansSeen == \A s \in Slot : slot[s].pc \in Past /\ ~slot[s].blind => ban[slot[s].ip] <= 0

\* Only an administrator's handlers set a ban's time or take it away.
Errands == \A s \in Slot : /\ slot[s].pc = "set" => slot[s].op = "ban"
                           /\ slot[s].pc = "unban" => slot[s].op = "unban"

\* What a slot may hold after a step that raises no ban: what it or another slot held,
\* nothing of interest, or a handler that the bans allow to go on.
LEMMA SeenStep ==
  ASSUME TypeOK, BansSeen, Errands, ban' \in [Ip -> {Absent} \cup Nat],
         \A i \in Ip : ~(ban'[i] > ban[i]),
         \A r \in Slot :
            \/ slot'[r].pc \notin Past \cup {"set", "unban"}
            \/ /\ slot'[r].pc \in Past
               /\ slot'[r].blind \/ ban'[slot'[r].ip] <= 0
            \/ \E t \in Slot :
                  /\ slot[t] # Idle /\ slot'[r].pc = slot[t].pc /\ slot'[r].op = slot[t].op
                  /\ slot'[r].ip = slot[t].ip /\ (slot[t].blind => slot'[r].blind)
  PROVE  BansSeen' /\ Errands'
<1>1. ASSUME NEW r \in Slot, slot'[r].pc \in Past, ~slot'[r].blind
      PROVE  ban'[slot'[r].ip] <= 0
  <2>1. CASE ban'[slot'[r].ip] <= 0
    BY <2>1
  <2>2. CASE \E t \in Slot :
                /\ slot[t] # Idle /\ slot'[r].pc = slot[t].pc
                /\ slot'[r].ip = slot[t].ip /\ (slot[t].blind => slot'[r].blind)
    <3>1. PICK t \in Slot : /\ slot[t] # Idle /\ slot'[r].pc = slot[t].pc
                            /\ slot'[r].ip = slot[t].ip /\ (slot[t].blind => slot'[r].blind)
      BY <2>2
    <3>2. slot[t].ip \in Ip /\ ban[slot[t].ip] <= 0
      BY <1>1, <3>1 DEF TypeOK, Active, BansSeen
    <3>3. ban[slot[t].ip] \in Int /\ ban'[slot[t].ip] \in Int /\ ~(ban'[slot[t].ip] > ban[slot[t].ip])
      BY <3>2 DEF TypeOK
    <3> QED
      BY <3>1, <3>2, <3>3
  <2> QED
    BY <1>1, <2>1, <2>2
<1>2. Errands'
  BY DEF Errands, Past
<1> QED
  BY <1>1, <1>2 DEF BansSeen

LEMMA KeptHandle ==
  ASSUME TypeOK, TypeOK', BansSeen, Errands, NEW s \in Slot, Handle(s)
  PROVE  BansSeen' /\ Errands' /\ \A i \in Ip : Kept(i)
<1> USE DEF Past
<1>0. /\ ban \in [Ip -> {Absent} \cup Nat] /\ ban' \in [Ip -> {Absent} \cup Nat]
      /\ slot[s] # Idle => slot[s] \in Active /\ slot[s].ip \in Ip
  BY DEF TypeOK, Active
<1>1. ASSUME UNCHANGED ban
      PROVE  \A i \in Ip : Kept(i) /\ ~(ban'[i] > ban[i])
  BY <1>0, <1>1 DEF Kept
\* A step that writes no ban and whose handler goes on where the ban allows it.
<1>2. ASSUME slot[s] # Idle, NEW pc \in (Calls \ {"set", "unban"}) \cup {"end"}, Go(s, pc),
             \A i \in Ip : ~(ban'[i] > ban[i]),
             pc \in Past /\ ~slot[s].blind => ban'[slot[s].ip] <= 0
      PROVE  BansSeen' /\ Errands'
  <2>1. slot'[s] = Idle \/ /\ slot'[s].pc = pc
                           /\ slot'[s].ip = slot[s].ip /\ slot'[s].blind = slot[s].blind
    BY <1>2, Moved
  <2>2. \A r \in Slot \ {s} : slot'[r] = slot[r]
    BY <1>2, Moved
  <2>3. \/ slot'[s].pc \notin Past \cup {"set", "unban"}
        \/ slot'[s].pc \in Past /\ (slot'[s].blind \/ ban'[slot'[s].ip] <= 0)
    <3>1. slot[s].blind \in BOOLEAN
      BY <1>0, <1>2 DEF Active
    <3>2. CASE slot'[s] = Idle
      BY <3>2
    <3>3. CASE slot'[s] # Idle
      BY <1>2, <2>1, <3>1, <3>3
    <3> QED
      BY <3>2, <3>3
  <2>4. ASSUME NEW r \in Slot \ {s}
        PROVE  \/ slot'[r].pc \notin Past \cup {"set", "unban"}
               \/ \E t \in Slot :
                     /\ slot[t] # Idle /\ slot'[r].pc = slot[t].pc /\ slot'[r].op = slot[t].op
                     /\ slot'[r].ip = slot[t].ip /\ (slot[t].blind => slot'[r].blind)
    BY <2>2
  <2> QED
    BY <1>0, <1>2, <2>3, <2>4, SeenStep
\* ... or that leaves the bans alone, from a place where the same held.
<1>3. ASSUME slot[s].pc \in Past, UNCHANGED ban,
             NEW pc \in (Calls \ {"set", "unban"}) \cup {"end"}, Go(s, pc)
      PROVE  BansSeen' /\ Errands' /\ \A i \in Ip : Kept(i)
  <2>1. ~slot[s].blind => ban[slot[s].ip] <= 0
    BY <1>3 DEF BansSeen
  <2>2. slot[s] # Idle
    BY <1>3
  <2> QED
    BY <1>1, <1>2, <1>3, <2>1, <2>2
<1>4. CASE Check(s)
  <2>1. slot[s] # Idle /\ UNCHANGED ban
    BY <1>4 DEF Check
  <2>2. CASE ban[slot[s].ip] > 0
    <3>1. Go(s, "info")
      BY <1>4, <2>2 DEF Check
    <3> QED
      BY <1>1, <1>2, <2>1, <3>1
  <2>3. CASE ban[slot[s].ip] <= 0
    <3>1. PICK pc \in (Calls \ {"set", "unban"}) \cup {"end"} : Go(s, pc)
      BY <1>0, <1>4, <2>1, <2>3 DEF Check, Unbanned
    <3> QED
      BY <1>1, <1>2, <2>1, <2>3, <3>1
  <2> QED
    BY <1>0, <2>1, <2>2, <2>3
<1>5. CASE Info(s)
  <2>1. slot[s] # Idle /\ UNCHANGED ban
    BY <1>5 DEF Info
  <2>2. PICK pc \in {"drop", "end"} : Go(s, pc) /\ (pc = "drop" => ban[slot[s].ip] = 0)
    BY <1>5 DEF Info
  <2> QED
    BY <1>1, <1>2, <2>1, <2>2
<1>6. CASE Purge(s)
  <2>1. slot[s] # Idle /\ slot[s].pc \in Past
    BY <1>6 DEF Purge
  <2>2. \A i \in Ip : ~(ban'[i] > ban[i])
    BY <1>0, <1>6 DEF Purge
  <2>3. ban'[slot[s].ip] = Absent
    BY <1>0, <1>6, <2>1 DEF Purge
  <2>4. PICK pc \in (Calls \ {"set", "unban"}) \cup {"end"} : Go(s, pc)
    BY <1>6 DEF Purge, Unbanned
  <2>5. ASSUME NEW i \in Ip, ban[i] > 0, ban'[i] < ban[i]
        PROVE  slot[s].ip = i /\ slot[s].blind
    BY <1>0, <1>6, <2>1, <2>5 DEF Purge, BansSeen
  <2> QED
    BY <1>2, <2>1, <2>2, <2>3, <2>4, <2>5 DEF Kept
<1>7. CASE White(s)
  <2>1. PICK pc \in {"limit", "end"} : Go(s, pc)
    BY <1>7 DEF White, Unlisted
  <2> QED
    BY <1>3, <1>7, <2>1 DEF White
<1>8. CASE CheckLimit(s)
  <2>1. PICK pc \in {"incr", "end"} : Go(s, pc)
    BY <1>8 DEF CheckLimit
  <2> QED
    BY <1>3, <1>8, <2>1 DEF CheckLimit
<1>9. CASE Incr(s)
  <2>1. PICK pc \in {"expire", "ban", "end"} : Go(s, pc)
    BY <1>9 DEF Incr, Counted
  <2> QED
    BY <1>3, <1>9, <2>1 DEF Incr, Incremented
<1>10. CASE Expire(s)
  <2>1. PICK pc \in {"ban", "end"} : Go(s, pc)
    BY <1>10 DEF Expire, Counted
  <2> QED
    BY <1>3, <1>10, <2>1 DEF Expire
<1>11. ASSUME slot[s].pc \in {"ban", "set"}, NEW next \in {"reset", "info"}, Write(s, next)
       PROVE  BansSeen' /\ Errands' /\ \A i \in Ip : Kept(i)
  <2>1. slot[s] # Idle
    BY <1>11
  <2>2. /\ slot'[s] = Idle \/ slot'[s].pc = next
        /\ \A r \in Slot \ {s} :
              /\ slot[r] = Idle => slot'[r] = Idle
              /\ slot[r] # Idle =>
                    /\ slot'[r] # Idle /\ slot'[r].pc = slot[r].pc
                    /\ slot'[r].op = slot[r].op /\ slot'[r].ip = slot[r].ip
                    /\ slot'[r].call = slot[r].call
                    /\ slot'[r].blind = (slot[r].blind \/ slot[r].ip = slot[s].ip)
        /\ \A i \in Ip : i # slot[s].ip => ban'[i] = ban[i]
    BY <1>11, <2>1, Written
  <2>3. BansSeen'
    <3> SUFFICES ASSUME NEW r \in Slot, slot'[r].pc \in Past, ~slot'[r].blind
                 PROVE  ban'[slot'[r].ip] <= 0
      BY DEF BansSeen
    <3>1. r # s /\ slot[r] # Idle
      BY <1>11, <2>2
    <3>2. slot[r].pc \in Past /\ slot'[r].ip = slot[r].ip /\ ~slot[r].blind
          /\ slot[r].ip # slot[s].ip
      BY <2>2, <3>1
    <3>3. slot[r].ip \in Ip
      BY <3>1 DEF TypeOK, Active
    <3> QED
      BY <2>2, <3>2, <3>3 DEF BansSeen
  <2>4. Errands'
    <3> SUFFICES ASSUME NEW r \in Slot, slot'[r].pc \in {"set", "unban"}
                 PROVE  slot'[r].op = IF slot'[r].pc = "set" THEN "ban" ELSE "unban"
      BY DEF Errands
    <3>1. r # s /\ slot[r] # Idle
      BY <1>11, <2>2
    <3> QED
      BY <2>2, <3>1 DEF Errands
  <2>5. ASSUME NEW i \in Ip, ban[i] > 0, ban'[i] < ban[i]
        PROVE  slot[s].ip = i /\ (slot[s].op = "ban" \/ slot[s].blind)
    <3>1. slot[s].ip = i
      BY <1>0, <2>2, <2>5
    <3> QED
      BY <1>0, <1>11, <2>5, <3>1 DEF BansSeen, Errands
  <2> QED
    BY <2>1, <2>3, <2>4, <2>5 DEF Kept
<1>12. CASE Ban(s)
  BY <1>11, <1>12 DEF Ban
<1>13. CASE Set(s)
  BY <1>11, <1>13 DEF Set
<1>14. CASE Reset(s)
  <2>1. slot[s] # Idle /\ UNCHANGED ban /\ Go(s, "end")
    BY <1>14 DEF Reset
  <2> QED
    BY <1>1, <1>2, <2>1
<1>15. CASE Unban(s)
  <2>1. slot[s] # Idle /\ Go(s, "forget") /\ slot[s].op = "unban"
    BY <1>15 DEF Unban, Errands
  <2>2. \A i \in Ip : ~(ban'[i] > ban[i]) /\ (ban'[i] < ban[i] => slot[s].ip = i)
    BY <1>0, <1>15 DEF Unban
  <2> QED
    BY <1>2, <2>1, <2>2 DEF Kept
<1> QED
  BY <1>4, <1>5, <1>6, <1>7, <1>8, <1>9, <1>10, <1>12, <1>13, <1>14, <1>15 DEF Handle

LEMMA KeptStray ==
  ASSUME TypeOK, TypeOK', BansSeen, Errands, NEW s \in Slot, Stray(s)
  PROVE  BansSeen' /\ Errands' /\ \A i \in Ip : Kept(i)
<1> USE DEF Past
<1>1. PICK q \in {Idle} \cup Active :
        /\ Unanswered(s, q)
        /\ q # Idle =>
              /\ q.op = slot[s].op /\ q.ip = slot[s].ip
              /\ slot[s].blind => q.blind
              /\ \/ q.pc = slot[s].pc
                 \/ q.pc = Failed(slot[s]) /\ (slot[s].pc = "check" => q.blind)
  BY StrayTo
<1>2. slot[s] \in Active /\ slot[s] # Idle /\ UNCHANGED ban
  BY StrayTo DEF Active
<1>3. /\ ban' \in [Ip -> {Absent} \cup Nat]
      /\ \A i \in Ip : ~(ban'[i] > ban[i]) /\ Kept(i)
  <2>1. ban \in [Ip -> {Absent} \cup Nat] /\ ban' = ban
    BY <1>2 DEF TypeOK
  <2>2. \A i \in Ip : ban[i] \in Int
    BY <2>1
  <2> QED
    BY <2>1, <2>2 DEF Kept
\* Where a failed call leads the ban was as good as seen before.
<1>4. ASSUME q # Idle, q.pc = Failed(slot[s]), slot[s].pc = "check" => q.blind
      PROVE  \/ q.pc \notin Past \cup {"set", "unban"}
             \/ q.pc \in Past /\ (q.blind \/ ban[q.ip] <= 0)
  <2>1. CASE slot[s].pc \in Past
    BY <1>1, <1>4, <2>1 DEF BansSeen, Failed, Unbanned, Unlisted
  <2>2. CASE slot[s].pc \notin Past
    BY <1>4, <2>2 DEF Failed, Unbanned, Unlisted
  <2> QED
    BY <2>1, <2>2
<1>5. ASSUME NEW r \in Slot
      PROVE  \/ slot'[r].pc \notin Past \cup {"set", "unban"}
             \/ slot'[r].pc \in Past /\ (slot'[r].blind \/ ban'[slot'[r].ip] <= 0)
             \/ \E t \in Slot :
                   /\ slot[t] # Idle /\ slot'[r].pc = slot[t].pc /\ slot'[r].op = slot[t].op
                   /\ slot'[r].ip = slot[t].ip /\ (slot[t].blind => slot'[r].blind)
  <2>1. \/ slot'[r] = slot[r]
        \/ slot'[r] = q
        \/ /\ slot'[r].pc = slot[s].pc /\ slot'[r].op = slot[s].op
           /\ slot'[r].ip = slot[s].ip /\ slot'[r].blind = slot[s].blind
    BY <1>1, <1>2, Strayed
  <2>2. CASE slot'[r] = slot[r]
    BY <2>2
  <2>3. CASE slot'[r] = q
    BY <1>1, <1>2, <1>4, <2>3
  <2>4. CASE /\ slot'[r].pc = slot[s].pc /\ slot'[r].op = slot[s].op
             /\ slot'[r].ip = slot[s].ip /\ slot'[r].blind = slot[s].blind
    BY <1>2, <2>4
  <2> QED
    BY <2>1, <2>2, <2>3, <2>4
<1> QED
  BY <1>3, <1>5, SeenStep

LEMMA KeptStep ==
  ASSUME TypeOK, TypeOK', BansSeen, Errands, [Next]_vars
  PROVE  BansSeen' /\ Errands' /\ \A i \in Ip : Kept(i)
<1> USE DEF Past
<1>0. ban \in [Ip -> {Absent} \cup Nat] /\ ban' \in [Ip -> {Absent} \cup Nat]
  BY DEF TypeOK
<1>1. ASSUME NEW s \in Slot, Arrive(s)
      PROVE  BansSeen' /\ Errands' /\ \A i \in Ip : Kept(i)
  <2>1. /\ UNCHANGED ban
        /\ slot'[s].pc \in {"check", "info", "set", "unban"}
        /\ slot'[s].pc = "set" => slot'[s].op = "ban"
        /\ slot'[s].pc = "unban" => slot'[s].op = "unban"
        /\ \A r \in Slot \ {s} : slot'[r] = slot[r]
    BY <1>1, Begun
  <2> QED
    BY <1>0, <2>1 DEF BansSeen, Errands, Kept
<1>2. ASSUME \A i \in Ip : ban'[i] <= ban[i],
             \A r \in Slot :
                /\ slot[r] = Idle => slot'[r] = Idle
                /\ slot[r] # Idle =>
                      /\ slot'[r].pc = slot[r].pc /\ slot'[r].op = slot[r].op
                      /\ slot'[r].ip = slot[r].ip /\ slot'[r].blind = slot[r].blind
      PROVE  BansSeen' /\ Errands'
  <2>1. ASSUME NEW r \in Slot
        PROVE  \/ slot'[r].pc \notin Past \cup {"set", "unban"}
               \/ \E t \in Slot :
                     /\ slot[t] # Idle /\ slot'[r].pc = slot[t].pc /\ slot'[r].op = slot[t].op
                     /\ slot'[r].ip = slot[t].ip /\ (slot[t].blind => slot'[r].blind)
    BY <1>2
  <2>2. \A i \in Ip : ~(ban'[i] > ban[i])
    BY <1>0, <1>2
  <2> QED
    BY <1>0, <2>1, <2>2, SeenStep
<1>3. CASE EditWhitelist
  BY <1>0, <1>2, <1>3 DEF EditWhitelist, Kept
<1>4. CASE Tick
  <2>1. \A i \in Ip : ban'[i] <= ban[i]
    BY <1>0, <1>4 DEF Tick, Less
  <2> QED
    BY <1>2, <1>4, <2>1, Ticked DEF Kept
<1>5. CASE Evict
  <2>1. \A i \in Ip : ban'[i] = ban[i] \/ (ban[i] = 0 /\ ban'[i] = Absent)
    BY <1>0, <1>5 DEF Evict
  <2> QED
    BY <1>0, <1>2, <1>5, <2>1 DEF Evict, Kept
<1>6. CASE UNCHANGED vars
  BY <1>0, <1>2, <1>6 DEF vars, Kept
<1> QED
  BY <1>1, <1>3, <1>4, <1>5, <1>6, KeptHandle, KeptStray DEF Next

\* A ban stands until it ends: no handler that read the bans after it was written,
\* and no call such a handler left behind, deletes or shortens it.
THEOREM BansKept == Spec => BanKept
<1>1. Init => BansSeen /\ Errands
  BY DEF Init, BansSeen, Errands, Past
<1>2. TypeOK /\ TypeOK' /\ BansSeen /\ Errands /\ [Next]_vars
        => BansSeen' /\ Errands' /\ \A i \in Ip : Kept(i)
  BY KeptStep
<1> QED
  BY <1>1, <1>2, TypeCorrect, PTL DEF Spec, BanKept

-----------------------------------------------------------------------------
(* Bans are earned, counters have deadlines                                *)

Ordered == \A i \in Ip : \A k \in 1 .. MaxViolations - 1 : recent[i][k + 1] <= recent[i][k]

\* The violations counted against i.
Fresh(i, k) == k > MaxViolations - count[i]

\* They are no older than what has passed of the deadline.
Dated ==
    \A i \in Ip : ~loose[i] => \A k \in 1 .. MaxViolations : Fresh(i, k) =>
        recent[i][k] = 0 \/ recent[i][k] <= ViolationWindow - dies[i]

\* As long as the deadline is about to be set they are new.
Undated ==
    \A i \in Ip : Late(i) /\ ~loose[i] =>
        \A k \in 1 .. MaxViolations : Fresh(i, k) => recent[i][k] = 0

Counting == CounterMortal /\ Ordered /\ Dated /\ Undated

LEMMA CountTypes ==
  ASSUME TypeOK
  PROVE  /\ count \in [Ip -> 0 .. MaxViolations] /\ dies \in [Ip -> 1 .. Never]
         /\ recent \in [Ip -> [1 .. MaxViolations -> 0 .. ViolationWindow]]
         /\ loose \in [Ip -> BOOLEAN]
         /\ \A r \in Slot : slot[r].pc \in Calls => slot[r] # Idle /\ slot[r].ip \in Ip
         /\ 1 \in 1 .. MaxViolations /\ MaxViolations \in 1 .. MaxViolations
BY Settings DEF TypeOK, Active

\* A step that leaves the counters alone: a handler goes to EXPIRE with another for
\* the address there, and leaves it only if the counter is loose from then on.
LEMMA Quiet ==
  ASSUME TypeOK, TypeOK', Counting, UNCHANGED <<count, dies, recent>>,
         \A i \in Ip : loose[i] => loose'[i],
         \A i \in Ip : Late(i)' => Late(i),
         \A r \in Slot : slot[r].pc = "expire" /\ slot[r].call # "left" =>
            \/ count[slot[r].ip] > 0 => loose'[slot[r].ip]
            \/ slot'[r] # Idle /\ slot'[r].pc = "expire" /\ slot'[r].ip = slot[r].ip
               /\ slot'[r].call # "left"
  PROVE  Counting'
<1>1. CounterMortal'
  <2> SUFFICES ASSUME NEW i \in Ip, count[i] > 0, dies[i] = Never, ~loose'[i]
               PROVE  \E r \in Slot : /\ slot'[r] # Idle /\ slot'[r].ip = i
                                      /\ slot'[r].pc = "expire" /\ slot'[r].call # "left"
    BY DEF CounterMortal
  <2>1. PICK r \in Slot : /\ slot[r] # Idle /\ slot[r].ip = i
                          /\ slot[r].pc = "expire" /\ slot[r].call # "left"
    BY DEF Counting, CounterMortal
  <2> QED
    BY <2>1
<1>2. Ordered' /\ Dated'
  BY DEF Counting, Ordered, Dated, Fresh
<1>3. Undated'
  BY DEF Counting, Undated, Fresh
<1> QED
  BY <1>1, <1>2, <1>3 DEF Counting

\* A step of slot s that leaves the counters alone and neither comes from nor goes
\* to EXPIRE.
LEMMA QuietGo ==
  ASSUME TypeOK, TypeOK', Counting, NEW s \in Slot, slot[s].pc # "expire",
         UNCHANGED <<count, dies, recent, loose>>,
         slot'[s].pc # "expire",
         \A r \in Slot \ {s} :
            /\ slot[r] = Idle => slot'[r] = Idle
            /\ slot[r] # Idle =>
                  /\ slot'[r] # Idle /\ slot'[r].pc = slot[r].pc /\ slot'[r].ip = slot[r].ip
                  /\ slot'[r].call = slot[r].call
  PROVE  Counting'
<1>1. \A i \in Ip : Late(i)' => Late(i)
  BY DEF Late
<1>2. \A r \in Slot : slot[r].pc = "expire" /\ slot[r].call # "left" =>
          slot'[r] # Idle /\ slot'[r].pc = "expire" /\ slot'[r].ip = slot[r].ip
          /\ slot'[r].call # "left"
  OBVIOUS
<1> QED
  BY <1>1, <1>2, Quiet

\* A handler's INCR moves the violations on by one.
LEMMA IncrRecent ==
  ASSUME TypeOK, NEW s \in Slot, Incr(s), slot[s].call # "left"
  PROVE  LET i == slot[s].ip IN
         /\ \A k \in 1 .. MaxViolations - 1 : recent'[i][k] = recent[i][k + 1]
         /\ recent'[i][MaxViolations] = 0
         /\ \A j \in Ip \ {i} : recent'[j] = recent[j]
         /\ UNCHANGED loose
<1> USE Settings
<1> DEFINE i == slot[s].ip
<1>1. i \in Ip
  BY CountTypes DEF Incr, Incremented
<1>2. recent' = [recent EXCEPT ![i] = Recorded(i)] /\ UNCHANGED loose
  BY DEF Incr, Incremented
<1> QED
  BY <1>1, <1>2, CountTypes DEF Recorded

\* ... and any INCR the count.
LEMMA IncrCount ==
  ASSUME TypeOK, NEW s \in Slot, Incr(s)
  PROVE  LET i == slot[s].ip IN
         /\ i \in Ip /\ slot[s] # Idle /\ count[i] \in 0 .. MaxViolations
         /\ count'[i] \in 1 .. MaxViolations /\ count'[i] <= count[i] + 1
         /\ count'[i] = Raised(i)
         /\ \A j \in Ip \ {i} : count'[j] = count[j]
         /\ dies' = dies
         /\ \A r \in Slot \ {s} : slot'[r] = slot[r]
         /\ slot'[s] # Idle =>
               /\ slot[s].call # "left" /\ slot'[s].call = "first" /\ slot'[s].ip = i
               /\ slot'[s].pc = IF count'[i] = 1 THEN "expire" ELSE Counted(count'[i])
         /\ slot[s].call # "left" /\ count'[i] = 1 => slot'[s] # Idle
<1> USE Settings
<1> DEFINE i == slot[s].ip
           pc == IF Raised(i) = 1 THEN "expire" ELSE Counted(Raised(i))
<1>1. i \in Ip /\ slot[s] # Idle /\ count[i] \in 0 .. MaxViolations
  BY CountTypes DEF Incr, Incremented
<1>2. Raised(i) \in 1 .. MaxViolations /\ Raised(i) <= count[i] + 1
  BY <1>1 DEF Raised
<1>3. count' = [count EXCEPT ![i] = Raised(i)] /\ dies' = dies
  BY DEF Incr, Incremented
<1>4. count'[i] = Raised(i) /\ \A j \in Ip \ {i} : count'[j] = count[j]
  BY <1>1, <1>3, CountTypes
<1>5. Go(s, pc) /\ pc \in Calls \cup {"end"}
  BY DEF Incr, Counted
<1>6. /\ \A r \in Slot \ {s} : slot'[r] = slot[r]
      /\ slot'[s] # Idle =>
            /\ slot[s].call # "left" /\ slot'[s].call = "first" /\ slot'[s].ip = i
            /\ slot'[s].pc = pc
      /\ pc # "end" /\ slot[s].call # "left" => slot'[s] # Idle
  BY <1>1, <1>5, Moved
<1> HIDE DEF i
<1> QED
  BY <1>1, <1>2, <1>3, <1>4, <1>6 DEF i

LEMMA IncrCounting ==
  ASSUME TypeOK, TypeOK', Counting, NEW s \in Slot, Incr(s)
  PROVE  Counting'
<1> USE Settings
<1> DEFINE i == slot[s].ip
<1>1. /\ i \in Ip /\ slot[s] # Idle /\ count[i] \in 0 .. MaxViolations
      /\ count'[i] \in 1 .. MaxViolations /\ count'[i] <= count[i] + 1
      /\ \A j \in Ip \ {i} : count'[j] = count[j]
      /\ dies' = dies
      /\ \A r \in Slot \ {s} : slot'[r] = slot[r]
      /\ slot'[s] # Idle =>
            /\ slot[s].call # "left" /\ slot'[s].call = "first" /\ slot'[s].ip = i
            /\ slot'[s].pc = IF count'[i] = 1 THEN "expire" ELSE Counted(count'[i])
      /\ slot[s].call # "left" /\ count'[i] = 1 => slot'[s] # Idle
      /\ count'[i] = Raised(i)
  BY IncrCount
<1>0. slot[s].pc = "incr"
  BY DEF Incr, Incremented
<1>2. CASE slot[s].call = "left"
  <2>1. /\ recent' = recent /\ loose' = [loose EXCEPT ![i] = TRUE]
        /\ slot'[s] = Idle
    BY <1>1, <1>2 DEF Incr, Incremented
  <2>2. loose'[i] /\ \A j \in Ip \ {i} : loose'[j] = loose[j]
    BY <1>1, <2>1, CountTypes
  <2>3. CounterMortal'
    <3> SUFFICES ASSUME NEW j \in Ip \ {i}, count[j] > 0, dies[j] = Never, ~loose[j]
                 PROVE  \E r \in Slot : /\ slot'[r] # Idle /\ slot'[r].ip = j
                                        /\ slot'[r].pc = "expire" /\ slot'[r].call # "left"
      BY <1>1, <2>2 DEF CounterMortal
    <3>1. PICK r \in Slot : /\ slot[r] # Idle /\ slot[r].ip = j
                            /\ slot[r].pc = "expire" /\ slot[r].call # "left"
      BY DEF Counting, CounterMortal
    <3> QED
      BY <1>0, <1>1, <3>1
  <2>4. Ordered'
    BY <2>1 DEF Counting, Ordered
  <2>5. Dated'
    BY <1>1, <2>1, <2>2 DEF Counting, Dated, Fresh
  <2>6. Undated'
    <3>1. \A j \in Ip : Late(j)' => Late(j)
      BY <1>1, <2>1 DEF Late
    <3> QED
      BY <1>1, <2>1, <2>2, <3>1 DEF Counting, Undated, Fresh
  <2> QED
    BY <2>3, <2>4, <2>5, <2>6 DEF Counting
<1>3. CASE slot[s].call # "left"
  <2>1. /\ \A k \in 1 .. MaxViolations - 1 : recent'[i][k] = recent[i][k + 1]
        /\ recent'[i][MaxViolations] = 0
        /\ \A j \in Ip \ {i} : recent'[j] = recent[j]
        /\ UNCHANGED loose
    BY <1>3, IncrRecent
  <2>2. \A k \in 1 .. MaxViolations : recent[i][k] \in 0 .. ViolationWindow
    BY <1>1, CountTypes
  \* What counts after the step is the new violation or counted before it.
  <2>3. ASSUME NEW k \in 1 .. MaxViolations, k > MaxViolations - count'[i]
        PROVE  \/ recent'[i][k] = 0
               \/ /\ k + 1 \in 1 .. MaxViolations /\ Fresh(i, k + 1)
                  /\ recent'[i][k] = recent[i][k + 1]
    <3>1. CASE k = MaxViolations
      BY <2>1, <3>1
    <3>2. CASE k < MaxViolations
      BY <1>1, <2>1, <2>3, <3>2 DEF Fresh
    <3> QED
      BY <3>1, <3>2
  <2>4. CounterMortal'
    <3> SUFFICES ASSUME NEW j \in Ip, count'[j] > 0, dies[j] = Never, ~loose[j]
                 PROVE  \E r \in Slot : /\ slot'[r] # Idle /\ slot'[r].ip = j
                                        /\ slot'[r].pc = "expire" /\ slot'[r].call # "left"
      BY <1>1, <2>1 DEF CounterMortal
    <3>1. CASE j = i /\ count[i] = 0
      <4>1. count'[i] = 1
        BY <1>1, <3>1
      <4> QED
        BY <1>1, <1>3, <3>1, <4>1
    <3>2. CASE count[j] > 0
      <4>1. PICK r \in Slot : /\ slot[r] # Idle /\ slot[r].ip = j
                              /\ slot[r].pc = "expire" /\ slot[r].call # "left"
        BY <3>2 DEF Counting, CounterMortal
      <4> QED
        BY <1>0, <1>1, <4>1
    <3> QED
      BY <1>1, <3>1, <3>2, CountTypes
  <2>5. Ordered'
    <3> SUFFICES ASSUME NEW j \in Ip, NEW k \in 1 .. MaxViolations - 1
                 PROVE  recent'[j][k + 1] <= recent'[j][k]
      BY DEF Ordered
    <3>1. CASE j # i
      BY <2>1, <3>1 DEF Counting, Ordered
    <3>2. CASE j = i /\ k + 1 = MaxViolations
      BY <2>1, <2>2, <3>2
    <3>3. CASE j = i /\ k + 1 < MaxViolations
      <4>1. k + 1 \in 1 .. MaxViolations - 1
        BY <3>3
      <4>2. recent'[i][k] = recent[i][k + 1] /\ recent'[i][k + 1] = recent[i][k + 1 + 1]
        BY <2>1, <4>1
      <4> QED
        BY <1>1, <3>3, <4>1, <4>2 DEF Counting, Ordered
    <3> QED
      BY <3>1, <3>2, <3>3
  <2>6. Dated'
    <3> SUFFICES ASSUME NEW j \in Ip, ~loose[j], NEW k \in 1 .. MaxViolations,
                        k > MaxViolations - count'[j]
                 PROVE  recent'[j][k] = 0 \/ recent'[j][k] <= ViolationWindow - dies[j]
      BY <1>1, <2>1 DEF Dated, Fresh
    <3>1. CASE j # i
      BY <1>1, <2>1, <3>1 DEF Counting, Dated, Fresh
    <3>2. CASE j = i
      BY <1>1, <2>3, <3>2 DEF Counting, Dated
    <3> QED
      BY <3>1, <3>2
  <2>7. Undated'
    <3> SUFFICES ASSUME NEW j \in Ip, Late(j)', ~loose[j], NEW k \in 1 .. MaxViolations,
                        k > MaxViolations - count'[j]
                 PROVE  recent'[j][k] = 0
      BY <2>1 DEF Undated, Fresh
    <3>1. CASE j # i
      <4>1. Late(j)
        BY <1>1, <3>1 DEF Late
      <4> QED
        BY <1>1, <2>1, <3>1, <4>1 DEF Counting, Undated, Fresh
    <3>2. CASE j = i /\ Late(i)
      BY <1>1, <2>3, <3>2 DEF Counting, Undated
    <3>3. CASE j = i /\ ~Late(i)
      <4>1. PICK r \in Slot : slot'[r] # Idle /\ slot'[r].pc = "expire" /\ slot'[r].ip = i
        BY <3>3 DEF Late
      <4>2. r = s
        BY <1>1, <3>3, <4>1 DEF Late
      <4>3. count'[i] = 1
        BY <1>1, <4>1, <4>2 DEF Counted
      <4>4. k = MaxViolations
        BY <3>3, <4>3
      <4> QED
        BY <2>1, <3>3, <4>4
    <3> QED
      BY <3>1, <3>2, <3>3
  <2> QED
    BY <2>4, <2>5, <2>6, <2>7 DEF Counting
<1> QED
  BY <1>2, <1>3

LEMMA ExpireCounting ==
  ASSUME TypeOK, TypeOK', Counting, NEW s \in Slot, Expire(s)
  PROVE  Counting'
<1> USE Settings
<1> DEFINE i == slot[s].ip
<1>1. slot[s] # Idle /\ i \in Ip /\ Go(s, Counted(1)) /\ Counted(1) \in {"ban", "end"}
  BY CountTypes DEF Expire, Counted
<1>2. /\ \A r \in Slot \ {s} : slot'[r] = slot[r]
      /\ slot'[s] = Idle \/ slot'[s].pc = "ban"
  BY <1>1, Moved
<1>3. /\ UNCHANGED <<count, recent, loose>>
      /\ \A j \in Ip \ {i} : dies'[j] = dies[j]
      /\ count[i] # 0 => dies'[i] = ViolationWindow
  BY <1>1, CountTypes DEF Expire
<1>4. Late(i)
  BY <1>1 DEF Late, Expire
<1>5. CounterMortal'
  <2> SUFFICES ASSUME NEW j \in Ip, count[j] > 0, dies'[j] = Never, ~loose[j]
               PROVE  \E r \in Slot : /\ slot'[r] # Idle /\ slot'[r].ip = j
                                      /\ slot'[r].pc = "expire" /\ slot'[r].call # "left"
    BY <1>3 DEF CounterMortal
  <2>1. j # i /\ dies[j] = Never
    BY <1>3, CountTypes
  <2>2. PICK r \in Slot : /\ slot[r] # Idle /\ slot[r].ip = j
                          /\ slot[r].pc = "expire" /\ slot[r].call # "left"
    BY <2>1 DEF Counting, CounterMortal
  <2> QED
    BY <1>2, <2>1, <2>2
<1>6. Ordered'
  BY <1>3 DEF Counting, Ordered
<1>7. Dated'
  <2> SUFFICES ASSUME NEW j \in Ip, ~loose[j], NEW k \in 1 .. MaxViolations, Fresh(j, k)
               PROVE  recent[j][k] = 0 \/ recent[j][k] <= ViolationWindow - dies'[j]
    BY <1>3 DEF Dated, Fresh
  <2>1. CASE j = i
    BY <1>4, <2>1 DEF Counting, Undated
  <2>2. CASE j # i
    BY <1>3, <2>2 DEF Counting, Dated
  <2> QED
    BY <2>1, <2>2
<1>8. Undated'
  <2>1. \A j \in Ip : Late(j)' => Late(j)
    BY <1>2 DEF Late
  <2> QED
    BY <1>3, <2>1 DEF Counting, Undated, Fresh
<1> QED
  BY <1>5, <1>6, <1>7, <1>8 DEF Counting

LEMMA ResetCounting ==
  ASSUME TypeOK, TypeOK', Counting, NEW s \in Slot, Reset(s)
  PROVE  Counting'
<1> USE Settings
<1> DEFINE i == slot[s].ip
<1>1. slot[s] # Idle /\ i \in Ip /\ Go(s, "end")
  BY CountTypes DEF Reset
<1>2. /\ slot'[s] = Idle /\ \A r \in Slot \ {s} : slot'[r] = slot[r]
      /\ slot[s].pc # "expire"
  BY <1>1, Moved DEF Reset
<1>3. /\ recent' = recent /\ count'[i] = 0
      /\ \A j \in Ip \ {i} : count'[j] = count[j] /\ dies'[j] = dies[j] /\ loose'[j] = loose[j]
  BY <1>1, CountTypes DEF Reset, NoCounter
<1>4. \A k \in 1 .. MaxViolations : ~(k > MaxViolations - count'[i])
  BY <1>3
<1>5. CounterMortal'
  <2> SUFFICES ASSUME NEW j \in Ip, count'[j] > 0, dies'[j] = Never, ~loose'[j]
               PROVE  \E r \in Slot : /\ slot'[r] # Idle /\ slot'[r].ip = j
                                      /\ slot'[r].pc = "expire" /\ slot'[r].call # "left"
    BY DEF CounterMortal
  <2>1. j # i /\ count[j] > 0 /\ dies[j] = Never /\ ~loose[j]
    BY <1>3
  <2>2. PICK r \in Slot : /\ slot[r] # Idle /\ slot[r].ip = j
                          /\ slot[r].pc = "expire" /\ slot[r].call # "left"
    BY <2>1 DEF Counting, CounterMortal
  <2> QED
    BY <1>2, <2>1, <2>2
<1>6. Ordered'
  BY <1>3 DEF Counting, Ordered
<1>7. Dated'
  BY <1>3, <1>4 DEF Counting, Dated, Fresh
<1>8. Undated'
  <2>1. \A j \in Ip : Late(j)' => Late(j)
    BY <1>2 DEF Late
  <2> QED
    BY <1>3, <1>4, <2>1 DEF Counting, Undated, Fresh
<1> QED
  BY <1>5, <1>6, <1>7, <1>8 DEF Counting

LEMMA TickCounting ==
  ASSUME TypeOK, TypeOK', Counting, Tick
  PROVE  Counting'
<1> USE Settings
<1>1. ASSUME NEW j \in Ip
      PROVE  /\ dies[j] = 1 => count'[j] = 0
             /\ dies[j] # 1 => count'[j] = count[j]
             /\ dies[j] \notin {1, Never} => dies'[j] = dies[j] - 1
             /\ loose'[j] = (count'[j] > 0 /\ (loose[j] \/ Late(j)))
             /\ \A k \in 1 .. MaxViolations : recent'[j][k] =
                   IF recent[j][k] < ViolationWindow THEN recent[j][k] + 1 ELSE ViolationWindow
             /\ \A k \in 1 .. MaxViolations : recent[j][k] \in 0 .. ViolationWindow
             /\ dies[j] \in 1 .. Never /\ count[j] \in 0 .. MaxViolations
             /\ count'[j] \in 0 .. MaxViolations
  BY CountTypes DEF Tick
\* A counter in order has a deadline, or a handler for it and is loose now.
<1>2. ASSUME NEW j \in Ip, count'[j] > 0, ~loose'[j]
      PROVE  /\ dies[j] \in 2 .. ViolationWindow /\ dies'[j] = dies[j] - 1
             /\ count'[j] = count[j] /\ ~loose[j] /\ ~Late(j)
  <2>1. dies[j] # 1 /\ count[j] > 0 /\ count'[j] = count[j]
    BY <1>1, <1>2
  <2>2. ~loose[j] /\ ~Late(j)
    BY <1>1, <1>2
  <2>3. dies[j] # Never
    BY <2>1, <2>2 DEF Counting, CounterMortal, Late
  <2> QED
    BY <1>1, <2>1, <2>2, <2>3
<1>3. CounterMortal'
  BY <1>2 DEF CounterMortal
<1>4. Ordered'
  <2> SUFFICES ASSUME NEW j \in Ip, NEW k \in 1 .. MaxViolations - 1
               PROVE  recent'[j][k + 1] <= recent'[j][k]
    BY DEF Ordered
  <2>1. recent[j][k + 1] <= recent[j][k] /\ k \in 1 .. MaxViolations /\ k + 1 \in 1 .. MaxViolations
    BY DEF Counting, Ordered
  <2> QED
    BY <1>1, <2>1
<1>5. Dated'
  <2> SUFFICES ASSUME NEW j \in Ip, ~loose'[j], NEW k \in 1 .. MaxViolations,
                      k > MaxViolations - count'[j]
               PROVE  recent'[j][k] <= ViolationWindow - dies'[j]
    BY DEF Dated, Fresh
  <2>1. count'[j] > 0
    BY <1>1
  <2>2. /\ dies[j] \in 2 .. ViolationWindow /\ dies'[j] = dies[j] - 1
        /\ count'[j] = count[j] /\ ~loose[j]
    BY <1>2, <2>1
  <2>3. recent[j][k] = 0 \/ recent[j][k] <= ViolationWindow - dies[j]
    BY <2>2 DEF Counting, Dated, Fresh
  <2> QED
    BY <1>1, <2>2, <2>3
<1>6. Undated'
  <2> SUFFICES ASSUME NEW j \in Ip, Late(j)', ~loose'[j], NEW k \in 1 .. MaxViolations,
                      k > MaxViolations - count'[j]
               PROVE  FALSE
    BY DEF Undated, Fresh
  <2>1. count'[j] > 0
    BY <1>1
  <2>2. Late(j)
    BY Ticked DEF Late
  <2> QED
    BY <1>2, <2>1, <2>2
<1> QED
  BY <1>3, <1>4, <1>5, <1>6 DEF Counting

LEMMA StrayCounting ==
  ASSUME TypeOK, TypeOK', Counting, NEW s \in Slot, Stray(s)
  PROVE  Counting'
<1>1. PICK q \in {Idle} \cup Active :
        /\ Unanswered(s, q)
        /\ q # Idle =>
              /\ q.op = slot[s].op /\ q.ip = slot[s].ip
              /\ slot[s].blind => q.blind
              /\ \/ q.pc = slot[s].pc
                 \/ q.pc = Failed(slot[s]) /\ (slot[s].pc = "check" => q.blind)
        /\ \/ /\ slot[s].call = "first" /\ UNCHANGED loose
              /\ q # Idle /\ q.pc = slot[s].pc /\ q.call # "left"
           \/ slot[s].call # "left" /\ GivenUp(s)
  BY StrayTo
<1>2. /\ slot[s] \in Active /\ slot[s] # Idle /\ slot[s].ip \in Ip
      /\ UNCHANGED <<count, dies, recent>>
  BY StrayTo DEF Active
<1>3. /\ q # Idle => slot'[s] = q
      /\ \A r \in Slot :
            \/ slot'[r] = slot[r] /\ r # s
            \/ slot'[r] = q /\ r = s
            \/ /\ slot[r] = Idle \/ r = s
               /\ slot'[r] # Idle /\ slot'[r].pc = slot[s].pc /\ slot'[r].ip = slot[s].ip
  BY <1>1, <1>2, Strayed
<1>4. \A i \in Ip : loose[i] => loose'[i]
  BY <1>1, CountTypes DEF GivenUp
<1>5. ASSUME NEW i \in Ip, Late(i)'
      PROVE  Late(i)
  <2>1. PICK r \in Slot : slot'[r] # Idle /\ slot'[r].pc = "expire" /\ slot'[r].ip = i
    BY <1>5 DEF Late
  <2>2. \/ slot'[r] = slot[r]
        \/ slot'[r] = q
        \/ slot'[r].pc = slot[s].pc /\ slot'[r].ip = slot[s].ip
    BY <1>3
  <2>3. CASE slot'[r] = slot[r]
    BY <2>1, <2>3 DEF Late
  <2>4. CASE slot'[r] = q
    <3>1. slot[s].pc = "expire" /\ slot[s].ip = i
      BY <1>1, <2>1, <2>4 DEF Failed, Unbanned, Unlisted
    <3> QED
      BY <1>2, <3>1 DEF Late
  <2>5. CASE slot'[r].pc = slot[s].pc /\ slot'[r].ip = slot[s].ip
    BY <1>2, <2>1, <2>5 DEF Late
  <2> QED
    BY <2>2, <2>3, <2>4, <2>5
<1>6. ASSUME NEW r \in Slot, slot[r].pc = "expire", slot[r].call # "left"
      PROVE  \/ count[slot[r].ip] > 0 => loose'[slot[r].ip]
             \/ /\ slot'[r] # Idle /\ slot'[r].pc = "expire" /\ slot'[r].ip = slot[r].ip
                /\ slot'[r].call # "left"
  <2>1. CASE r # s
    BY <1>3, <1>6, <2>1
  <2>2. CASE r = s /\ q # Idle /\ q.pc = slot[s].pc /\ q.call # "left"
    BY <1>1, <1>3, <1>6, <2>2
  <2>3. CASE r = s /\ GivenUp(s)
    BY <1>2, <1>6, <2>3, CountTypes DEF GivenUp
  <2> QED
    BY <1>1, <2>1, <2>2, <2>3
<1> QED
  BY <1>2, <1>4, <1>5, <1>6, Quiet

LEMMA CountingStep ==
  ASSUME TypeOK, TypeOK', Counting, [Next]_vars
  PROVE  Counting'
\* A step of s that only moves on, and neither from nor to EXPIRE.
<1>1. ASSUME NEW s \in Slot, slot[s] # Idle, slot[s].pc # "expire",
             NEW pc \in (Calls \ {"expire"}) \cup {"end"}, Go(s, pc),
             UNCHANGED <<count, dies, recent, loose>>
      PROVE  Counting'
  <2>1. \A r \in Slot \ {s} : slot'[r] = slot[r]
    BY <1>1, Moved
  <2>2. slot'[s].pc # "expire"
    BY <1>1, Moved
  <2> QED
    BY <1>1, <2>1, <2>2, QuietGo
<1>2. ASSUME NEW s \in Slot, slot[s].pc \in {"ban", "set"}, NEW next \in {"reset", "info"},
             Write(s, next)
      PROVE  Counting'
  <2>1. slot[s] # Idle /\ UNCHANGED <<count, dies, recent, loose>>
    BY <1>2 DEF Write
  <2>2. /\ slot'[s] = Idle \/ slot'[s].pc = next
        /\ \A r \in Slot \ {s} :
              /\ slot[r] = Idle => slot'[r] = Idle
              /\ slot[r] # Idle =>
                    /\ slot'[r] # Idle /\ slot'[r].pc = slot[r].pc
                    /\ slot'[r].ip = slot[r].ip /\ slot'[r].call = slot[r].call
    BY <1>2, <2>1, Written
  <2>3. slot'[s].pc # "expire"
    BY <2>2
  <2> QED
    BY <1>2, <2>1, <2>2, <2>3, QuietGo
<1>3. ASSUME NEW s \in Slot, Arrive(s)
      PROVE  Counting'
  <2>1. /\ slot[s].pc # "expire" /\ slot'[s].pc # "expire"
        /\ \A r \in Slot \ {s} : slot'[r] = slot[r]
        /\ UNCHANGED <<count, dies, recent, loose>>
    BY <1>3, Begun
  <2> QED
    BY <2>1, QuietGo
<1>4. ASSUME NEW s \in Slot, Handle(s)
      PROVE  Counting'
  <2>1. CASE Check(s)
    <3>1. slot[s].pc = "check" /\ slot[s] \in Active /\ slot[s].ip \in Ip
      BY <2>1 DEF Check, TypeOK, Active
    <3>2. PICK pc \in (Calls \ {"expire"}) \cup {"end"} : Go(s, pc)
      BY <2>1, <3>1 DEF Check, Unbanned, TypeOK
    <3> QED
      BY <1>1, <2>1, <3>1, <3>2 DEF Check
  <2>2. CASE Info(s)
    BY <1>1, <2>2 DEF Info
  <2>3. CASE Purge(s)
    BY <1>1, <2>3 DEF Purge, Unbanned
  <2>4. CASE White(s)
    BY <1>1, <2>4 DEF White, Unlisted
  <2>5. CASE CheckLimit(s)
    BY <1>1, <2>5 DEF CheckLimit
  <2>6. CASE Incr(s)
    BY <2>6, IncrCounting
  <2>7. CASE Expire(s)
    BY <2>7, ExpireCounting
  <2>8. CASE Ban(s)
    BY <1>2, <2>8 DEF Ban
  <2>9. CASE Set(s)
    BY <1>2, <2>9 DEF Set
  <2>10. CASE Reset(s)
    BY <2>10, ResetCounting
  <2>11. CASE Unban(s)
    BY <1>1, <2>11 DEF Unban
  <2> QED
    BY <1>4, <2>1, <2>2, <2>3, <2>4, <2>5, <2>6, <2>7, <2>8, <2>9, <2>10, <2>11 DEF Handle
<1>5. ASSUME UNCHANGED <<slot, count, dies, recent, loose>>
      PROVE  Counting'
  <2>1. \A i \in Ip : Late(i)' => Late(i)
    BY <1>5 DEF Late
  <2>2. \A r \in Slot : slot[r].pc = "expire" => slot[r] # Idle
    OBVIOUS
  <2> QED
    BY <1>5, <2>1, <2>2, Quiet
<1>6. CASE EditWhitelist
  BY <1>5, <1>6 DEF EditWhitelist
<1>7. CASE Evict
  BY <1>5, <1>7 DEF Evict
<1>8. CASE UNCHANGED vars
  BY <1>5, <1>8 DEF vars
<1> QED
  BY <1>3, <1>4, <1>6, <1>7, <1>8, StrayCounting, TickCounting DEF Next

LEMMA CountingInit == Init => Counting
<1> SUFFICES ASSUME Init PROVE Counting
  OBVIOUS
<1>1. CounterMortal /\ Undated
  BY DEF Init, CounterMortal, Undated, Late
<1>2. Ordered
  BY Settings DEF Init, Ordered
<1>3. Dated
  BY Settings DEF Init, Dated, Fresh
<1> QED
  BY <1>1, <1>2, <1>3 DEF Counting

\* Only the answer of INCR takes a handler from there to the ban.
LEMMA Deciding ==
  ASSUME TypeOK, [Next]_vars, NEW s \in Slot, slot[s].pc = "incr", slot'[s].pc = "ban"
  PROVE  Incr(s)
<1>1. slot[s] # Idle
  OBVIOUS
<1>2. ASSUME NEW r \in Slot, Arrive(r) PROVE FALSE
  BY <1>1, <1>2, Begun
<1>3. ASSUME NEW r \in Slot, Handle(r) PROVE r = s
  <2> SUFFICES ASSUME r # s PROVE FALSE
    OBVIOUS
  <2>1. ASSUME slot[r].pc \in {"ban", "set"}, NEW next \in {"reset", "info"}, Write(r, next)
        PROVE  FALSE
    BY <1>1, <2>1, Written
  <2>2. CASE Ban(r) \/ Set(r)
    BY <2>1, <2>2 DEF Ban, Set
  <2>3. CASE ~(Ban(r) \/ Set(r))
    <3>1. slot'[s] = slot[s]
      BY <1>3, <2>3 DEF Handle, Check, Info, Purge, White, CheckLimit, Incr, Expire, Reset, Unban,
                        Go, TypeOK
    <3> QED
      BY <3>1
  <2> QED
    BY <2>2, <2>3
<1>4. ASSUME NEW r \in Slot, Stray(r) PROVE FALSE
  <2>1. PICK q \in {Idle} \cup Active :
          /\ Unanswered(r, q)
          /\ q # Idle => q.pc = slot[r].pc \/ q.pc = Failed(slot[r])
    BY <1>4, StrayTo
  <2>2. slot[r] \in Active /\ slot[r] # Idle
    BY <1>4, StrayTo DEF Active
  <2>3. \/ slot'[s] = slot[s]
        \/ slot'[s] = q /\ r = s
        \/ r = s /\ slot'[s].pc = slot[r].pc
    BY <1>1, <2>1, <2>2, Strayed
  <2> QED
    BY <1>1, <2>1, <2>3 DEF Failed
<1>5. Handle(s)
  <2>1. ~Tick
    BY <1>1, Ticked
  <2>2. ~EditWhitelist /\ ~Evict /\ ~UNCHANGED vars
    BY DEF EditWhitelist, Evict, vars
  <2> QED
    BY <1>2, <1>3, <1>4, <2>1, <2>2 DEF Next
<1> QED
  BY <1>5 DEF Handle, Check, Info, Purge, White, CheckLimit, Expire, Ban, Set, Reset, Unban

LEMMA EarnedStep ==
  ASSUME TypeOK, Counting, [Next]_vars, NEW s \in Slot
  PROVE  Earned(s)
<1> USE Settings
<1> SUFFICES ASSUME slot[s].pc = "incr", slot'[s].pc = "ban", ~loose[slot[s].ip]
             PROVE  recent'[slot[s].ip][1] < ViolationWindow
  BY DEF Earned
<1> DEFINE i == slot[s].ip
<1>1. Incr(s)
  BY Deciding
<1>2. /\ i \in Ip /\ slot[s].call # "left" /\ count'[i] <= count[i] + 1
      /\ count[i] \in 0 .. MaxViolations /\ count'[i] \in 1 .. MaxViolations
      /\ count'[i] # 1 /\ Counted(count'[i]) = "ban"
  BY <1>1, IncrCount
<1>3. count'[i] = MaxViolations /\ 2 \in 1 .. MaxViolations /\ Fresh(i, 2)
  BY <1>2 DEF Counted, Fresh
<1>4. recent'[i][1] = recent[i][2]
  BY <1>1, <1>2, <1>3, IncrRecent
<1>5. recent[i][2] = 0 \/ recent[i][2] <= ViolationWindow - dies[i]
  BY <1>2, <1>3 DEF Counting, Dated
<1>6. dies[i] \in 1 .. Never /\ recent[i][2] \in 0 .. ViolationWindow
  BY <1>2, <1>3, CountTypes
<1> QED
  BY <1>4, <1>5, <1>6

\* The service bans only for MaxViolations violations within the window, whatever
\* the other handlers, the administrator, failures and restarts do, unless the counter
\* was raised twice for one of them or lost its deadline.
THEOREM BansEarned == Spec => BanEarned
<1>1. TypeOK /\ TypeOK' /\ Counting /\ [Next]_vars => Counting'
  BY CountingStep
<1>2. TypeOK /\ Counting /\ [Next]_vars => \A s \in Slot : Earned(s)
  BY EarnedStep
<1> QED
  BY <1>1, <1>2, CountingInit, TypeCorrect, PTL DEF Spec, BanEarned

\* A violation is counted for ever only if its counter lost the one EXPIRE that its
\* first violation sends.
THEOREM CountersMortal == Spec => []CounterMortal
<1>1. TypeOK /\ TypeOK' /\ Counting /\ [Next]_vars => Counting'
  BY CountingStep
<1>2. Counting => CounterMortal
  BY DEF Counting
<1> QED
  BY <1>1, <1>2, CountingInit, TypeCorrect, PTL DEF Spec

=============================================================================
