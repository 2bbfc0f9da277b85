---------------------------- MODULE ServicesProofs ----------------------------
(***************************************************************************)
(* Two protocols of Services proved for any arguments, hosts, input and    *)
(* children: each SaveYourself is answered once, and the screen locker is  *)
(* running or armed.                                                       *)
(***************************************************************************)
EXTENDS Services, TimerTheorems
-----------------------------------------------------------------------------
(* Messages in a queue *)

ToQv == {"SaveYourself", "SaveYourselfPhase2", "ShutdownCancelled", "SaveComplete", "Die", "IOError"}
ToSm == {"SaveYourselfDone", "Phase2Request", "SaveYourselfRequest"}

\* The messages that are answered if nothing has been answered before.
Prompt == {"SaveYourselfPhase2", "ShutdownCancelled"}

None(q, m) == \A i \in DOMAIN q : q[i] # m
One(q, m) == \E i \in DOMAIN q : q[i] = m /\ \A j \in DOMAIN q : q[j] = m => j = i

\* The prompts in q find the answer given, if b is saveDone.
Idly(q, b) == \A i \in DOMAIN q : q[i] \in Prompt => b

\* q has one SaveYourself, and the prompts before it find the answer given.
Asked(q, b) ==
    \E i \in DOMAIN q :
        /\ q[i] = "SaveYourself"
        /\ \A j \in DOMAIN q : /\ q[j] = "SaveYourself" => j = i
                               /\ j < i /\ q[j] \in Prompt => b

\* A message is sent.
LEMMA Sent ==
    ASSUME NEW S, NEW q \in Seq(S), NEW e \in S
    PROVE  LET r == Append(q, e)
           IN  /\ r \in Seq(S)
               /\ \A m \in S : (None(q, m) /\ e # m) => None(r, m)
               /\ \A m \in S : (One(q, m) /\ e # m) => One(r, m)
               /\ \A m \in S : (None(q, m) /\ e = m) => One(r, m)
               /\ \A b \in BOOLEAN : (Idly(q, b) /\ (e \in Prompt => b)) => Idly(r, b)
               /\ \A b \in BOOLEAN : (Asked(q, b) /\ e # "SaveYourself") => Asked(r, b)
               /\ \A b \in BOOLEAN :
                     (None(q, "SaveYourself") /\ Idly(q, b) /\ e = "SaveYourself") => Asked(r, b)
  <1> DEFINE r == Append(q, e)  n == Len(q)
  <1>1. /\ r \in Seq(S) /\ n \in Nat /\ DOMAIN q = 1..n /\ DOMAIN r = 1..(n + 1)
        /\ \A i \in 1..n : r[i] = q[i]
        /\ r[n + 1] = e
    BY AppendProperties, LenProperties
  <1> HIDE DEF r, n
  <1>2. n + 1 \in 1..(n + 1) /\ (\A i \in 1..n : i \in 1..(n + 1) /\ i < n + 1)
        /\ \A i \in 1..(n + 1) : i \in 1..n \/ i = n + 1
    BY <1>1
  <1>3. ASSUME NEW m \in S PROVE (None(q, m) /\ e # m) => None(r, m)
    BY <1>1, <1>2 DEF None
  <1>4. ASSUME NEW m \in S PROVE (One(q, m) /\ e # m) => One(r, m)
    BY <1>1, <1>2 DEF One
  <1>5. ASSUME NEW m \in S PROVE (None(q, m) /\ e = m) => One(r, m)
    BY <1>1, <1>2 DEF None, One
  <1>6. ASSUME NEW b \in BOOLEAN PROVE (Idly(q, b) /\ (e \in Prompt => b)) => Idly(r, b)
    BY <1>1, <1>2 DEF Idly
  <1>7. ASSUME NEW b \in BOOLEAN, Asked(q, b), e # "SaveYourself" PROVE Asked(r, b)
    <2>1. PICK i \in 1..n :
             /\ q[i] = "SaveYourself"
             /\ \A j \in 1..n : /\ q[j] = "SaveYourself" => j = i
                                /\ j < i /\ q[j] \in Prompt => b
      BY <1>1, <1>7 DEF Asked
    <2>2. ~(n + 1 < i)
      BY <1>1
    <2>3. \A j \in 1..(n + 1) : /\ r[j] = "SaveYourself" => j = i
                                /\ j < i /\ r[j] \in Prompt => b
      BY <1>1, <1>2, <1>7, <2>1, <2>2
    <2> QED
      BY <1>1, <1>2, <2>1, <2>3 DEF Asked
  <1>8. ASSUME NEW b \in BOOLEAN, None(q, "SaveYourself"), Idly(q, b), e = "SaveYourself"
        PROVE  Asked(r, b)
    <2>1. \A j \in 1..(n + 1) : /\ r[j] = "SaveYourself" => j = n + 1
                                /\ j < n + 1 /\ r[j] \in Prompt => b
      BY <1>1, <1>2, <1>8 DEF None, Idly
    <2> QED
      BY <1>1, <1>2, <1>8, <2>1 DEF Asked
  <1> QED
    BY <1>1, <1>3, <1>4, <1>5, <1>6, <1>7, <1>8 DEF r

\* The message at the head is received.
LEMMA Taken ==
    ASSUME NEW S, NEW q \in Seq(S), q # <<>>
    PROVE  LET r == Tail(q)
           IN  /\ r \in Seq(S) /\ Head(q) \in S
               /\ \A m \in S : None(q, m) => None(r, m) /\ Head(q) # m
               /\ \A m \in S : (One(q, m) /\ Head(q) # m) => One(r, m)
               /\ \A m \in S : (One(q, m) /\ Head(q) = m) => None(r, m)
               /\ \A b \in BOOLEAN : Idly(q, b) => Idly(r, b) /\ (Head(q) \in Prompt => b)
               /\ \A b \in BOOLEAN :
                     (Asked(q, b) /\ Head(q) # "SaveYourself")
                     => Asked(r, b) /\ (Head(q) \in Prompt => b)
               /\ \A b \in BOOLEAN :
                     (Asked(q, b) /\ Head(q) = "SaveYourself") => None(r, "SaveYourself")
  <1> DEFINE r == Tail(q)  n == Len(q)
  <1>1. /\ r \in Seq(S) /\ n \in Nat /\ n > 0 /\ DOMAIN q = 1..n /\ DOMAIN r = 1..(n - 1)
        /\ \A i \in 1..(n - 1) : r[i] = q[i + 1]
        /\ Head(q) = q[1]
    BY HeadTailProperties, LenProperties, EmptySeq
  <1>2. Head(q) \in S
    BY <1>1, ElementOfSeq
  <1> HIDE DEF r, n
  <1>3. 1 \in 1..n /\ (\A i \in 1..(n - 1) : i + 1 \in 1..n /\ i + 1 # 1)
        /\ \A i \in 1..n : i # 1 => i - 1 \in 1..(n - 1) /\ i = (i - 1) + 1
    BY <1>1
  <1>4. ASSUME NEW m \in S, None(q, m) PROVE None(r, m) /\ Head(q) # m
    BY <1>1, <1>3, <1>4 DEF None
  <1>5. ASSUME NEW m \in S, One(q, m), Head(q) # m PROVE One(r, m)
    <2>1. PICK i \in 1..n : q[i] = m /\ \A j \in 1..n : q[j] = m => j = i
      BY <1>1, <1>5 DEF One
    <2>2. i - 1 \in 1..(n - 1) /\ r[i - 1] = m
      BY <1>1, <1>3, <1>5, <2>1
    <2>3. \A j \in 1..(n - 1) : r[j] = m => j = i - 1
      BY <1>1, <1>3, <2>1
    <2> QED
      BY <1>1, <2>2, <2>3 DEF One
  <1>6. ASSUME NEW m \in S, One(q, m), Head(q) = m PROVE None(r, m)
    <2>1. PICK i \in 1..n : q[i] = m /\ \A j \in 1..n : q[j] = m => j = i
      BY <1>1, <1>6 DEF One
    <2>2. i = 1
      BY <1>1, <1>3, <1>6, <2>1
    <2>3. \A j \in 1..(n - 1) : r[j] # m
      BY <1>1, <1>3, <2>1, <2>2
    <2> QED
      BY <1>1, <2>3 DEF None
  <1>7. ASSUME NEW b \in BOOLEAN, Idly(q, b) PROVE Idly(r, b) /\ (Head(q) \in Prompt => b)
    BY <1>1, <1>3, <1>7 DEF Idly
  <1>8. ASSUME NEW b \in BOOLEAN, Asked(q, b)
        PROVE  /\ Head(q) # "SaveYourself" => Asked(r, b) /\ (Head(q) \in Prompt => b)
               /\ Head(q) = "SaveYourself" => None(r, "SaveYourself")
    <2>1. PICK i \in 1..n :
             /\ q[i] = "SaveYourself"
             /\ \A j \in 1..n : /\ q[j] = "SaveYourself" => j = i
                                /\ j < i /\ q[j] \in Prompt => b
      BY <1>1, <1>8 DEF Asked
    <2>2. CASE Head(q) = "SaveYourself"
      BY <1>1, <1>3, <2>1, <2>2 DEF None
    <2>3. CASE Head(q) # "SaveYourself"
      <3>1. i - 1 \in 1..(n - 1) /\ r[i - 1] = "SaveYourself" /\ 1 < i
        BY <1>1, <1>3, <2>1, <2>3
      <3>2. \A j \in 1..(n - 1) : /\ r[j] = "SaveYourself" => j = i - 1
                                  /\ j < i - 1 /\ r[j] \in Prompt => b
        BY <1>1, <1>3, <2>1
      <3>3. Asked(r, b)
        BY <1>1, <3>1, <3>2 DEF Asked
      <3>4. Head(q) \in Prompt => b
        BY <1>1, <1>3, <2>1, <3>1
      <3> QED
        BY <2>3, <3>3, <3>4
    <2> QED
      BY <2>2, <2>3
  <1> QED
    BY <1>1, <1>2, <1>4, <1>5, <1>6, <1>7, <1>8 DEF r
-----------------------------------------------------------------------------
(* The answer to a SaveYourself *)

Phase == {"idle", "asked", "ready", "phase2", "saved", "dying", "cancelled", "lost"}

SessionType ==
    /\ conn \in [status : BOOLEAN, open : BOOLEAN, saveDone : BOOLEAN]
    /\ sm \in [phase : Phase, shutdown : BOOLEAN]
    /\ toQv \in Seq(ToQv) /\ toSm \in Seq(ToSm)

\* A save has not been read yet, has not been answered yet, or has been, with q and r
\* the queues and b saveDone; between two saves what is left of the last finds it answered.
Unread(b, q, r) == None(r, "SaveYourselfDone") /\ Asked(q, b)
Saving(b, q, r) == None(r, "SaveYourselfDone") /\ None(q, "SaveYourself") /\ ~b
Answered(b, q, r) == One(r, "SaveYourselfDone") /\ None(q, "SaveYourself") /\ b
Settled(b, q, r) == None(r, "SaveYourselfDone") /\ None(q, "SaveYourself") /\ Idly(q, b)

Saves(waiting, b, q, r) ==
    IF waiting THEN Unread(b, q, r) \/ Saving(b, q, r) \/ Answered(b, q, r) ELSE Settled(b, q, r)

SaveInv ==
    conn.open /\ sm.phase # "lost" =>
        /\ Saves(Waiting, conn.saveDone, toQv, toSm)
        /\ sm.phase = "saved" => conn.saveDone

SessionInv == SessionType /\ SaveInv

\* Neither queue holds two answers.
LEMMA AnsweredOnce ==
    ASSUME SessionInv
    PROVE  SaveAnsweredOnce
  <1> SUFFICES ASSUME conn.open, sm.phase # "lost", NEW i \in Dones, NEW j \in Dones
               PROVE  i = j /\ Waiting
    BY DEF SaveAnsweredOnce
  <1>1. ~None(toSm, "SaveYourselfDone")
    BY DEF Dones, None
  <1>2. Waiting /\ One(toSm, "SaveYourselfDone")
    BY <1>1 DEF SessionInv, SaveInv, Saves, Settled, Unread, Saving, Answered
  <1> QED
    BY <1>2 DEF One, Dones

\* The program reads what is at the head of its queue.
LEMMA ReadSave ==
    ASSUME NEW w \in BOOLEAN, NEW b \in BOOLEAN, NEW q \in Seq(ToQv), NEW r \in Seq(ToSm),
           q # <<>>, Saves(w, b, q, r)
    PROVE  /\ Head(q) \in Prompt =>
                 /\ b => Saves(w, b, Tail(q), r)
                 /\ ~b => Saves(w, TRUE, Tail(q), Append(r, "SaveYourselfDone"))
           /\ Head(q) = "SaveYourself" =>
                 /\ w /\ Saves(w, FALSE, Tail(q), Append(r, "Phase2Request"))
                 /\ Saves(w, TRUE, Tail(q), Append(r, "SaveYourselfDone"))
           /\ Head(q) \notin Prompt \cup {"SaveYourself"} => Saves(w, b, Tail(q), r)
  <1> DEFINE p == Tail(q)  h == Head(q)
             done == Append(r, "SaveYourselfDone")  ask == Append(r, "Phase2Request")
  <1>1. /\ None(q, "SaveYourself") => None(p, "SaveYourself") /\ h # "SaveYourself"
        /\ Idly(q, b) => Idly(p, b) /\ (h \in Prompt => b)
        /\ Asked(q, b) /\ h # "SaveYourself" => Asked(p, b) /\ (h \in Prompt => b)
        /\ Asked(q, b) /\ h = "SaveYourself" => None(p, "SaveYourself")
    BY Taken DEF ToQv
  <1>2. /\ None(r, "SaveYourselfDone") => One(done, "SaveYourselfDone")
        /\ None(r, "SaveYourselfDone") => None(ask, "SaveYourselfDone")
    BY Sent DEF ToSm
  <1>3. "SaveYourself" \notin Prompt
    BY DEF Prompt
  <1> HIDE DEF p, h, done, ask
  <1>4. h \in Prompt => /\ b => Saves(w, b, p, r)
                        /\ ~b => Saves(w, TRUE, p, done)
    BY <1>1, <1>2, <1>3 DEF Saves, Unread, Saving, Answered, Settled
  <1>5. h = "SaveYourself" => w /\ Saves(w, FALSE, p, ask) /\ Saves(w, TRUE, p, done)
    BY <1>1, <1>2, <1>3 DEF Saves, Unread, Saving, Answered, Settled
  <1>6. h \notin Prompt \cup {"SaveYourself"} => Saves(w, b, p, r)
    BY <1>1 DEF Saves, Unread, Saving, Answered, Settled
  <1> QED
    BY <1>4, <1>5, <1>6 DEF p, h, done, ask

\* The session manager sends a message.
LEMMA SendSave ==
    ASSUME NEW w \in BOOLEAN, NEW b \in BOOLEAN, NEW q \in Seq(ToQv), NEW r, NEW e \in ToQv,
           Saves(w, b, q, r)
    PROVE  /\ e # "SaveYourself" /\ (e \in Prompt => w \/ b) => Saves(w, b, Append(q, e), r)
           /\ e = "SaveYourself" /\ ~w => Saves(TRUE, b, Append(q, e), r)
  <1> DEFINE p == Append(q, e)
  <1>1. /\ None(q, "SaveYourself") /\ e # "SaveYourself" => None(p, "SaveYourself")
        /\ Idly(q, b) /\ (e \in Prompt => b) => Idly(p, b)
        /\ Asked(q, b) /\ e # "SaveYourself" => Asked(p, b)
        /\ None(q, "SaveYourself") /\ Idly(q, b) /\ e = "SaveYourself" => Asked(p, b)
    BY Sent DEF ToQv
  <1> HIDE DEF p
  <1>2. e # "SaveYourself" /\ (e \in Prompt => w \/ b) => Saves(w, b, p, r)
    BY <1>1 DEF Saves, Unread, Saving, Answered, Settled
  <1>3. e = "SaveYourself" /\ ~w => Saves(TRUE, b, p, r)
    BY <1>1 DEF Saves, Unread, Settled
  <1> QED
    BY <1>2, <1>3 DEF p

\* The session manager receives a message.
LEMMA ReceiveSave ==
    ASSUME NEW w \in BOOLEAN, NEW b \in BOOLEAN, NEW q, NEW r \in Seq(ToSm), r # <<>>,
           Saves(w, b, q, r)
    PROVE  /\ Head(r) # "SaveYourselfDone" => Saves(w, b, q, Tail(r))
           /\ Head(r) = "SaveYourselfDone" => w /\ b /\ Saves(FALSE, b, q, Tail(r))
  <1> DEFINE t == Tail(r)  h == Head(r)  D == "SaveYourselfDone"
  <1>1. /\ None(r, D) => None(t, D) /\ h # D
        /\ One(r, D) /\ h # D => One(t, D)
        /\ One(r, D) /\ h = D => None(t, D)
    BY Taken DEF ToSm
  <1>2. b => Idly(q, b)
    BY DEF Idly
  <1> HIDE DEF t, h
  <1>3. h # D => Saves(w, b, q, t)
    BY <1>1 DEF Saves, Unread, Saving, Answered, Settled
  <1>4. h = D => w /\ b /\ Saves(FALSE, b, q, t)
    BY <1>1, <1>2 DEF Saves, Unread, Saving, Answered, Settled
  <1> QED
    BY <1>3, <1>4 DEF t, h

\* The user quits, n times at once.
LEMMA QuitSave ==
    ASSUME NEW w \in BOOLEAN, NEW b \in BOOLEAN, NEW q, NEW r \in Seq(ToSm), NEW n \in Nat,
           Saves(w, b, q, r)
    PROVE  LET p == r \o [i \in 1..n |-> "SaveYourselfRequest"]
           IN  p \in Seq(ToSm) /\ Saves(w, b, q, p)
  <1> DEFINE quits == [i \in 1..n |-> "SaveYourselfRequest"]  p == r \o quits
             D == "SaveYourselfDone"
  <1>1. quits \in Seq(ToSm) /\ Len(quits) = n
    BY IsASeq, LenProperties DEF ToSm
  <1>2. /\ p \in Seq(ToSm) /\ Len(p) = Len(r) + n /\ Len(r) \in Nat
        /\ DOMAIN r = 1..Len(r) /\ DOMAIN p = 1..Len(p)
        /\ \A i \in 1..Len(p) : p[i] = IF i <= Len(r) THEN r[i] ELSE quits[i - Len(r)]
    BY <1>1, ConcatProperties, LenProperties
  <1>3. \A i \in 1..Len(p) : \/ i \in 1..Len(r) /\ p[i] = r[i]
                             \/ i \notin 1..Len(r) /\ p[i] # D
    <2> SUFFICES ASSUME NEW i \in 1..Len(p), i \notin 1..Len(r) PROVE p[i] # D
      BY <1>2
    <2>1. i - Len(r) \in 1..n /\ ~(i <= Len(r))
      BY <1>2
    <2> QED
      BY <1>2, <2>1
  <1>4. \A i \in 1..Len(r) : i \in 1..Len(p) /\ p[i] = r[i]
    BY <1>2
  <1> HIDE DEF p, quits
  <1>5. None(r, D) => None(p, D)
    BY <1>2, <1>3 DEF None
  <1>6. One(r, D) => One(p, D)
    BY <1>2, <1>3, <1>4 DEF One
  <1>7. Saves(w, b, q, p)
    BY <1>5, <1>6 DEF Saves, Unread, Saving, Answered, Settled
  <1> QED
    BY <1>2, <1>7 DEF p, quits

\* The program has no session, or has begun one.
LEMMA SessionBegins ==
    ASSUME conn' \in {NoSession, [NoSession EXCEPT !.status = TRUE, !.open = TRUE]},
           sm' = NoManager, toQv' = <<>>, toSm' = <<>>
    PROVE  SessionInv'
  <1>1. SessionType'
    <2>1. conn' \in [status : BOOLEAN, open : BOOLEAN, saveDone : BOOLEAN]
      <3>1. NoSession \in [status : BOOLEAN, open : BOOLEAN, saveDone : BOOLEAN]
        BY DEF NoSession
      <3> QED
        BY <3>1
    <2>2. sm' \in [phase : Phase, shutdown : BOOLEAN]
      BY DEF NoManager, Phase
    <2>3. toQv' \in Seq(ToQv) /\ toSm' \in Seq(ToSm)
      BY EmptySeq
    <2> QED
      BY <2>1, <2>2, <2>3 DEF SessionType
  <1>2. ~Waiting' /\ sm'.phase = "idle"
    BY DEF Waiting, NoManager
  <1>3. Settled(conn'.saveDone, toQv', toSm')
    BY DEF Settled, None, Idly
  <1> QED
    BY <1>1, <1>2, <1>3 DEF SessionInv, SaveInv, Saves

\* A message is read: the callbacks of Session.
LEMMA ProcessMessageStep ==
    ASSUME SessionInv, ProcessMessage
    PROVE  SessionInv'
  <1> DEFINE m == Head(toQv)
  <1>1. SessionType /\ toQv # <<>> /\ conn.open /\ toQv' = Tail(toQv) /\ sm' = sm /\ m # "Die"
    BY DEF SessionInv, ProcessMessage, Received
  <1>2. m \in ToQv /\ toQv' \in Seq(ToQv)
    BY <1>1, Taken DEF SessionType
  <1>3. /\ conn \in [status : BOOLEAN, open : BOOLEAN, saveDone : BOOLEAN]
        /\ toQv \in Seq(ToQv) /\ toSm \in Seq(ToSm)
    BY <1>1 DEF SessionType
  <1>4. \/ m = "SaveYourself" /\ SaveYourself
        \/ m \in Prompt /\ DoneOnce
        \/ m = "SaveComplete" /\ UNCHANGED <<conn, toSm>>
        \/ m = "IOError" /\ CloseConnection
    BY <1>1, <1>2, Zenon DEF ProcessMessage, ToQv, Prompt, SaveYourselfPhase2, ShutdownCancelled
  <1>5. /\ Append(toSm, "SaveYourselfDone") \in Seq(ToSm)
        /\ Append(toSm, "Phase2Request") \in Seq(ToSm)
    BY <1>3, AppendProperties DEF ToSm
  <1>6. SessionType'
    <2>1. conn' \in [status : BOOLEAN, open : BOOLEAN, saveDone : BOOLEAN] /\ toSm' \in Seq(ToSm)
      BY <1>3, <1>4, <1>5 DEF SaveYourself, SaveYourselfDone, DoneOnce, CloseConnection
    <2> QED
      BY <1>1, <1>2, <2>1 DEF SessionType
  <1> SUFFICES ASSUME conn'.open, sm.phase # "lost"
               PROVE  /\ Saves(Waiting, conn'.saveDone, toQv', toSm')
                      /\ sm.phase = "saved" => conn'.saveDone
    BY <1>1, <1>6 DEF SessionInv, SaveInv, Waiting
  <1>7. /\ Saves(Waiting, conn.saveDone, toQv, toSm) /\ (sm.phase = "saved" => conn.saveDone)
        /\ Waiting \in BOOLEAN
    BY <1>1 DEF SessionInv, SaveInv, Waiting
  <1>8. /\ m \in Prompt =>
              /\ conn.saveDone => Saves(Waiting, conn.saveDone, Tail(toQv), toSm)
              /\ ~conn.saveDone => Saves(Waiting, TRUE, Tail(toQv), Append(toSm, "SaveYourselfDone"))
        /\ m = "SaveYourself" =>
              /\ Waiting /\ Saves(Waiting, FALSE, Tail(toQv), Append(toSm, "Phase2Request"))
              /\ Saves(Waiting, TRUE, Tail(toQv), Append(toSm, "SaveYourselfDone"))
        /\ m \notin Prompt \cup {"SaveYourself"} => Saves(Waiting, conn.saveDone, Tail(toQv), toSm)
    BY <1>1, <1>3, <1>7, ReadSave
  <1> HIDE DEF m
  <1>9. CASE m = "SaveYourself" /\ SaveYourself
    <2>1. \/ toSm' = Append(toSm, "Phase2Request") /\ conn'.saveDone = FALSE
          \/ toSm' = Append(toSm, "SaveYourselfDone") /\ conn'.saveDone = TRUE
      BY <1>3, <1>9 DEF SaveYourself, SaveYourselfDone
    <2>2. sm.phase # "saved"
      BY <1>8, <1>9 DEF Waiting
    <2> QED
      BY <1>1, <1>8, <1>9, <2>1, <2>2
  <1>10. CASE m \in Prompt /\ DoneOnce
    <2>1. \/ conn.saveDone /\ conn' = conn /\ toSm' = toSm
          \/ ~conn.saveDone /\ toSm' = Append(toSm, "SaveYourselfDone") /\ conn'.saveDone = TRUE
      BY <1>3, <1>10 DEF DoneOnce, SaveYourselfDone
    <2> QED
      BY <1>1, <1>7, <1>8, <1>10, <2>1
  <1>11. CASE m = "SaveComplete" /\ UNCHANGED <<conn, toSm>>
    BY <1>1, <1>7, <1>8, <1>11 DEF Prompt
  <1>12. CASE m = "IOError" /\ CloseConnection
    BY <1>3, <1>12 DEF CloseConnection
  <1> QED
    BY <1>4, <1>9, <1>10, <1>11, <1>12

\* The user quits.
LEMMA RequestQuitStep ==
    ASSUME SessionInv, NEW n \in Nat, RequestQuit(n)
    PROVE  SessionInv'
  <1>1. /\ UNCHANGED <<conn, sm, toQv>> /\ toSm' = toSm \o [i \in 1..n |-> "SaveYourselfRequest"]
        /\ SessionType /\ conn.saveDone \in BOOLEAN /\ Waiting \in BOOLEAN /\ toSm \in Seq(ToSm)
    BY DEF RequestQuit, SessionInv, SessionType, Waiting
  <1>2. toSm' \in Seq(ToSm)
    <2>1. [i \in 1..n |-> "SaveYourselfRequest"] \in Seq(ToSm)
      BY IsASeq DEF ToSm
    <2> QED
      BY <1>1, <2>1, ConcatProperties
  <1>3. Saves(Waiting, conn.saveDone, toQv, toSm) => Saves(Waiting, conn.saveDone, toQv, toSm')
    BY <1>1, QuitSave
  <1> QED
    BY <1>1, <1>2, <1>3 DEF SessionInv, SessionType, SaveInv, Waiting

\* The session manager goes on to phase p, sending e.
LEMMA ManagerSends ==
    ASSUME SessionInv, conn.open, sm.phase # "lost", NEW p \in Phase, NEW v \in BOOLEAN,
           sm' = [phase |-> p, shutdown |-> v], NEW e \in ToQv, Send(e), UNCHANGED <<conn, toSm>>,
           \/ e \notin Prompt \cup {"SaveYourself"} /\ Waiting' = Waiting
           \/ e = "SaveYourself" /\ ~Waiting /\ Waiting'
           \/ e \in Prompt /\ Waiting /\ Waiting'
           \/ e \in Prompt /\ sm.phase = "saved" /\ ~Waiting /\ ~Waiting',
           p # "saved"
    PROVE  SessionInv'
  <1>1. /\ conn.saveDone \in BOOLEAN /\ Waiting \in BOOLEAN /\ toQv \in Seq(ToQv)
        /\ Saves(Waiting, conn.saveDone, toQv, toSm) /\ (sm.phase = "saved" => conn.saveDone)
        /\ "SaveYourself" \notin Prompt
    BY DEF SessionInv, SessionType, SaveInv, Waiting, Prompt
  <1>2. toQv' = Append(toQv, e) /\ toQv' \in Seq(ToQv)
    BY <1>1, AppendProperties DEF Send
  <1>3. SessionType' /\ sm'.phase = p
    BY <1>2 DEF SessionInv, SessionType
  <1>4. /\ e # "SaveYourself" /\ (e \in Prompt => Waiting \/ conn.saveDone)
              => Saves(Waiting, conn.saveDone, toQv', toSm)
        /\ e = "SaveYourself" /\ ~Waiting => Saves(TRUE, conn.saveDone, toQv', toSm)
    BY <1>1, <1>2, SendSave
  <1>5. Waiting' \in BOOLEAN
    BY DEF Waiting
  <1>6. Saves(Waiting', conn.saveDone, toQv', toSm)
    BY <1>1, <1>4, <1>5
  <1> QED
    BY <1>3, <1>6 DEF SessionInv, SaveInv

\* It receives a message.
LEMMA ManagerReceivesStep ==
    ASSUME SessionInv, ManagerReceives
    PROVE  SessionInv'
  <1> DEFINE h == Head(toSm)
  <1>1. /\ conn.open /\ sm.phase # "lost" /\ toSm # <<>> /\ toSm' = Tail(toSm) /\ conn' = conn
        /\ SessionType /\ Waiting \in BOOLEAN /\ conn.saveDone \in BOOLEAN
        /\ toQv \in Seq(ToQv) /\ toSm \in Seq(ToSm) /\ sm \in [phase : Phase, shutdown : BOOLEAN]
        /\ Saves(Waiting, conn.saveDone, toQv, toSm) /\ (sm.phase = "saved" => conn.saveDone)
    BY DEF ManagerReceives, SessionInv, SessionType, SaveInv, Waiting
  <1>2. toSm' \in Seq(ToSm)
    BY <1>1, Taken
  <1>3. \/ h = "Phase2Request" /\ sm.phase = "asked" /\ Goes("ready") /\ UNCHANGED toQv
        \/ h = "SaveYourselfRequest" /\ sm.phase = "idle"
           /\ sm' = [phase |-> "asked", shutdown |-> TRUE] /\ Send("SaveYourself")
        \/ h = "SaveYourselfDone" /\ Goes(IF sm.phase = "cancelled" THEN "idle" ELSE "saved")
           /\ UNCHANGED toQv
        \/ h # "SaveYourselfDone" /\ UNCHANGED <<sm, toQv>>
    BY DEF ManagerReceives
  <1>4. /\ h # "SaveYourselfDone" => Saves(Waiting, conn.saveDone, toQv, toSm')
        /\ h = "SaveYourselfDone" =>
              Waiting /\ conn.saveDone /\ Saves(FALSE, conn.saveDone, toQv, toSm')
    BY <1>1, ReceiveSave
  <1> HIDE DEF h
  <1>5. CASE h = "Phase2Request" /\ sm.phase = "asked" /\ Goes("ready") /\ UNCHANGED toQv
    <2>1. sm' \in [phase : Phase, shutdown : BOOLEAN] /\ sm'.phase = "ready"
      BY <1>1, <1>5 DEF Goes, Phase
    <2>2. Waiting /\ Waiting'
      BY <1>5, <2>1 DEF Waiting
    <2> QED
      BY <1>1, <1>2, <1>4, <1>5, <2>1, <2>2 DEF SessionInv, SessionType, SaveInv
  <1>6. CASE h = "SaveYourselfRequest" /\ sm.phase = "idle"
             /\ sm' = [phase |-> "asked", shutdown |-> TRUE] /\ Send("SaveYourself")
    <2>1. sm' \in [phase : Phase, shutdown : BOOLEAN] /\ sm'.phase = "asked"
      BY <1>6 DEF Phase
    <2>2. ~Waiting /\ Waiting'
      BY <1>6, <2>1 DEF Waiting
    <2>3. toQv' = Append(toQv, "SaveYourself") /\ "SaveYourself" \in ToQv
      BY <1>6 DEF Send, ToQv
    <2>4. toQv' \in Seq(ToQv)
      BY <1>1, <2>3, AppendProperties
    <2>5. Saves(TRUE, conn.saveDone, toQv', toSm')
      BY <1>1, <1>4, <1>6, <2>2, <2>3, SendSave
    <2> QED
      BY <1>1, <1>2, <2>1, <2>2, <2>4, <2>5 DEF SessionInv, SessionType, SaveInv
  <1>7. CASE h = "SaveYourselfDone" /\ Goes(IF sm.phase = "cancelled" THEN "idle" ELSE "saved")
             /\ UNCHANGED toQv
    <2>1. sm' \in [phase : Phase, shutdown : BOOLEAN] /\ sm'.phase \in {"idle", "saved"}
      BY <1>1, <1>7 DEF Goes, Phase
    <2>2. Waiting' = FALSE
      BY <2>1 DEF Waiting
    <2>3. Saves(Waiting', conn.saveDone, toQv, toSm') /\ conn.saveDone
      BY <1>4, <1>7, <2>2
    <2>4. toQv' = toQv
      BY <1>7
    <2>5. SaveInv'
      BY <1>1, <2>3, <2>4 DEF SaveInv
    <2> QED
      BY <1>1, <1>2, <2>1, <2>4, <2>5 DEF SessionInv, SessionType
  <1>8. CASE h # "SaveYourselfDone" /\ UNCHANGED <<sm, toQv>>
    BY <1>1, <1>2, <1>4, <1>8 DEF SessionInv, SessionType, SaveInv, Waiting
  <1> QED
    BY <1>3, <1>5, <1>6, <1>7, <1>8

\* It asks, goes on, changes its mind or dies.
LEMMA ManagerStep ==
    ASSUME SessionInv,
           \/ ManagerGoesOn \/ (\E b \in BOOLEAN : ManagerAsks(b)) \/ ManagerCancels \/ ManagerDies
    PROVE  SessionInv'
  <1>1. /\ sm \in [phase : Phase, shutdown : BOOLEAN] /\ toQv \in Seq(ToQv)
        /\ SessionType
    BY DEF SessionInv, SessionType
  <1>2. ASSUME NEW p \in Phase, Goes(p) PROVE sm' = [phase |-> p, shutdown |-> sm.shutdown]
    BY <1>1, <1>2 DEF Goes
  <1>3. ASSUME NEW b \in BOOLEAN, ManagerAsks(b) PROVE SessionInv'
    <2>1. /\ conn.open /\ sm.phase = "idle" /\ sm' = [phase |-> "asked", shutdown |-> b]
          /\ Send("SaveYourself") /\ UNCHANGED <<conn, toSm>>
      BY <1>3 DEF ManagerAsks
    <2>2. ~Waiting /\ Waiting'
      BY <2>1 DEF Waiting
    <2>3. "asked" \in Phase /\ "SaveYourself" \in ToQv
      BY DEF Phase, ToQv
    <2> QED
      BY <2>1, <2>2, <2>3, ManagerSends
  <1>4. CASE ManagerGoesOn
    <2>1. CASE sm.phase = "ready" /\ Goes("phase2") /\ Send("SaveYourselfPhase2")
      <3>1. "phase2" \in Phase /\ "SaveYourselfPhase2" \in ToQv /\ "SaveYourselfPhase2" \in Prompt
        BY DEF Phase, ToQv, Prompt
      <3>2. sm' = [phase |-> "phase2", shutdown |-> sm.shutdown] /\ sm.shutdown \in BOOLEAN
        BY <1>1, <1>2, <2>1, <3>1
      <3>3. Waiting /\ Waiting'
        BY <2>1, <3>2 DEF Waiting
      <3> QED
        BY <1>4, <2>1, <3>1, <3>2, <3>3, ManagerSends DEF ManagerGoesOn
    <2>2. CASE /\ sm.phase = "saved"
               /\ Goes(IF sm.shutdown THEN "dying" ELSE "idle")
               /\ Send(IF sm.shutdown THEN "Die" ELSE "SaveComplete")
      <3> DEFINE p == IF sm.shutdown THEN "dying" ELSE "idle"
                 e == IF sm.shutdown THEN "Die" ELSE "SaveComplete"
      <3>1. p \in Phase /\ p \in {"dying", "idle"} /\ e \in ToQv /\ e \notin Prompt \cup {"SaveYourself"}
        BY DEF Phase, ToQv, Prompt
      <3>2. Goes(p) /\ Send(e)
        BY <2>2
      <3> HIDE DEF p, e
      <3>3. sm' = [phase |-> p, shutdown |-> sm.shutdown] /\ sm.shutdown \in BOOLEAN
        BY <1>1, <1>2, <3>1, <3>2
      <3>4. ~Waiting /\ ~Waiting' /\ p # "saved"
        BY <2>2, <3>1, <3>3 DEF Waiting
      <3>5. Waiting' = Waiting
        BY <3>4 DEF Waiting
      <3> QED
        BY <1>4, <2>2, <3>1, <3>2, <3>3, <3>4, <3>5, ManagerSends DEF ManagerGoesOn
    <2> QED
      BY <1>4, <2>1, <2>2 DEF ManagerGoesOn
  <1>5. CASE ManagerCancels
    <2> DEFINE p == IF sm.phase = "saved" THEN "idle" ELSE "cancelled"
    <2>1. /\ conn.open /\ sm.phase \in {"asked", "ready", "phase2", "saved"}
          /\ sm' = [phase |-> p, shutdown |-> FALSE]
          /\ Send("ShutdownCancelled") /\ UNCHANGED <<conn, toSm>>
      BY <1>5 DEF ManagerCancels
    <2>2. p \in Phase /\ p # "saved" /\ "ShutdownCancelled" \in ToQv /\ "ShutdownCancelled" \in Prompt
      BY DEF Phase, ToQv, Prompt
    <2>3. \/ Waiting /\ Waiting'
          \/ sm.phase = "saved" /\ ~Waiting /\ ~Waiting'
      BY <2>1 DEF Waiting
    <2>4. sm.phase # "lost"
      BY <2>1
    <2> HIDE DEF p
    <2> QED
      BY <2>1, <2>2, <2>3, <2>4, ManagerSends
  <1>6. CASE ManagerDies
    <2>1. /\ sm' = [phase |-> "lost", shutdown |-> FALSE] /\ toQv' = Append(toQv, "IOError")
          /\ toSm' = <<>> /\ conn' = conn
      BY <1>6 DEF ManagerDies, Send
    <2>2. sm' \in [phase : Phase, shutdown : BOOLEAN] /\ sm'.phase = "lost" /\ "IOError" \in ToQv
      BY <2>1 DEF Phase, ToQv
    <2>3. toQv' \in Seq(ToQv) /\ toSm' \in Seq(ToSm)
      BY <1>1, <2>1, <2>2, AppendProperties, EmptySeq
    <2> QED
      BY <1>1, <2>1, <2>2, <2>3 DEF SessionInv, SessionType, SaveInv
  <1> QED
    BY <1>3, <1>4, <1>5, <1>6
-----------------------------------------------------------------------------
(* The steps of Services *)

LifeType == "phase" \in DOMAIN life /\ life.phase \in {"start", "run", "gone"}

\* The lists and the timer of a program that begins or is gone.
Childless ==
    /\ procs' \in {procs, Reaped(procs, Zombies), <<>>}
    /\ coList' = <<>> /\ scr' = NoScreenSaver /\ starting' = 0

\* The program is over or begins anew.
Ends == Disconnected /\ Childless /\ LifeType' /\ life'.phase # "run"

\* Something is said over the connection.
Talks ==
    /\ conn.open
    /\ \/ ProcessMessage \/ (\E n \in Nat : RequestQuit(n)) \/ ManagerReceives
       \/ ManagerGoesOn \/ (\E b \in BOOLEAN : ManagerAsks(b)) \/ ManagerCancels \/ ManagerDies

\* Something happens to the children and the timer.
Cares ==
    \/ StorePid \/ Callout \/ TimePasses \/ (\E p \in DOMAIN procs : ChildExit(p)) \/ TrapChild
    \/ Press \/ PointerMoves \/ (\E name \in Names : ExecCommand(name) \/ MapRequest(name))

GoesOn ==
    /\ life' = life
    /\ UNCHANGED session \/ Talks
    /\ UNCHANGED children \/ Cares

\* exec begins a program, which may be gone at once.
LEMMA ExecEnds ==
    ASSUME NEW argv, NEW mask, NEW crashes, Exec(argv, mask, crashes)
    PROVE  Ends
  BY Zenon DEF Exec, NewProgram, Childless, Begin, Ends, LifeType

\* So does the end.
LEMMA GoneEnds ==
    ASSUME LifeType, Gone
    PROVE  Ends
  BY DEF Gone, Childless, Ends, LifeType

\* So does a crash, whether qvwm is restarted or not.
LEMMA SegvEnds ==
    ASSUME LifeType, SIGSEGV
    PROVE  Ends
  BY ExecEnds, GoneEnds DEF SIGSEGV

\* A restart ends this program.
LEMMA RestartEnds ==
    ASSUME LifeType, NEW mask, RestartQvwm(mask)
    PROVE  Ends
  BY ExecEnds, SegvEnds DEF RestartQvwm

\* So does the end of the desktop.
LEMMA FinishEnds ==
    ASSUME LifeType, FinishDesktop
    PROVE  Ends
  BY GoneEnds, SegvEnds DEF FinishDesktop

\* The end of the program may have to be asked for.
LEMMA FinishQvwmStep ==
    ASSUME LifeType, NEW n \in Nat, FinishQvwm(n)
    PROVE  Ends \/ GoesOn
  <1>1. CASE ~conn.status /\ FinishDesktop
    BY <1>1, FinishEnds
  <1>2. CASE /\ conn.status
             /\ IF conn.open THEN RequestQuit(n) ELSE UNCHANGED session
             /\ UNCHANGED <<life, blocked, rmt, children>>
    BY <1>2 DEF GoesOn, Talks
  <1>3. CASE SessionLost /\ SIGSEGV
    BY <1>3, SegvEnds
  <1> QED
    BY <1>1, <1>2, <1>3 DEF FinishQvwm

\* A buffer of remote commands.
LEMMA ProcessStep ==
    ASSUME LifeType, process
    PROVE  Ends \/ GoesOn
  <1> DEFINE cmds == Interpreted(Buffer)
             calls == Calls(cmds, "exit")
             quits == Cardinality(calls)
  <1>1. quits \in Nat
    <2>1. calls \subseteq 1..BUF_SIZE /\ IsFiniteSet(1..BUF_SIZE)
      BY FS_Interval, ServicesType DEF Calls
    <2> QED
      BY <2>1, FS_Subset, FS_CardinalityType
  <1>2. \/ RestartQvwm(life.mask)
        \/ FinishQvwm(quits)
        \/ /\ IF quits > 0 /\ conn.open THEN RequestQuit(quits) ELSE UNCHANGED session
           /\ UNCHANGED <<life, blocked, children>>
    BY Zenon DEF process
  <1> HIDE DEF quits
  <1>3. CASE RestartQvwm(life.mask)
    BY <1>3, RestartEnds
  <1>4. CASE FinishQvwm(quits)
    BY <1>1, <1>4, FinishQvwmStep
  <1>5. CASE /\ IF quits > 0 /\ conn.open THEN RequestQuit(quits) ELSE UNCHANGED session
             /\ UNCHANGED <<life, blocked, children>>
    BY <1>1, <1>5 DEF GoesOn, Talks
  <1> QED
    BY <1>2, <1>3, <1>4, <1>5

\* What comes from outside.
LEMMA InputStep ==
    ASSUME LifeType, Input
    PROVE  Ends \/ GoesOn
  <1>1. CASE Signal
    BY <1>1, SegvEnds, FinishQvwmStep, RestartEnds DEF Signal, SIGTERM
  <1>2. CASE UserLeaves
    BY <1>2, FinishQvwmStep, RestartEnds DEF UserLeaves
  <1>3. CASE DesktopInput
    BY <1>3 DEF DesktopInput, GoesOn, Cares
  <1>4. CASE ManagerInput
    BY <1>4 DEF ManagerInput, ManagerCancels, ManagerDies, ManagerAsks, GoesOn, Talks
  <1>5. ASSUME NEW chunk \in Chunks, Write(chunk) PROVE GoesOn
    BY <1>5 DEF Write, GoesOn
  <1> QED
    BY <1>1, <1>2, <1>3, <1>4, <1>5, Zenon DEF Input

\* Every step but the first of a program ends it or lets it go on.
LEMMA Steps ==
    ASSUME LifeType, Next
    PROVE  Ends \/ GoesOn \/ InitQvwm
  <1>1. CASE ParseError
    BY <1>1, ExecEnds DEF ParseError
  <1>2. CASE process
    BY <1>2, ProcessStep
  <1>3. CASE SIGCHLD
    BY <1>3, Zenon DEF SIGCHLD, GoesOn, Cares
  <1>4. CASE IceProcessMessages
    BY <1>4, Zenon DEF IceProcessMessages, ProcessMessage, GoesOn, Talks
  <1>5. CASE Die
    BY <1>5, FinishEnds DEF Die
  <1>6. CASE ChildrenStep
    BY <1>6, Zenon DEF ChildrenStep, GoesOn, Cares
  <1>7. CASE Manager(ManagerReceives) \/ Manager(ManagerGoesOn)
    BY <1>7, Zenon DEF Manager, ManagerReceives, ManagerGoesOn, GoesOn, Talks
  <1>8. CASE Input
    BY <1>8, InputStep
  <1> QED
    BY <1>1, <1>2, <1>3, <1>4, <1>5, <1>6, <1>7, <1>8 DEF Next

\* A program that is starting has no connection.
Unconnected == conn = NoSession /\ sm = NoManager /\ toQv = <<>> /\ toSm = <<>>
ConnInv == LifeType /\ SessionInv /\ (life.phase = "start" => Unconnected)

\* The invariant is inductive.
LEMMA ConnStep ==
    ASSUME ConnInv, Next
    PROVE  ConnInv'
  <1>0. LifeType /\ SessionInv
    BY DEF ConnInv
  <1>1. CASE Ends
    <2>1. Unconnected' /\ LifeType'
      BY <1>1 DEF Ends, Disconnected, Unconnected
    <2> QED
      BY <2>1, SessionBegins DEF ConnInv, Unconnected
  <1>2. CASE GoesOn
    <2>1. LifeType' /\ life' = life
      BY <1>0, <1>2 DEF GoesOn, LifeType
    <2>2. CASE UNCHANGED session
      BY <2>1, <2>2
         DEF ConnInv, session, SessionInv, SessionType, SaveInv, Waiting, Unconnected
    <2>3. CASE Talks
      <3>1. life.phase # "start"
        BY <2>3 DEF Talks, ConnInv, Unconnected, NoSession
      <3>2. SessionInv'
        BY <1>0, <2>3, ProcessMessageStep, RequestQuitStep, ManagerReceivesStep, ManagerStep DEF Talks
      <3> QED
        BY <2>1, <3>1, <3>2 DEF ConnInv
    <2> QED
      BY <1>2, <2>2, <2>3 DEF GoesOn
  <1>3. CASE InitQvwm
    <2>1. life.phase = "start" /\ life' = [life EXCEPT !.phase = "run"]
          /\ ConnectSessionManager(env.host.manager)
      BY <1>3, Zenon DEF InitQvwm
    <2>2. LifeType' /\ life'.phase # "start"
      BY <1>0, <2>1 DEF LifeType
    <2>3. Unconnected
      BY <2>1 DEF ConnInv
    <2>4. /\ conn' \in {NoSession, [NoSession EXCEPT !.status = TRUE, !.open = TRUE]}
          /\ sm' = NoManager /\ toQv' = <<>> /\ toSm' = <<>>
      BY <2>1, <2>3, Zenon DEF ConnectSessionManager, Unconnected
    <2>5. SessionInv'
      BY <2>4, SessionBegins
    <2> QED
      BY <2>2, <2>5 DEF ConnInv
  <1> QED
    BY <1>0, <1>1, <1>2, <1>3, Steps

\* The session manager is sent one answer to each SaveYourself, and none besides.
THEOREM SaveAnsweredCorrect == Spec => []SaveAnsweredOnce
  <1>1. Init => ConnInv
    <2> SUFFICES ASSUME Init PROVE ConnInv
      OBVIOUS
    <2>1. Unconnected
      BY DEF Init, SessionInit, Unconnected
    <2>2. LifeType
      BY DEF Init, Begin, LifeType
    <2>3. SessionType
      <3>1. /\ NoSession \in [status : BOOLEAN, open : BOOLEAN, saveDone : BOOLEAN]
            /\ NoManager \in [phase : Phase, shutdown : BOOLEAN]
        BY DEF NoSession, NoManager, Phase
      <3> QED
        BY <2>1, <3>1, EmptySeq DEF SessionType, Unconnected
    <2>4. SaveInv
      BY <2>1 DEF SaveInv, Unconnected, NoSession
    <2> QED
      BY <2>1, <2>2, <2>3, <2>4 DEF ConnInv, SessionInv
  <1>2. ConnInv /\ [Next]_vars => ConnInv'
    <2>1. ConnInv /\ UNCHANGED vars => ConnInv'
      BY DEF vars, session, ConnInv, LifeType, SessionInv, SessionType, SaveInv, Waiting, Unconnected
    <2> QED
      BY <2>1, ConnStep
  <1>3. ConnInv => SaveAnsweredOnce
    BY AnsweredOnce DEF ConnInv
  <1> QED
    BY <1>1, <1>2, <1>3, PTL DEF Spec
-----------------------------------------------------------------------------
(* The screen locker *)

Fate == {"alive", "zombie", "gone"}
Cbs == {"Start", "QueryPointer"}

ScrType(v) ==
    /\ v \in [m_lockerPid : Nat, m_lockMsec : Nat, ssext : BOOLEAN, idle : Nat,
              moved : BOOLEAN, raced : BOOLEAN]

ChildType ==
    /\ procs \in Seq(Fate) /\ coList \in Callouts(Cbs) /\ ScrType(scr)
    /\ scr.m_lockerPid <= Len(procs) /\ starting \in 0..Len(procs)

\* A locker that is known is not waited for in vain, unless it raced; and the locker is
\* running, or begun, or will be.
Watches == scr.m_lockerPid # 0 /\ ~scr.raced => procs[scr.m_lockerPid] # "gone"
Armed == scr.m_lockMsec > 0 => starting # 0 \/ Waits(coList, "Start") \/ scr.m_lockerPid # 0

ArmInv == ChildType /\ Watches /\ Armed

\* The dead that are waited for are gone.
LEMMA ReapedType ==
    ASSUME NEW ps \in Seq(Fate), NEW dead
    PROVE  LET r == Reaped(ps, dead)
           IN  /\ r \in Seq(Fate) /\ Len(r) = Len(ps)
               /\ \A p \in 1..Len(ps) : p \notin dead => r[p] = ps[p]
  <1> DEFINE r == Reaped(ps, dead)
  <1>1. Len(ps) \in Nat /\ DOMAIN ps = 1..Len(ps) /\ \A p \in 1..Len(ps) : ps[p] \in Fate
    BY LenProperties, ElementOfSeq
  <1>2. r = [p \in 1..Len(ps) |-> IF p \in dead THEN "gone" ELSE ps[p]]
    BY <1>1 DEF Reaped
  <1>3. r \in [1..Len(ps) -> Fate] /\ \A p \in 1..Len(ps) : p \notin dead => r[p] = ps[p]
    BY <1>1, <1>2 DEF Fate
  <1>4. r \in Seq(Fate)
    BY <1>1, <1>3, SeqDef
  <1>5. Len(r) = Len(ps)
    BY <1>1, <1>3, <1>4, LenProperties
  <1> QED
    BY <1>3, <1>4, <1>5 DEF r

\* A child is begun.
LEMMA Forked ==
    ASSUME NEW ps \in Seq(Fate)
    PROVE  LET r == Append(ps, "alive")
           IN  /\ r \in Seq(Fate) /\ Len(r) = Len(ps) + 1 /\ Len(ps) \in Nat
               /\ \A p \in 1..Len(ps) : r[p] = ps[p]
  <1>1. "alive" \in Fate
    BY DEF Fate
  <1> QED
    BY <1>1, AppendProperties, LenProperties

\* A callout of Start is set, and the screen saver's timer reset.
LEMMA StartSet ==
    ASSUME NEW q \in Callouts(Cbs), NEW ticks \in Nat
    PROVE  StartIn(q, ticks) \in Callouts(Cbs) /\ Waits(StartIn(q, ticks), "Start")
  <1>1. "Start" \in Cbs
    BY DEF Cbs
  <1> QED
    BY <1>1, Inserted DEF StartIn

\* The pointer will be looked at.
LEMMA QuerySet ==
    ASSUME NEW q \in Callouts(Cbs)
    PROVE  LET r == InsertCallout(q, 1, "QueryPointer")
           IN  r \in Callouts(Cbs) /\ (Waits(q, "Start") => Waits(r, "Start"))
  <1>1. "QueryPointer" \in Cbs /\ 1 \in Nat
    BY DEF Cbs
  <1> QED
    BY <1>1, Inserted

\* ResetTimer cancels Start and sets it again.
LEMMA TimerReset ==
    ASSUME NEW q \in Callouts(Cbs), ScrType(scr)
    PROVE  ResetTimer(q) \in Callouts(Cbs) /\ Waits(ResetTimer(q), "Start")
  <1>1. ResetTimeout(q, "Start") \in Callouts(Cbs)
    BY Cancelled DEF ResetTimeout
  <1>2. scr.m_lockMsec \in Nat
    BY DEF ScrType
  <1> QED
    BY <1>1, <1>2, StartSet DEF ResetTimer

\* A callout is off the head of the list before it runs.
LEMMA HeadRuns ==
    ASSUME NEW q \in Callouts(Cbs), q # <<>>
    PROVE  /\ Tail(q) \in Callouts(Cbs)
           /\ Waits(q, "Start") /\ q[1].cb # "Start" => Waits(Tail(q), "Start")
  <1> DEFINE S == [cb : Cbs, left : Nat]
  <1>1. q \in Seq(S) /\ Len(q) \in Nat /\ DOMAIN q = 1..Len(q)
    BY LenProperties DEF Callouts
  <1> HIDE DEF S
  <1>2. Tail(q) \in Seq(S) /\ Len(Tail(q)) = Len(q) - 1 /\ \A i \in 1..Len(Tail(q)) : Tail(q)[i] = q[i + 1]
    BY <1>1, HeadTailProperties
  <1>3. DOMAIN Tail(q) = 1..(Len(q) - 1)
    BY <1>2, LenProperties
  <1>4. ASSUME NEW i \in 1..Len(q), q[i].cb = "Start", q[1].cb # "Start"
        PROVE  Waits(Tail(q), "Start")
    <2>1. i # 1 /\ i - 1 \in 1..(Len(q) - 1)
      BY <1>1, <1>4
    <2>2. Tail(q)[i - 1] = q[i]
      BY <1>1, <1>2, <2>1
    <2> QED
      BY <1>3, <1>4, <2>1, <2>2 DEF Waits
  <1>5. Tail(q) \in Callouts(Cbs)
    BY <1>2 DEF Callouts, S
  <1> QED
    BY <1>1, <1>4, <1>5 DEF Waits

\* Nothing is changed.
LEMMA SameArmed ==
    ASSUME ArmInv, UNCHANGED children
    PROVE  ArmInv'
  BY DEF children, ArmInv, ChildType, ScrType, Watches, Armed, Waits

\* More children, or others, and the rest as it was.
LEMMA ProcsArmed ==
    ASSUME ArmInv, UNCHANGED <<coList, scr, starting>>, procs' \in Seq(Fate), Len(procs) <= Len(procs'),
           \A p \in 1..Len(procs) : procs'[p] = "gone" => procs[p] = "gone"
    PROVE  ArmInv'
  <1>1. /\ Len(procs) \in Nat /\ Len(procs') \in Nat
        /\ scr.m_lockerPid \in Nat /\ scr.m_lockerPid <= Len(procs) /\ starting \in 0..Len(procs)
    BY LenProperties DEF ArmInv, ChildType, ScrType
  <1>2. ChildType'
    BY <1>1 DEF ArmInv, ChildType, ScrType
  <1>3. Watches'
    <2>1. scr.m_lockerPid # 0 => scr.m_lockerPid \in 1..Len(procs)
      BY <1>1
    <2> QED
      BY <2>1 DEF ArmInv, Watches
  <1>4. Armed'
    BY DEF ArmInv, Armed
  <1> QED
    BY <1>2, <1>3, <1>4 DEF ArmInv

\* The list and the idle time change, and what is armed stays so.
LEMMA TimerArmed ==
    ASSUME ArmInv, UNCHANGED <<procs, starting>>, coList' \in Callouts(Cbs), ScrType(scr'),
           scr'.m_lockerPid = scr.m_lockerPid, scr'.raced = scr.raced,
           scr'.m_lockMsec = scr.m_lockMsec,
           scr.m_lockMsec > 0 /\ Waits(coList, "Start")
             => Waits(coList', "Start") \/ starting # 0 \/ scr.m_lockerPid # 0
    PROVE  ArmInv'
  <1>1. ChildType'
    BY DEF ArmInv, ChildType, ScrType
  <1>2. Watches'
    BY DEF ArmInv, Watches
  <1>3. Armed'
    BY DEF ArmInv, Armed
  <1> QED
    BY <1>1, <1>2, <1>3 DEF ArmInv

\* A program ends or begins.
LEMMA ChildlessArmed ==
    ASSUME ChildType, Childless
    PROVE  ArmInv'
  <1>1. procs' \in Seq(Fate) /\ Len(procs') \in Nat
    <2>1. Reaped(procs, Zombies) \in Seq(Fate) /\ <<>> \in Seq(Fate)
      BY ReapedType, EmptySeq DEF ChildType
    <2>2. procs' \in Seq(Fate)
      BY <2>1, Zenon DEF Childless, ChildType
    <2> QED
      BY <2>2, LenProperties
  <1>2. <<>> \in Callouts(Cbs)
    BY EmptySeq DEF Callouts
  <1>3. ScrType(scr') /\ scr'.m_lockerPid = 0 /\ scr'.m_lockMsec = 0 /\ starting' = 0
    BY DEF Childless, NoScreenSaver, ScrType
  <1>4. ChildType'
    <2>1. coList' \in Callouts(Cbs)
      BY <1>2 DEF Childless
    <2> QED
      BY <1>1, <1>3, <2>1 DEF ChildType, ScrType
  <1> QED
    BY <1>3, <1>4 DEF ArmInv, Watches, Armed

\* Start begins a locker, waits on, or finds one.
LEMMA StartArmed ==
    ASSUME ArmInv, starting = 0, coList # <<>>, Start
    PROVE  ArmInv'
  <1>1. /\ coList \in Callouts(Cbs) /\ Tail(coList) \in Callouts(Cbs)
        /\ procs \in Seq(Fate) /\ ScrType(scr) /\ scr' = scr
    BY HeadRuns DEF ArmInv, ChildType, Start
  <1>2. CASE scr.ssext /\ scr.idle < scr.m_lockMsec
    <2>1. coList' = StartIn(Tail(coList), scr.m_lockMsec - scr.idle) /\ UNCHANGED <<procs, starting>>
      BY <1>2 DEF Start
    <2>2. scr.m_lockMsec - scr.idle \in Nat
      BY <1>1, <1>2 DEF ScrType
    <2>3. coList' \in Callouts(Cbs) /\ Waits(coList', "Start")
      BY <1>1, <2>1, <2>2, StartSet
    <2> QED
      BY <1>1, <2>1, <2>3, TimerArmed
  <1>3. CASE ~(scr.ssext /\ scr.idle < scr.m_lockMsec)
    <2>1. coList' = Tail(coList)
      BY <1>3 DEF Start
    <2>2. CASE scr.m_lockerPid # 0
      <3>1. UNCHANGED <<procs, starting>>
        BY <2>2 DEF Start
      <3> QED
        BY <1>1, <2>1, <2>2, <3>1, TimerArmed
    <2>3. CASE scr.m_lockerPid = 0
      <3>1. procs' = Append(procs, "alive") /\ starting' = Len(procs')
        BY <1>3, <2>3 DEF Start
      <3>2. /\ procs' \in Seq(Fate) /\ Len(procs') = Len(procs) + 1 /\ Len(procs) \in Nat
            /\ starting' \in 0..Len(procs') /\ starting' # 0
        BY <1>1, <3>1, Forked
      <3>3. ChildType'
        <4>1. coList' \in Callouts(Cbs)
          BY <1>1, <2>1
        <4>2. ScrType(scr') /\ scr'.m_lockerPid <= Len(procs')
          BY <1>1, <2>3, <3>2
        <4> QED
          BY <3>2, <4>1, <4>2 DEF ChildType, ScrType
      <3> QED
        BY <1>1, <2>3, <3>2, <3>3 DEF ArmInv, Watches, Armed
    <2> QED
      BY <2>2, <2>3
  <1> QED
    BY <1>2, <1>3

\* QueryPointer resets the timer if the pointer has moved.
LEMMA QueryArmed ==
    ASSUME ArmInv, coList # <<>>, coList[1].cb # "Start", QueryPointer
    PROVE  ArmInv'
  <1> DEFINE list == IF scr.moved THEN ResetTimer(Tail(coList)) ELSE Tail(coList)
  <1>1. coList \in Callouts(Cbs) /\ ScrType(scr)
    BY DEF ArmInv, ChildType
  <1>2. list \in Callouts(Cbs) /\ (Waits(coList, "Start") => Waits(list, "Start"))
    <2>1. /\ Tail(coList) \in Callouts(Cbs)
          /\ Waits(coList, "Start") => Waits(Tail(coList), "Start")
      BY <1>1, HeadRuns
    <2>2. ResetTimer(Tail(coList)) \in Callouts(Cbs) /\ Waits(ResetTimer(Tail(coList)), "Start")
      BY <1>1, <2>1, TimerReset
    <2> QED
      BY <2>1, <2>2
  <1>3. /\ coList' = InsertCallout(list, 1, "QueryPointer")
        /\ scr' = [scr EXCEPT !.moved = FALSE] /\ UNCHANGED <<procs, starting>>
    BY Zenon DEF QueryPointer
  <1> HIDE DEF list
  <1>4. coList' \in Callouts(Cbs) /\ (Waits(coList, "Start") => Waits(coList', "Start"))
    BY <1>2, <1>3, QuerySet
  <1>5. /\ ScrType(scr') /\ scr'.m_lockerPid = scr.m_lockerPid /\ scr'.raced = scr.raced
        /\ scr'.m_lockMsec = scr.m_lockMsec
    BY <1>1, <1>3 DEF ScrType
  <1> QED
    BY <1>3, <1>4, <1>5, TimerArmed

\* The value of vfork is stored.
LEMMA StoreArmed ==
    ASSUME ArmInv, StorePid
    PROVE  ArmInv'
  <1>1. /\ starting # 0 /\ starting' = 0 /\ UNCHANGED <<procs, coList>>
        /\ scr' = [scr EXCEPT !.m_lockerPid = starting, !.raced = @ \/ procs[starting] = "gone"]
    BY Zenon DEF StorePid
  <1>2. ScrType(scr) /\ starting \in 0..Len(procs) /\ Len(procs) \in Nat
    BY LenProperties DEF ArmInv, ChildType
  <1> DEFINE raced == scr.raced \/ procs[starting] = "gone"
  <1>3. /\ ScrType(scr') /\ scr'.m_lockerPid = starting
        /\ scr'.raced = raced
    <2>1. raced \in BOOLEAN /\ starting \in Nat
      BY <1>2 DEF ScrType
    <2>2. scr' = [scr EXCEPT !.m_lockerPid = starting, !.raced = raced]
      BY <1>1
    <2> HIDE DEF raced
    <2> QED
      BY <1>2, <2>1, <2>2 DEF ScrType
  <1>4. ChildType'
    BY <1>1, <1>2, <1>3 DEF ArmInv, ChildType, ScrType
  <1>5. Watches'
    BY <1>1, <1>3 DEF Watches
  <1> QED
    BY <1>1, <1>3, <1>4, <1>5 DEF ArmInv, Armed

\* The death of the locker sets the timer.
LEMMA DeadArmed ==
    ASSUME ArmInv, NEW dead \in SUBSET DOMAIN procs, NotifyDead(dead)
    PROVE  ArmInv'
  <1>1. /\ procs \in Seq(Fate) /\ Len(procs) \in Nat /\ DOMAIN procs = 1..Len(procs)
        /\ ScrType(scr) /\ coList \in Callouts(Cbs) /\ starting \in 0..Len(procs)
        /\ scr.m_lockerPid \in 0..Len(procs)
    BY LenProperties DEF ArmInv, ChildType, ScrType
  <1>2. /\ procs' = Reaped(procs, dead) /\ starting' = starting
        /\ procs' \in Seq(Fate) /\ Len(procs') = Len(procs)
        /\ \A p \in 1..Len(procs) : p \notin dead => procs'[p] = procs[p]
    BY <1>1, ReapedType DEF NotifyDead
  <1>3. CASE scr.m_lockerPid \in dead
    <2>1. coList' = StartIn(coList, scr.m_lockMsec) /\ scr' = [scr EXCEPT !.m_lockerPid = 0]
      BY <1>3 DEF NotifyDead
    <2>2. ScrType(scr') /\ scr'.m_lockerPid = 0 /\ scr.m_lockMsec \in Nat
      BY <1>1, <2>1 DEF ScrType
    <2>3. coList' \in Callouts(Cbs) /\ Waits(coList', "Start")
      BY <1>1, <2>1, <2>2, StartSet
    <2>4. ChildType'
      BY <1>1, <1>2, <2>2, <2>3 DEF ChildType, ScrType
    <2> QED
      BY <2>2, <2>3, <2>4 DEF ArmInv, Watches, Armed
  <1>4. CASE scr.m_lockerPid \notin dead
    <2>1. coList' = coList /\ scr' = scr
      BY <1>4 DEF NotifyDead
    <2>2. ChildType'
      BY <1>1, <1>2, <2>1 DEF ArmInv, ChildType, ScrType
    <2>3. Watches'
      BY <1>1, <1>2, <1>4, <2>1 DEF ArmInv, Watches
    <2>4. Armed'
      BY <1>2, <2>1 DEF ArmInv, Armed
    <2> QED
      BY <2>2, <2>3, <2>4 DEF ArmInv
  <1> QED
    BY <1>3, <1>4

\* What happens to the children and the timer.
LEMMA CaresArmed ==
    ASSUME ArmInv, Cares
    PROVE  ArmInv'
  <1>1. /\ ScrType(scr) /\ coList \in Callouts(Cbs) /\ procs \in Seq(Fate)
        /\ Len(procs) \in Nat /\ DOMAIN procs = 1..Len(procs)
    BY LenProperties DEF ArmInv, ChildType
  <1>2. CASE StorePid
    BY <1>2, StoreArmed
  <1>3. CASE Callout
    BY <1>3, StartArmed, QueryArmed DEF Callout
  <1>4. CASE TimePasses
    <2>1. /\ coList' = Tick(coList) /\ UNCHANGED <<procs, starting>>
          /\ scr' = [scr EXCEPT !.idle = IF @ < scr.m_lockMsec THEN @ + 1 ELSE @]
      BY <1>4, Zenon DEF TimePasses
    <2>2. coList' \in Callouts(Cbs) /\ (Waits(coList, "Start") => Waits(coList', "Start"))
      BY <1>1, <2>1, Ticked
    <2>3. /\ ScrType(scr') /\ scr'.m_lockerPid = scr.m_lockerPid /\ scr'.raced = scr.raced
          /\ scr'.m_lockMsec = scr.m_lockMsec
      BY <1>1, <2>1 DEF ScrType
    <2> QED
      BY <2>1, <2>2, <2>3, TimerArmed
  <1>5. ASSUME NEW p \in DOMAIN procs, ChildExit(p) PROVE ArmInv'
    <2>1. procs' = [procs EXCEPT ![p] = "zombie"] /\ UNCHANGED <<coList, scr, starting>>
      BY <1>5, Zenon DEF ChildExit
    <2>2. "zombie" \in Fate
      BY DEF Fate
    <2>3. procs' \in Seq(Fate) /\ Len(procs') = Len(procs)
      BY <1>1, <1>5, <2>1, <2>2, ExceptSeq
    <2>4. \A i \in 1..Len(procs) : procs'[i] = "gone" => procs[i] = "gone"
      BY <1>1, <2>1
    <2> QED
      BY <1>1, <2>1, <2>3, <2>4, ProcsArmed
  <1>6. CASE TrapChild
    BY <1>6, DeadArmed DEF TrapChild, Zombies
  <1>7. CASE Press
    <2>1. /\ coList' = IF scr.ssext THEN coList ELSE ResetTimer(coList)
          /\ scr' = [scr EXCEPT !.idle = 0] /\ UNCHANGED <<procs, starting>>
      BY <1>7, Zenon DEF Press
    <2>2. coList' \in Callouts(Cbs) /\ (Waits(coList, "Start") => Waits(coList', "Start"))
      BY <1>1, <2>1, TimerReset
    <2>3. /\ ScrType(scr') /\ scr'.m_lockerPid = scr.m_lockerPid /\ scr'.raced = scr.raced
          /\ scr'.m_lockMsec = scr.m_lockMsec
      BY <1>1, <2>1 DEF ScrType
    <2> QED
      BY <2>1, <2>2, <2>3, TimerArmed
  <1>8. CASE PointerMoves
    <2>1. /\ coList' = coList /\ UNCHANGED <<procs, starting>>
          /\ scr' = [scr EXCEPT !.idle = 0, !.moved = ~scr.ssext]
      BY <1>8, Zenon DEF PointerMoves
    <2>2. (~scr.ssext) \in BOOLEAN
      OBVIOUS
    <2>3. /\ ScrType(scr') /\ scr'.m_lockerPid = scr.m_lockerPid /\ scr'.raced = scr.raced
          /\ scr'.m_lockMsec = scr.m_lockMsec
      BY <1>1, <2>1, <2>2 DEF ScrType
    <2> QED
      BY <1>1, <2>1, <2>3, TimerArmed
  <1>9. ASSUME NEW name, ExecCommand(name) PROVE ArmInv'
    <2>1. procs' = Append(procs, "alive") /\ UNCHANGED <<coList, scr, starting>>
      BY <1>9, Zenon DEF ExecCommand
    <2> QED
      BY <1>1, <2>1, Forked, ProcsArmed
  <1>10. ASSUME NEW name, MapRequest(name) PROVE ArmInv'
    <2>1. UNCHANGED <<procs, coList, scr, starting>>
      BY <1>10, Zenon DEF MapRequest
    <2> QED
      BY <1>1, <2>1, ProcsArmed
  <1> QED
    BY <1>2, <1>3, <1>4, <1>5, <1>6, <1>7, <1>8, <1>9, <1>10 DEF Cares

\* The host does not change.
LEMMA HostStays ==
    ASSUME Next
    PROVE  env' = env
  <1>1. CASE ParseError \/ InitQvwm \/ process \/ SIGCHLD \/ IceProcessMessages \/ Die
    BY <1>1, Zenon DEF ParseError, InitQvwm, process, SIGCHLD, IceProcessMessages, Die
  <1>2. CASE ChildrenStep \/ Manager(ManagerReceives) \/ Manager(ManagerGoesOn) \/ Input
    BY <1>2, Zenon DEF ChildrenStep, Manager, Input
  <1> QED
    BY <1>1, <1>2 DEF Next

\* The screen saver begins with its timer set.
LEMMA InitArmed ==
    ASSUME ArmInv, env.host \in Hosts, InitQvwm
    PROVE  ArmInv'
  <1> DEFINE lockMsec == IF Has(life.argv, "-n") THEN 0 ELSE env.host.lockMsec
  <1>1. /\ lockMsec \in Nat /\ env.host.ssext \in BOOLEAN /\ env.host.indicators \in Seq(Names)
    BY HostsType
  <1>2. NewScreenSaver(env.host.ssext, lockMsec) /\ starting' = starting
    BY Zenon DEF InitQvwm
  <1>3. procs \in Seq(Fate) /\ Len(procs) \in Nat
    BY LenProperties DEF ArmInv, ChildType
  <1>4. procs' \in Seq(Fate) /\ Len(procs') \in Nat /\ Len(procs) <= Len(procs')
    <2>1. CASE procs' = procs
      BY <1>3, <2>1
    <2>2. CASE StartIndicators(env.host.indicators)
      <3> DEFINE new == [i \in DOMAIN env.host.indicators |-> "alive"]
      <3>1. procs' = procs \o new
        BY <2>2, Zenon DEF StartIndicators
      <3>2. new \in Seq(Fate)
        <4>1. DOMAIN env.host.indicators = 1..Len(env.host.indicators) /\ Len(env.host.indicators) \in Nat
          BY <1>1, LenProperties
        <4>2. new \in [1..Len(env.host.indicators) -> Fate]
          BY <4>1 DEF Fate
        <4> HIDE DEF new
        <4> QED
          BY <4>1, <4>2, SeqDef
      <3>3. procs' \in Seq(Fate) /\ Len(procs') = Len(procs) + Len(new) /\ Len(new) \in Nat
        BY <1>3, <3>1, <3>2, ConcatProperties, LenProperties
      <3> QED
        BY <1>3, <3>3, LenProperties
    <2> QED
      BY <2>1, <2>2 DEF InitQvwm
  <1> HIDE DEF lockMsec
  <1>5. /\ ScrType(scr') /\ scr'.m_lockerPid = 0 /\ scr'.m_lockMsec = lockMsec
    <2>1. scr' = [NoScreenSaver EXCEPT !.ssext = env.host.ssext, !.m_lockMsec = lockMsec]
      BY <1>2 DEF NewScreenSaver
    <2> QED
      BY <1>1, <2>1 DEF NoScreenSaver, ScrType
  <1>6. coList' \in Callouts(Cbs) /\ (lockMsec > 0 => Waits(coList', "Start"))
    <2>1. <<>> \in Callouts(Cbs)
      BY EmptySeq DEF Callouts
    <2>2. CASE lockMsec = 0
      BY <1>2, <2>1, <2>2 DEF NewScreenSaver
    <2>3. CASE lockMsec # 0
      <3> DEFINE q == IF env.host.ssext THEN <<>> ELSE InsertCallout(<<>>, 1, "QueryPointer")
      <3>1. coList' = StartIn(q, lockMsec)
        BY <1>2, <2>3, Zenon DEF NewScreenSaver
      <3>2. q \in Callouts(Cbs)
        BY <2>1, QuerySet
      <3> HIDE DEF q
      <3> QED
        BY <1>1, <3>1, <3>2, StartSet
    <2> QED
      BY <2>2, <2>3
  <1>7. ChildType'
    <2>1. starting' \in 0..Len(procs')
      BY <1>2, <1>3, <1>4 DEF ArmInv, ChildType
    <2> QED
      BY <1>4, <1>5, <1>6, <2>1 DEF ChildType, ScrType
  <1> QED
    BY <1>5, <1>6, <1>7 DEF ArmInv, Watches, Armed

\* With a screen saver the locker is running, or is being started, or will be, however
\* deaths of children, input and time are mixed, unless it died before vfork returned.
THEOREM LockerArmedCorrect == Spec => []LockerArmed
  <1> DEFINE Inv == LifeType /\ ArmInv /\ env.host \in Hosts
  <1>1. Init => Inv
    <2> SUFFICES ASSUME Init PROVE Inv
      OBVIOUS
    <2>1. /\ procs = <<>> /\ coList = <<>> /\ starting = 0 /\ scr = NoScreenSaver
      BY DEF Init, ChildrenInit
    <2>2. procs \in Seq(Fate) /\ coList \in Callouts(Cbs) /\ Len(procs) = 0
      BY <2>1, EmptySeq DEF Callouts
    <2>3. ScrType(scr) /\ scr.m_lockerPid = 0 /\ scr.m_lockMsec = 0
      BY <2>1 DEF NoScreenSaver, ScrType
    <2>4. ArmInv
      BY <2>1, <2>2, <2>3 DEF ArmInv, ChildType, Watches, Armed
    <2>5. LifeType /\ env.host \in Hosts
      BY DEF Init, Begin, LifeType
    <2> QED
      BY <2>1, <2>4, <2>5
  <1>2. Inv /\ [Next]_vars => Inv'
    <2> SUFFICES ASSUME Inv, [Next]_vars PROVE Inv'
      OBVIOUS
    <2>1. CASE UNCHANGED vars
      <3>1. UNCHANGED children /\ UNCHANGED <<life, env>>
        BY <2>1 DEF vars, children
      <3> QED
        BY <3>1, SameArmed DEF LifeType
    <2>2. CASE Next
      <3>1. env' = env
        BY <2>2, HostStays
      <3>2. CASE Ends
        <4>1. LifeType'
          BY <3>2 DEF Ends
        <4> QED
          BY <3>1, <3>2, <4>1, ChildlessArmed DEF ArmInv, Ends
      <3>3. CASE GoesOn
        <4>1. LifeType' /\ life' = life
          BY <3>3 DEF GoesOn, LifeType
        <4>2. ArmInv'
          BY <3>3, SameArmed, CaresArmed DEF GoesOn
        <4> QED
          BY <3>1, <4>1, <4>2
      <3>4. CASE InitQvwm
        <4>1. life.phase = "start" /\ life' = [life EXCEPT !.phase = "run"]
          BY <3>4, Zenon DEF InitQvwm
        <4>2. LifeType' /\ life'.phase # "start"
          BY <4>1 DEF LifeType
        <4> QED
          BY <3>1, <3>4, <4>1, <4>2, InitArmed
      <3> QED
        BY <2>2, <3>2, <3>3, <3>4, Steps
    <2> QED
      BY <2>1, <2>2
  <1>3. Inv => LockerArmed
    BY CalloutsWait DEF ArmInv, Watches, Armed, LockerArmed
  <1> QED
    BY <1>1, <1>2, <1>3, PTL DEF Spec
=============================================================================
