--------------------------- MODULE SyncDemoProofs ---------------------------
(***************************************************************************)
(* Proofs about SyncDemo, for all packets, frame lengths, intervals and    *)
(* pool sizes. The inductive invariant is IInv of SyncDemo.                *)
(***************************************************************************)
EXTENDS SyncDemo, SequenceTheorems, TLAPS

\* What the pool gives is not under way, and is not in the pool any more.
LEMMA GetTakesOut ==
  ASSUME IInv, NEW p \in Pkg, Get(p)
  PROVE  /\ p \notin Elements(syncQue)
         /\ pool' \in Seq(Pkg) /\ Len(pool') <= MaxSize
         /\ Elements(pool') = Elements(pool) \ {p}
         /\ \A i, j \in DOMAIN pool' : i # j => pool'[i] # pool'[j]
<1> USE SyncDemoAssumption
<1>1. pool \in Seq(Pkg) /\ syncQue \in Seq(Pkg) /\ Len(pool) <= MaxSize
  BY DEF IInv, TypeOK
<1>2. Len(pool) \in Nat /\ DOMAIN pool = 1..Len(pool) /\ \A i \in 1..Len(pool) : pool[i] \in Pkg
  BY <1>1
<1>3. CASE pool = <<>>
  <2>1. pool' = <<>>
    BY <1>3, SubSeqEmpty DEF Get
  <2>2. p \notin Elements(syncQue) \cup Elements(pool)
    BY <1>3 DEF Get, IInv, PacketsAreKept, NoneLost
  <2> QED
    BY <1>3, <2>1, <2>2 DEF Elements
<1>4. CASE pool # <<>>
  <2>1. Len(pool) >= 1
    BY <1>1, <1>4, EmptySeq
  <2>2. p = pool[Len(pool)] /\ pool' = SubSeq(pool, 1, Len(pool) - 1)
    BY <1>4 DEF Get
  <2>3. /\ pool' \in Seq(Pkg)
        /\ Len(pool') = Len(pool) - 1
        /\ \A i \in 1..Len(pool) - 1 : pool'[i] = pool[i]
    BY <1>2, <2>1, <2>2, SubSeqProperties
  <2>4. DOMAIN pool' = 1..Len(pool) - 1
    BY <2>3
  <2>5. \A i, j \in 1..Len(pool) : i # j => pool[i] # pool[j]
    BY <1>2 DEF IInv, PacketsAreKept, NoneLost
  <2>6. p \in Elements(pool)
    BY <1>2, <2>1, <2>2 DEF Elements
  <2>7. p \notin Elements(syncQue)
    BY <2>6 DEF IInv, PacketsAreKept, NoneLost
  <2>8. Elements(pool') = Elements(pool) \ {p}
    <3>1. ASSUME NEW i \in 1..Len(pool) - 1 PROVE pool'[i] \in Elements(pool) \ {p}
      BY <1>2, <2>1, <2>2, <2>3, <2>5 DEF Elements
    <3>2. ASSUME NEW i \in 1..Len(pool), pool[i] # p PROVE pool[i] \in Elements(pool')
      <4>1. i \in 1..Len(pool) - 1
        BY <1>2, <2>1, <2>2, <3>2
      <4> QED
        BY <2>3, <2>4, <4>1 DEF Elements
    <3> QED
      BY <1>2, <2>4, <3>1, <3>2 DEF Elements
  <2>9. \A i, j \in DOMAIN pool' : i # j => pool'[i] # pool'[j]
    BY <1>2, <2>1, <2>3, <2>4, <2>5
  <2>10. Len(pool') <= MaxSize
    BY <1>1, <1>2, <2>3
  <2> QED
    BY <2>3, <2>7, <2>8, <2>9, <2>10
<1> QED
  BY <1>3, <1>4

\* Sending adds one packet at the end of the queue and changes none of those
\* under way.
LEMMA SendAppends ==
  ASSUME IInv, NEW h \in BOOLEAN, NEW now \in Nat, SendPkg(h, now), target' = target
  PROVE  /\ syncQue' \in Seq(Pkg) /\ Len(syncQue') = Len(syncQue) + 1
         /\ pool' \in Seq(Pkg) /\ Len(pool') <= MaxSize
         /\ pkg' \in [Pkg -> Content \cup {None}]
         /\ sent' = sent + 1
         /\ PacketsAreKept'
         /\ \A i \in 0..Len(syncQue) : Pending(i)' = Pending(i)
         /\ LastSent' = [n |-> sent + 1, time |-> now, isHolding |-> h, Time |-> 0]
         /\ \A p \in Pkg : pkg'[p] # None => pkg'[p].Time = 0
<1> USE SyncDemoAssumption
<1>0. TypeOK /\ UnderWay /\ NoneLost
  BY DEF IInv, PacketsAreKept
<1> PICK p \in Pkg :
      /\ Get(p)
      /\ pkg' = [pkg EXCEPT ![p] = [n |-> sent + 1, time |-> now, isHolding |-> h,
                                    Time |-> IF @ = None THEN 0 ELSE @.Time]]
      /\ syncQue' = Append(syncQue, p)
      /\ sent' = sent + 1
  BY DEF SendPkg
<1> DEFINE new == [n |-> sent + 1, time |-> now, isHolding |-> h, Time |-> 0]
<1>1. /\ syncQue \in Seq(Pkg) /\ Len(syncQue) \in Nat /\ DOMAIN syncQue = 1..Len(syncQue)
      /\ \A i \in 1..Len(syncQue) : syncQue[i] \in Pkg
  BY <1>0 DEF TypeOK
<1>2. /\ syncQue' \in Seq(Pkg) /\ Len(syncQue') = Len(syncQue) + 1
      /\ \A i \in 1..Len(syncQue) : syncQue'[i] = syncQue[i]
      /\ syncQue'[Len(syncQue) + 1] = p
      /\ DOMAIN syncQue' = 1..Len(syncQue) + 1
  BY <1>1, AppendProperties
<1>3. /\ p \notin Elements(syncQue)
      /\ pool' \in Seq(Pkg) /\ Len(pool') <= MaxSize
      /\ Elements(pool') = Elements(pool) \ {p}
      /\ \A i, j \in DOMAIN pool' : i # j => pool'[i] # pool'[j]
  BY GetTakesOut
<1>4. /\ pkg \in [Pkg -> Content \cup {None}] /\ sent \in Nat
      /\ \A q \in Pkg : pkg[q] # None => pkg[q].Time = 0
  BY DEF IInv, TypeOK, Stamped
<1>5. pkg' = [pkg EXCEPT ![p] = new]
  BY <1>4
<1>6. new \in Content /\ new # None
  BY <1>4 DEF Content
<1>7. /\ pkg' \in [Pkg -> Content \cup {None}]
      /\ pkg'[p] = new /\ \A q \in Pkg \ {p} : pkg'[q] = pkg[q]
  BY <1>4, <1>5, <1>6
<1>8. \A i \in 1..Len(syncQue) : syncQue[i] # p /\ pkg'[syncQue'[i]] = pkg[syncQue[i]]
  BY <1>1, <1>2, <1>3, <1>7 DEF Elements
<1>9. UnderWay'
  <2>1. target'.n + Len(syncQue') = sent'
    <3>1. target.n \in Nat
      BY <1>0 DEF TypeOK, Content
    <3> QED
      BY <1>0, <1>1, <1>2, <1>4, <3>1 DEF UnderWay
  <2>2. ASSUME NEW i \in 1..Len(syncQue) + 1 PROVE pkg'[syncQue'[i]].n = target'.n + i
    <3>1. CASE i = Len(syncQue) + 1
      <4>1. pkg'[syncQue'[i]].n = sent + 1
        BY <1>2, <1>7, <3>1
      <4>2. target.n \in Nat /\ target.n + Len(syncQue) = sent
        BY <1>0 DEF TypeOK, Content, UnderWay
      <4>3. target.n + i = sent + 1
        BY <1>1, <1>4, <3>1, <4>2
      <4> QED
        BY <4>1, <4>3
    <3>2. CASE i \in 1..Len(syncQue)
      BY <1>0, <1>1, <1>8, <3>2 DEF UnderWay
    <3> QED
      BY <1>1, <3>1, <3>2
  <2> QED
    BY <1>2, <2>1, <2>2 DEF UnderWay
<1>10. NoneLost'
  <2>1. Elements(syncQue') = Elements(syncQue) \cup {p}
    <3>1. \A i \in 1..Len(syncQue) : syncQue[i] = syncQue'[i] /\ i \in DOMAIN syncQue'
      BY <1>1, <1>2
    <3>2. p \in Elements(syncQue')
      BY <1>1, <1>2 DEF Elements
    <3>3. \A i \in DOMAIN syncQue' : i \in 1..Len(syncQue) \/ syncQue'[i] = p
      BY <1>1, <1>2
    <3> QED
      BY <1>1, <3>1, <3>2, <3>3 DEF Elements
  <2>2. {q \in Pkg : pkg'[q] # None} = {q \in Pkg : pkg[q] # None} \cup {p}
    BY <1>6, <1>7
  <2>3. Elements(syncQue') \cup Elements(pool') = {q \in Pkg : pkg'[q] # None}
    BY <1>0, <1>3, <2>1, <2>2 DEF NoneLost
  <2>4. Elements(syncQue') \cap Elements(pool') = {}
    BY <1>0, <1>3, <2>1 DEF NoneLost
  <2>5. \A i, j \in DOMAIN syncQue' : i # j => syncQue'[i] # syncQue'[j]
    <3>1. \A i, j \in 1..Len(syncQue) : i # j => syncQue[i] # syncQue[j]
      BY <1>0, <1>1 DEF NoneLost
    <3> QED
      BY <1>1, <1>2, <1>8, <3>1
  <2> QED
    BY <1>3, <2>3, <2>4, <2>5 DEF NoneLost
<1>11. \A i \in 0..Len(syncQue) : Pending(i)' = Pending(i)
  BY <1>1, <1>8 DEF Pending
<1>12. LastSent' = new
  BY <1>1, <1>2, <1>7 DEF LastSent, Pending
<1>13. \A q \in Pkg : pkg'[q] # None => pkg'[q].Time = 0
  BY <1>4, <1>7
<1> QED
  BY <1>2, <1>3, <1>7, <1>9, <1>10, <1>11, <1>12, <1>13 DEF PacketsAreKept

\* Receiving moves the queue up by one packet and gives its memory back.
LEMMA RecvTakesFirst ==
  ASSUME IInv, RecvPkg
  PROVE  /\ syncQue' \in Seq(Pkg) /\ Len(syncQue) \in Nat \ {0} /\ Len(syncQue') = Len(syncQue) - 1
         /\ pool' \in Seq(Pkg) /\ Len(pool') <= MaxSize
         /\ pkg' \in [Pkg -> Content \cup {None}]
         /\ target' = Pending(1) /\ target' \in Content
         /\ PacketsAreKept'
         /\ \A i \in 0..Len(syncQue) - 1 : Pending(i)' = Pending(i + 1)
         /\ \A q \in Pkg : pkg'[q] # None => pkg'[q].Time = 0
<1> USE SyncDemoAssumption
<1>0. TypeOK /\ UnderWay /\ NoneLost
  BY DEF IInv, PacketsAreKept
<1>1. /\ syncQue \in Seq(Pkg) /\ syncQue # <<>> /\ Len(syncQue) \in Nat \ {0}
      /\ DOMAIN syncQue = 1..Len(syncQue) /\ \A i \in 1..Len(syncQue) : syncQue[i] \in Pkg
  BY <1>0, EmptySeq DEF TypeOK, RecvPkg, Due
<1> DEFINE p == syncQue[1]
<1>2. /\ p = Head(syncQue) /\ p \in Pkg
      /\ syncQue' \in Seq(Pkg) /\ Len(syncQue') = Len(syncQue) - 1
      /\ DOMAIN syncQue' = 1..Len(syncQue) - 1
      /\ \A i \in 1..Len(syncQue) - 1 : syncQue'[i] = syncQue[i + 1]
  BY <1>1, HeadTailProperties DEF RecvPkg
<1>3. /\ pool \in Seq(Pkg) /\ Len(pool) \in Nat /\ Len(pool) <= MaxSize
      /\ DOMAIN pool = 1..Len(pool) /\ \A i \in 1..Len(pool) : pool[i] \in Pkg
      /\ pkg \in [Pkg -> Content \cup {None}]
  BY <1>0 DEF TypeOK
<1>4. \A i, j \in 1..Len(syncQue) : i # j => syncQue[i] # syncQue[j]
  BY <1>0, <1>1 DEF NoneLost
<1>5. /\ p \in Elements(syncQue) /\ pkg[p] # None /\ p \notin Elements(pool)
      /\ Elements(syncQue) \cup Elements(pool) = {q \in Pkg : pkg[q] # None}
      /\ Elements(syncQue) \cap Elements(pool) = {}
  <2>1. p \in Elements(syncQue)
    BY <1>1 DEF Elements
  <2> QED
    BY <1>0, <2>1 DEF NoneLost
<1>6. Elements(syncQue') = Elements(syncQue) \ {p}
  <2>1. ASSUME NEW i \in 1..Len(syncQue) - 1 PROVE syncQue'[i] \in Elements(syncQue) \ {p}
    <3>1. i + 1 \in 1..Len(syncQue) /\ i + 1 # 1
      BY <1>1
    <3>2. syncQue'[i] = syncQue[i + 1] /\ syncQue[i + 1] # p
      BY <1>1, <1>2, <1>4, <3>1
    <3> QED
      BY <1>1, <3>1, <3>2 DEF Elements
  <2>2. ASSUME NEW i \in 1..Len(syncQue), syncQue[i] # p PROVE syncQue[i] \in Elements(syncQue')
    <3>1. i - 1 \in 1..Len(syncQue) - 1 /\ (i - 1) + 1 = i
      BY <1>1, <2>2
    <3>2. syncQue'[i - 1] = syncQue[i]
      BY <1>2, <3>1
    <3> QED
      BY <1>2, <3>1, <3>2 DEF Elements
  <2> QED
    BY <1>1, <1>2, <2>1, <2>2 DEF Elements
<1>7. target' = pkg[p] /\ target' \in Content /\ target' = Pending(1)
  BY <1>1, <1>2, <1>3, <1>5 DEF RecvPkg, SyncTrans, Pending
<1>8. /\ pool' \in Seq(Pkg) /\ Len(pool') <= MaxSize
      /\ pkg' \in [Pkg -> Content \cup {None}]
      /\ \A q \in Pkg \ {p} : pkg'[q] = pkg[q]
      /\ \A q \in Pkg : pkg'[q] # None => pkg'[q] = pkg[q]
      /\ Elements(pool') = {q \in Pkg : pkg'[q] # None} \ Elements(syncQue')
      /\ \A i, j \in DOMAIN pool' : i # j => pool'[i] # pool'[j]
  <2>1. CASE Len(pool) < MaxSize
    <3>1. pool' = Append(pool, p) /\ pkg' = pkg
      BY <1>2, <2>1 DEF RecvPkg, Release
    <3>2. /\ pool' \in Seq(Pkg) /\ Len(pool') = Len(pool) + 1
          /\ \A i \in 1..Len(pool) : pool'[i] = pool[i]
          /\ pool'[Len(pool) + 1] = p
          /\ DOMAIN pool' = 1..Len(pool) + 1
      BY <1>2, <1>3, <3>1, AppendProperties
    <3>3. Elements(pool') = Elements(pool) \cup {p}
      <4>1. \A i \in 1..Len(pool) : pool[i] = pool'[i] /\ i \in DOMAIN pool'
        BY <1>3, <3>2
      <4>2. p \in Elements(pool')
        BY <1>3, <3>2 DEF Elements
      <4>3. \A i \in DOMAIN pool' : i \in 1..Len(pool) \/ pool'[i] = p
        BY <1>3, <3>2
      <4> QED
        BY <1>3, <4>1, <4>2, <4>3 DEF Elements
    <3>4. \A i, j \in DOMAIN pool' : i # j => pool'[i] # pool'[j]
      <4>1. \A i, j \in 1..Len(pool) : i # j => pool[i] # pool[j]
        BY <1>0, <1>3 DEF NoneLost
      <4>2. \A i \in 1..Len(pool) : pool[i] # p
        BY <1>3, <1>5 DEF Elements
      <4> QED
        BY <1>3, <3>2, <4>1, <4>2
    <3>5. Len(pool') <= MaxSize
      BY <1>3, <2>1, <3>2
    <3> QED
      BY <1>3, <1>5, <1>6, <3>1, <3>2, <3>3, <3>4, <3>5
  <2>2. CASE ~(Len(pool) < MaxSize)
    <3>1. pool' = pool /\ pkg' = [pkg EXCEPT ![p] = None]
      BY <1>2, <2>2 DEF RecvPkg, Release
    <3>2. /\ pkg' \in [Pkg -> Content \cup {None}] /\ pkg'[p] = None
          /\ \A q \in Pkg \ {p} : pkg'[q] = pkg[q]
      BY <1>2, <1>3, <3>1
    <3>3. \A i, j \in DOMAIN pool : i # j => pool[i] # pool[j]
      BY <1>0 DEF NoneLost
    <3> QED
      BY <1>2, <1>3, <1>5, <1>6, <3>1, <3>2, <3>3
  <2> QED
    BY <2>1, <2>2
<1>9. Elements(syncQue') \subseteq {q \in Pkg : pkg'[q] # None}
  BY <1>5, <1>6, <1>8
<1>10. \A i \in 1..Len(syncQue) - 1 : pkg'[syncQue'[i]] = pkg[syncQue[i + 1]]
  <2> TAKE i \in 1..Len(syncQue) - 1
  <2>1. i + 1 \in 1..Len(syncQue) /\ i + 1 # 1
    BY <1>1
  <2>2. syncQue[i + 1] # p /\ syncQue[i + 1] \in Pkg
    BY <1>1, <1>4, <2>1
  <2> QED
    BY <1>2, <1>8, <2>2
<1>11. NoneLost'
  <2>1. \A i, j \in DOMAIN syncQue' : i # j => syncQue'[i] # syncQue'[j]
    BY <1>1, <1>2, <1>4
  <2> QED
    BY <1>8, <1>9, <2>1 DEF NoneLost
<1>12. UnderWay'
  <2>1. target.n \in Nat /\ target.n + Len(syncQue) = sent /\ sent' = sent
    BY <1>0 DEF TypeOK, Content, UnderWay, RecvPkg
  <2>2. target'.n = target.n + 1
    <3>1. 1 \in DOMAIN syncQue
      BY <1>1
    <3> QED
      BY <1>0, <1>7, <3>1 DEF UnderWay
  <2>3. target'.n + Len(syncQue') = sent'
    BY <1>1, <1>2, <2>1, <2>2
  <2>4. ASSUME NEW i \in 1..Len(syncQue) - 1 PROVE pkg'[syncQue'[i]].n = target'.n + i
    <3>1. i + 1 \in DOMAIN syncQue
      BY <1>1
    <3>2. pkg'[syncQue'[i]].n = target.n + (i + 1)
      BY <1>0, <1>10, <3>1 DEF UnderWay
    <3>3. target'.n + i = target.n + (i + 1)
      BY <1>1, <2>1, <2>2
    <3> QED
      BY <3>2, <3>3
  <2> QED
    BY <1>2, <2>3, <2>4 DEF UnderWay
<1>13. \A i \in 0..Len(syncQue) - 1 : Pending(i)' = Pending(i + 1)
  <2> TAKE i \in 0..Len(syncQue) - 1
  <2>1. CASE i = 0
    BY <1>7, <2>1 DEF Pending
  <2>2. CASE i \in 1..Len(syncQue) - 1
    BY <1>1, <1>10, <2>2 DEF Pending
  <2> QED
    BY <1>1, <2>1, <2>2
<1>14. \A q \in Pkg : pkg'[q] # None => pkg'[q].Time = 0
  BY <1>8 DEF IInv, Stamped
<1> QED
  BY <1>1, <1>2, <1>7, <1>8, <1>11, <1>12, <1>13, <1>14 DEF PacketsAreKept

-----------------------------------------------------------------------------
LEMMA InitIsSound == Init => IInv
<1> SUFFICES ASSUME Init PROVE IInv
  OBVIOUS
<1> USE SyncDemoAssumption DEF Init
<1>1. TypeOK
  BY DEF TypeOK, Fresh, Content
<1>2. OnTheClock
  BY DEF OnTheClock
<1>3. PacketsAreKept
  <2>1. Elements(<<>>) = {}
    BY DEF Elements
  <2> QED
    BY <2>1 DEF PacketsAreKept, UnderWay, NoneLost, Fresh
<1>4. Stamped
  BY DEF Stamped, LastSent, Pending, Fresh
<1>5. HeldIsLast
  BY DEF HeldIsLast
<1> QED
  BY <1>1, <1>2, <1>3, <1>4, <1>5 DEF IInv

\* When the coroutine has nothing to do, everything sent has been received.
LEMMA NothingDue ==
  ASSUME IInv, ~Due
  PROVE  syncQue = <<>> /\ target.n = sent
<1>1. syncQue = <<>>
  <2> SUFFICES ASSUME syncQue # <<>> PROVE FALSE
    OBVIOUS
  <2>1. Head(syncQue) = syncQue[1] /\ 1 \in DOMAIN syncQue /\ Head(syncQue) \in Pkg
    BY EmptySeq DEF IInv, TypeOK
  <2>2. pkg[Head(syncQue)] # None
    BY <2>1 DEF IInv, PacketsAreKept, NoneLost, Elements
  <2>3. pkg[Head(syncQue)].Time = 0 /\ time \in Nat
    BY <2>1, <2>2, SyncDemoAssumption DEF IInv, Stamped, TypeOK
  <2> QED
    BY <2>3 DEF Due
<1>2. target.n \in Nat
  BY DEF IInv, TypeOK, Content
<1> QED
  BY <1>1, <1>2 DEF IInv, PacketsAreKept, UnderWay

\* The ends of the queue have proper times and numbers.
LEMMA PendingTyped ==
  ASSUME IInv
  PROVE  /\ Len(syncQue) \in Nat
         /\ \A i \in 0..Len(syncQue) : Pending(i) \in Content
         /\ LastSent \in Content /\ LastSent.time \in Nat
<1>1. syncQue \in Seq(Pkg) /\ Len(syncQue) \in Nat /\ DOMAIN syncQue = 1..Len(syncQue)
  BY DEF IInv, TypeOK
<1>2. ASSUME NEW i \in 1..Len(syncQue) PROVE pkg[syncQue[i]] \in Content
  <2>1. syncQue[i] \in Elements(syncQue) /\ syncQue[i] \in Pkg
    BY <1>1 DEF Elements
  <2>2. pkg[syncQue[i]] # None
    BY <2>1 DEF IInv, PacketsAreKept, NoneLost
  <2> QED
    BY <2>1, <2>2 DEF IInv, TypeOK
<1>3. \A i \in 0..Len(syncQue) : Pending(i) \in Content
  BY <1>1, <1>2 DEF Pending, IInv, TypeOK
<1>4. LastSent \in Content
  BY <1>1, <1>3 DEF LastSent
<1> QED
  BY <1>1, <1>3, <1>4 DEF Content

\* A packet that is sent at now, later than the one before or with the button
\* held and the one before by the clock, keeps the queue in order.
LEMMA SendStamps ==
  ASSUME IInv, NEW h \in BOOLEAN, NEW now \in Nat, SendPkg(h, now), target' = target,
         LastSent.time <= now, LastSent.time = now => h /\ ~LastSent.isHolding
  PROVE  /\ \A i \in 0..Len(syncQue') - 1 : Follows(Pending(i + 1)', Pending(i)')
         /\ LastSent'.time = now /\ LastSent'.isHolding = h
<1>1. Len(syncQue) \in Nat /\ Len(syncQue') = Len(syncQue) + 1
  BY SendAppends, PendingTyped
<1>2. \A i \in 0..Len(syncQue) : Pending(i)' = Pending(i)
  BY SendAppends
<1>3. LastSent' = [n |-> sent + 1, time |-> now, isHolding |-> h, Time |-> 0]
  BY SendAppends
<1>4. \A i \in Nat : i = Len(syncQue) + 1 => Pending(i)' = LastSent'
  BY <1>1 DEF LastSent, Pending
<1>5. \A i \in Nat : i = Len(syncQue) => Pending(i)' = LastSent
  BY <1>1, <1>2 DEF LastSent
<1>6. ASSUME NEW i \in 0..Len(syncQue') - 1 PROVE Follows(Pending(i + 1)', Pending(i)')
  <2>1. CASE i = Len(syncQue)
    <3>1. Pending(i)' = LastSent
      BY <1>1, <1>5, <2>1
    <3>2. Pending(i + 1)' = LastSent'
      BY <1>1, <1>4, <2>1
    <3> QED
      BY <1>3, <3>1, <3>2 DEF Follows
  <2>2. CASE i \in 0..Len(syncQue) - 1
    <3>1. i \in 0..Len(syncQue) /\ i + 1 \in 0..Len(syncQue)
      BY <1>1, <2>2
    <3>2. Pending(i)' = Pending(i) /\ Pending(i + 1)' = Pending(i + 1)
      BY <1>2, <3>1
    <3> QED
      BY <2>2, <3>2 DEF IInv, Stamped
  <2> QED
    BY <1>1, <2>1, <2>2
<1> QED
  BY <1>3, <1>6

-----------------------------------------------------------------------------
LEMMA NextFrameKeeps ==
  ASSUME IInv, NEW d \in FrameTime, NextFrame(d)
  PROVE  IInv'
<1> USE SyncDemoAssumption
<1>1. syncQue = <<>> /\ target.n = sent
  BY NothingDue DEF NextFrame
<1>2. time \in Nat /\ fixed \in 0..time /\ d \in Nat \ {0} /\ time' = time + d /\ time' <= MaxTime
  BY DEF IInv, TypeOK, NextFrame
<1>3. TypeOK'
  BY <1>2 DEF IInv, TypeOK, NextFrame
<1>4. OnTheClock'
  BY DEF IInv, OnTheClock, NextFrame
<1>5. PacketsAreKept'
  BY DEF IInv, PacketsAreKept, UnderWay, NoneLost, Elements, NextFrame
<1>6. \A i : Pending(i)' = Pending(i)
  BY DEF Pending, NextFrame
<1>7. LastSent' = LastSent /\ LastSent = target
  BY <1>1, <1>6 DEF LastSent, Pending, NextFrame
<1>8. Stamped'
  <2>1. LastSent.time \in Nat
    BY PendingTyped
  <2> QED
    BY <1>2, <1>6, <1>7, <2>1 DEF IInv, Stamped, NextFrame
<1>9. HeldIsLast'
  BY <1>1, <1>7 DEF IInv, HeldIsLast, NextFrame
<1> QED
  BY <1>3, <1>4, <1>5, <1>8, <1>9 DEF IInv

LEMMA EndFixedKeeps ==
  ASSUME IInv, EndFixed
  PROVE  IInv'
<1> USE SyncDemoAssumption
<1>1. TypeOK' /\ OnTheClock'
  BY DEF IInv, TypeOK, OnTheClock, EndFixed
<1>2. PacketsAreKept'
  BY DEF IInv, PacketsAreKept, UnderWay, NoneLost, Elements, EndFixed
<1>3. (\A i : Pending(i)' = Pending(i)) /\ LastSent' = LastSent
  BY DEF Pending, LastSent, EndFixed
<1>4. time \in Int /\ fixed \in Int
  BY DEF IInv, TypeOK
<1>5. Stamped'
  BY <1>3, <1>4 DEF IInv, Stamped, EndFixed
<1>6. HeldIsLast'
  BY DEF HeldIsLast, EndFixed
<1> QED
  BY <1>1, <1>2, <1>5, <1>6 DEF IInv

\* One more packet by the clock takes one interval off the time that is left.
LEMMA OneMoreInterval ==
  ASSUME NEW c \in Nat, NEW m \in Nat, NEW f \in Nat, NEW d \in Nat, NEW v \in Nat,
         c * v + m = f
  PROVE  (c + 1) * v + (m + d - v) = f + d
<1>1. (c + 1) * v = c * v + v
  OBVIOUS
<1>2. c * v \in Nat
  OBVIOUS
<1> QED
  BY <1>1, <1>2

LEMMA FixedUpdateKeeps ==
  ASSUME IInv, FixedUpdate
  PROVE  IInv'
<1> USE SyncDemoAssumption
<1>1. /\ phase = "fixed" /\ phase' = phase /\ time' = time /\ target' = target /\ held' = held
      /\ fixed' = fixed + FixedDelta /\ fixed' <= time
  BY DEF FixedUpdate
<1>2. /\ time \in 0..MaxTime /\ fixed \in 0..time /\ m_time \in 0..Interval
      /\ sent \in Nat /\ clocked \in 0..sent /\ copy \in Nat /\ target \in Content
  BY DEF IInv, TypeOK
<1>3. fixed' \in Nat /\ fixed' \in 0..time'
  BY <1>1, <1>2
<1>4. copy' \in Nat
  BY <1>2 DEF FixedUpdate, Interpolate, Content
<1>5. LastSent.time \in Nat /\ LastSent.time < fixed'
  BY <1>1, <1>2, PendingTyped DEF IInv, Stamped
<1>6. HeldIsLast'
  BY <1>1 DEF IInv, HeldIsLast
<1>7. clocked * Interval + m_time = fixed /\ m_time <= Interval
  BY DEF IInv, OnTheClock
<1>8. CASE /\ m_time + FixedDelta >= Interval
           /\ SendPkg(FALSE, fixed') /\ m_time' = m_time + FixedDelta - Interval
           /\ clocked' = clocked + 1
  <2>1. /\ SendPkg(FALSE, fixed') /\ m_time' = m_time + FixedDelta - Interval
        /\ clocked' = clocked + 1
    BY <1>8
  <2>2. PICK now \in Nat : now = fixed'
    BY <1>3
  <2>3. SendPkg(FALSE, now)
    BY <2>1, <2>2
  <2>4. OnTheClock'
    <3>1. clocked' * Interval + m_time' = fixed'
      BY <1>1, <1>2, <1>7, <2>1, OneMoreInterval
    <3>2. m_time' <= Interval
      BY <1>2, <1>7, <2>1
    <3> QED
      BY <3>1, <3>2 DEF OnTheClock
  <2>5. m_time' \in 0..Interval
    BY <1>2, <1>7, <1>8, <2>1
  <2>6. /\ syncQue' \in Seq(Pkg) /\ pool' \in Seq(Pkg) /\ Len(pool') <= MaxSize
        /\ pkg' \in [Pkg -> Content \cup {None}] /\ sent' = sent + 1
        /\ PacketsAreKept'
        /\ \A p \in Pkg : pkg'[p] # None => pkg'[p].Time = 0
    BY <1>1, <2>3, SendAppends
  <2>7. TypeOK'
    <3>1. sent' \in Nat /\ clocked' \in 0..sent' /\ held' \in 0..sent'
      BY <1>1, <1>2, <2>1, <2>6 DEF IInv, TypeOK
    <3> QED
      BY <1>1, <1>2, <1>3, <1>4, <2>5, <2>6, <3>1 DEF TypeOK
  <2>8. /\ \A i \in 0..Len(syncQue') - 1 : Follows(Pending(i + 1)', Pending(i)')
        /\ LastSent'.time = now /\ ~LastSent'.isHolding
    <3>1. LastSent.time <= now /\ LastSent.time # now
      BY <1>5, <2>2
    <3> QED
      BY <1>1, <2>3, <3>1, SendStamps
  <2>9. Stamped'
    <3>1. now <= time' /\ now < fixed' + FixedDelta
      BY <1>1, <1>2, <1>3, <2>2
    <3> QED
      BY <1>1, <2>6, <2>8, <3>1 DEF Stamped
  <2> QED
    BY <1>6, <2>4, <2>6, <2>7, <2>9 DEF IInv
<1>9. CASE /\ m_time + FixedDelta <= Interval
           /\ m_time' = m_time + FixedDelta /\ UNCHANGED <<syncQue, pool, pkg, sent, clocked>>
  <2>1. m_time' = m_time + FixedDelta /\ UNCHANGED <<syncQue, pool, pkg, sent, clocked>>
    BY <1>9
  <2>2. TypeOK'
    <3>1. m_time' \in 0..Interval
      BY <1>2, <1>9, <2>1
    <3> QED
      BY <1>1, <1>2, <1>3, <1>4, <2>1, <3>1 DEF IInv, TypeOK
  <2>3. OnTheClock'
    <3>1. clocked * Interval \in Nat
      BY <1>2
    <3> QED
      BY <1>1, <1>2, <1>7, <1>9, <2>1, <3>1 DEF OnTheClock
  <2>4. PacketsAreKept'
    BY <1>1, <2>1 DEF IInv, PacketsAreKept, UnderWay, NoneLost, Elements
  <2>5. (\A i : Pending(i)' = Pending(i)) /\ LastSent' = LastSent
    BY <1>1, <2>1 DEF Pending, LastSent
  <2>6. Stamped'
    BY <1>1, <1>2, <1>5, <2>1, <2>5 DEF IInv, Stamped
  <2> QED
    BY <1>6, <2>2, <2>3, <2>4, <2>6 DEF IInv
<1> QED
  BY <1>8, <1>9 DEF FixedUpdate

LEMMA UpdateKeeps ==
  ASSUME IInv, NEW button \in BOOLEAN, Update(button)
  PROVE  IInv'
<1> USE SyncDemoAssumption
<1>1. /\ phase = "update" /\ phase' = "receive" /\ time' = time /\ fixed' = fixed
      /\ m_time' = m_time /\ target' = target /\ copy' = copy /\ clocked' = clocked
  BY DEF Update
<1>2. /\ time \in Nat /\ fixed \in Nat /\ sent \in Nat /\ clocked \in 0..sent
      /\ time < fixed + FixedDelta
  BY <1>1 DEF IInv, TypeOK, Stamped
<1>3. OnTheClock'
  BY <1>1 DEF IInv, OnTheClock
<1>4. CASE button
  <2>1. SendPkg(TRUE, time) /\ held' = sent'
    BY <1>4 DEF Update
  <2>2. PICK now \in Nat : now = time
    BY <1>2
  <2>3. SendPkg(TRUE, now)
    BY <2>1, <2>2
  <2>4. /\ syncQue' \in Seq(Pkg) /\ pool' \in Seq(Pkg) /\ Len(pool') <= MaxSize
        /\ pkg' \in [Pkg -> Content \cup {None}] /\ sent' = sent + 1
        /\ PacketsAreKept'
        /\ \A p \in Pkg : pkg'[p] # None => pkg'[p].Time = 0
    BY <1>1, <2>3, SendAppends
  <2>5. LastSent.time <= now /\ (LastSent.time = now => ~LastSent.isHolding)
    BY <1>1, <1>2, <2>2, PendingTyped DEF IInv, Stamped
  <2>6. /\ \A i \in 0..Len(syncQue') - 1 : Follows(Pending(i + 1)', Pending(i)')
        /\ LastSent'.time = now /\ LastSent'.isHolding
    BY <1>1, <2>3, <2>5, SendStamps
  <2>7. TypeOK'
    <3>1. sent' \in Nat /\ clocked' \in 0..sent' /\ held' \in 0..sent'
      BY <1>1, <1>2, <2>1, <2>4
    <3> QED
      BY <1>1, <2>4, <3>1 DEF IInv, TypeOK
  <2>8. Stamped'
    BY <1>1, <1>2, <2>2, <2>4, <2>6 DEF Stamped
  <2>9. HeldIsLast'
    BY <1>1, <2>1, <2>6 DEF HeldIsLast
  <2> QED
    BY <1>3, <2>4, <2>7, <2>8, <2>9 DEF IInv
<1>5. CASE ~button
  <2>1. held' = 0 /\ UNCHANGED <<syncQue, pool, pkg, sent>>
    BY <1>5 DEF Update
  <2>2. TypeOK'
    BY <1>1, <1>2, <2>1 DEF IInv, TypeOK
  <2>3. PacketsAreKept'
    BY <1>1, <2>1 DEF IInv, PacketsAreKept, UnderWay, NoneLost, Elements
  <2>4. (\A i : Pending(i)' = Pending(i)) /\ LastSent' = LastSent
    BY <1>1, <2>1 DEF Pending, LastSent
  <2>5. Stamped'
    BY <1>1, <1>2, <2>1, <2>4 DEF IInv, Stamped
  <2>6. HeldIsLast'
    BY <2>1 DEF HeldIsLast
  <2> QED
    BY <1>3, <2>2, <2>3, <2>5, <2>6 DEF IInv
<1> QED
  BY <1>4, <1>5

LEMMA RecvPkgKeeps ==
  ASSUME IInv, RecvPkg
  PROVE  IInv'
<1> USE SyncDemoAssumption
<1>1. /\ phase = "receive"
      /\ UNCHANGED <<phase, time, fixed, m_time, copy, sent, clocked, held>>
  BY DEF RecvPkg
<1>2. /\ syncQue' \in Seq(Pkg) /\ Len(syncQue) \in Nat \ {0} /\ Len(syncQue') = Len(syncQue) - 1
      /\ pool' \in Seq(Pkg) /\ Len(pool') <= MaxSize
      /\ pkg' \in [Pkg -> Content \cup {None}]
      /\ target' \in Content
      /\ PacketsAreKept'
      /\ \A i \in 0..Len(syncQue) - 1 : Pending(i)' = Pending(i + 1)
      /\ \A q \in Pkg : pkg'[q] # None => pkg'[q].Time = 0
  BY RecvTakesFirst
<1>3. TypeOK'
  BY <1>1, <1>2 DEF IInv, TypeOK
<1>4. OnTheClock'
  BY <1>1 DEF IInv, OnTheClock
<1>5. LastSent' = LastSent
  <2>1. PICK l \in 0..Len(syncQue) - 1 : l = Len(syncQue) - 1 /\ l + 1 = Len(syncQue)
    BY <1>2
  <2>2. LastSent' = Pending(l)'
    BY <1>2, <2>1 DEF LastSent, Pending
  <2>3. Pending(l)' = Pending(l + 1)
    BY <1>2
  <2>4. Pending(l + 1) = LastSent
    BY <2>1 DEF LastSent
  <2> QED
    BY <2>2, <2>3, <2>4
<1>6. ASSUME NEW i \in 0..Len(syncQue') - 1 PROVE Follows(Pending(i + 1)', Pending(i)')
  <2>1. /\ i \in 0..Len(syncQue) - 1 /\ i + 1 \in 0..Len(syncQue) - 1
        /\ \A j \in Nat : j = i + 1 => j \in 0..Len(syncQue) - 1
    BY <1>2
  <2>2. Pending(i)' = Pending(i + 1) /\ Pending(i + 1)' = Pending((i + 1) + 1)
    BY <1>2, <2>1
  <2> QED
    BY <2>1, <2>2 DEF IInv, Stamped
<1>7. Stamped'
  BY <1>1, <1>2, <1>5, <1>6 DEF IInv, Stamped
<1>8. HeldIsLast'
  BY <1>1, <1>5 DEF IInv, HeldIsLast
<1> QED
  BY <1>2, <1>3, <1>4, <1>7, <1>8 DEF IInv

LEMMA InvNext == IInv /\ [Next]_vars => IInv'
<1> SUFFICES ASSUME IInv, [Next]_vars PROVE IInv'
  OBVIOUS
<1>1. CASE \E d \in FrameTime : NextFrame(d)
  BY <1>1, NextFrameKeeps
<1>2. CASE FixedUpdate
  BY <1>2, FixedUpdateKeeps
<1>3. CASE EndFixed
  BY <1>3, EndFixedKeeps
<1>4. CASE \E button \in BOOLEAN : Update(button)
  BY <1>4, UpdateKeeps
<1>5. CASE RecvPkg
  BY <1>5, RecvPkgKeeps
<1>6. CASE UNCHANGED vars
  <2>1. TypeOK' /\ OnTheClock'
    BY <1>6 DEF vars, IInv, TypeOK, OnTheClock
  <2>2. PacketsAreKept'
    BY <1>6 DEF vars, IInv, PacketsAreKept, UnderWay, NoneLost, Elements
  <2>3. (\A i : Pending(i)' = Pending(i)) /\ LastSent' = LastSent
    BY <1>6 DEF vars, Pending, LastSent
  <2>4. Stamped' /\ HeldIsLast'
    BY <1>6, <2>3 DEF vars, IInv, Stamped, HeldIsLast
  <2> QED
    BY <2>1, <2>2, <2>4 DEF IInv
<1> QED
  BY <1>1, <1>2, <1>3, <1>4, <1>5, <1>6 DEF Next

LEMMA InvAlways == Spec => []IInv
BY InitIsSound, InvNext, PTL DEF Spec

-----------------------------------------------------------------------------
\* Every variable of the demo keeps its type: times, counters and the pool stay
\* within their bounds.
THEOREM DemoTypeCorrect == Spec => []TypeOK
<1>1. IInv => TypeOK
  BY DEF IInv
<1> QED
  BY <1>1, InvAlways, PTL

\* ObjectPool never hands out a packet that is under way, so that no packet is
\* overwritten before it is received, and loses none.
THEOREM PoolIsSound == Spec => []PacketsAreKept
<1>1. IInv => PacketsAreKept
  BY DEF IInv
<1> QED
  BY <1>1, InvAlways, PTL

\* Demo1.FixedUpdate sends one packet per interval, whatever the frames are and
\* however a float sum equal to the interval is rounded.
THEOREM ClockDoesNotDrift == Spec => []OnTheClock
<1>1. IInv => OnTheClock
  BY DEF IInv
<1> QED
  BY <1>1, InvAlways, PTL

\* SimulateRecvPkg hands over each packet once, in the order of sending and of
\* their times; two have the same time only if the clock sent the first in the
\* fixed step of that time and Update the second.
THEOREM DeliversInOrder == Spec => ReceivedInOrder
<1>1. IInv /\ [Next]_vars =>
        [RecvPkg => target'.n = target.n + 1 /\ Follows(target', target)]_vars
  <2> SUFFICES ASSUME IInv, RecvPkg
               PROVE  target'.n = target.n + 1 /\ Follows(target', target)
    OBVIOUS
  <2>1. target' = Pending(1) /\ Len(syncQue) \in Nat \ {0}
    BY RecvTakesFirst
  <2>2. target = Pending(0)
    BY DEF Pending
  <2>3. 0 \in 0..Len(syncQue) - 1 /\ 1 \in DOMAIN syncQue
    BY <2>1 DEF IInv, TypeOK
  <2>4. Follows(Pending(0 + 1), Pending(0)) /\ 0 + 1 = 1
    BY <2>3 DEF IInv, Stamped
  <2>5. Pending(1).n = target.n + 1
    BY <2>3 DEF IInv, PacketsAreKept, UnderWay, Pending
  <2> QED
    BY <2>1, <2>2, <2>4, <2>5
<1> QED
  BY <1>1, InvAlways, PTL DEF Spec, ReceivedInOrder

\* If a button was held in the last frame, SyncObject.FixedUpdate sets the
\* second ball to the position that was sent then: nothing is delayed.
THEOREM HeldPositionWins == Spec => HoldWins
<1>1. IInv /\ [Next]_vars => [FixedUpdate /\ held > 0 => copy' = held]_vars
  <2> SUFFICES ASSUME IInv, FixedUpdate, held > 0 PROVE copy' = held
    OBVIOUS
  <2>1. held = target.n /\ target.isHolding
    BY DEF IInv, HeldIsLast, FixedUpdate
  <2> QED
    BY <2>1 DEF FixedUpdate, Interpolate
<1> QED
  BY <1>1, InvAlways, PTL DEF Spec, HoldWins
=============================================================================
