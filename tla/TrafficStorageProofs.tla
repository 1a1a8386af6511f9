------------------------ MODULE TrafficStorageProofs ------------------------
(***************************************************************************)
(* Proofs about the traffic storage, for every set of names, lengths and   *)
(* callers and without a bound on the bytes sniffed.                       *)
(***************************************************************************)
EXTENDS TrafficStorage, TLAPS

-----------------------------------------------------------------------------
(* The helpers on lines and accounts. *)

(* The line of a name in a traffic map is a line. *)
LEMMA AtType ==
    ASSUME NEW m, TrafficMap(m), NEW n
    PROVE  At(m, n) \in Line
BY DEF At, TrafficMap, Line, ZeroLine

(* Any part of a traffic map is an account. *)
LEMMA PartType ==
    ASSUME NEW m, TrafficMap(m), NEW S
    PROVE  Part(m, S) \in Accounts
<1>1. \A n \in Names : (IF n \in S THEN At(m, n) ELSE ZeroLine) \in Line
    BY AtType DEF Line, ZeroLine
<1> QED BY <1>1 DEF Part, Accounts

(* Accounts are closed under addition, which is pointwise. *)
LEMMA PlusType ==
    ASSUME NEW f \in Accounts, NEW g \in Accounts
    PROVE  /\ Plus(f, g) \in Accounts
           /\ \A n \in Names, d \in Dir : Plus(f, g)[n][d] = f[n][d] + g[n][d]
BY DEF Plus, Accounts, Line

(* Adding bytes to one counter changes that counter only. *)
LEMMA BumpAccount ==
    ASSUME NEW f \in Accounts, NEW n \in Names, NEW d \in Dir, NEW k \in Nat
    PROVE  /\ Bump(f, n, d, k) \in Accounts
           /\ \A m \in Names, e \in Dir :
                Bump(f, n, d, k)[m][e] = f[m][e] + IF m = n /\ e = d THEN k ELSE 0
BY DEF Accounts, Line, Bump

(* The same for a traffic map that has the line. *)
LEMMA BumpMap ==
    ASSUME NEW m, TrafficMap(m), NEW n \in DOMAIN m, NEW d \in Dir, NEW k \in Nat
    PROVE  /\ TrafficMap(Bump(m, n, d, k))
           /\ DOMAIN Bump(m, n, d, k) = DOMAIN m
           /\ \A x \in Names, e \in Dir :
                At(Bump(m, n, d, k), x)[e]
                  = At(m, x)[e] + IF x = n /\ e = d THEN k ELSE 0
<1> DEFINE b == Bump(m, n, d, k)
<1>1. DOMAIN b = DOMAIN m
    BY DEF Bump
<1>2. m \in [DOMAIN m -> Line] /\ DOMAIN m \subseteq Names
    BY DEF TrafficMap
<1>3. b \in [DOMAIN m -> Line]
    BY <1>2 DEF Bump, Line
<1>4. ASSUME NEW x \in Names, NEW e \in Dir
      PROVE  At(b, x)[e] = At(m, x)[e] + IF x = n /\ e = d THEN k ELSE 0
    BY <1>1, <1>2 DEF At, Bump, Line, ZeroLine
<1> QED BY <1>1, <1>2, <1>3, <1>4 DEF TrafficMap

(* A copy of a traffic map is one, and has no line that the map has not. *)
LEMMA WalksType ==
    ASSUME NEW m, TrafficMap(m), NEW w \in Walks(m)
    PROVE  /\ TrafficMap(w)
           /\ \A n \in Names, d \in Dir : At(w, n)[d] <= At(m, n)[d]
<1>1. \E S \in SUBSET DOMAIN m : w = [n \in S |-> m[n]]
    <2>1. m = [n \in DOMAIN m |-> m[n]]
        BY DEF TrafficMap
    <2> QED BY <2>1 DEF Walks
<1> PICK S \in SUBSET DOMAIN m : w = [n \in S |-> m[n]]
    BY <1>1
<1>2. TrafficMap(w)
    BY DEF TrafficMap
<1>3. ASSUME NEW n \in Names, NEW d \in Dir PROVE At(w, n)[d] <= At(m, n)[d]
    BY DEF TrafficMap, At, Line, ZeroLine
<1> QED BY <1>2, <1>3

(* The empty containers have their types. *)
LEMMA EmptyType == TrafficMap(EmptyMap) /\ Zero \in Accounts
BY DEF TrafficMap, EmptyMap, Zero, ZeroLine, Accounts, Line

(* The unhanded part of the map is an account in every well-typed state. *)
LEMMA InBufferType == TypeOK => InBuffer \in Accounts
BY PartType, EmptyType DEF TypeOK, InBuffer

-----------------------------------------------------------------------------
(* Type correctness.  That a live reference names a line of the map is part   *)
(* of it: add would otherwise write outside the map's domain.                 *)

(* The initial state has the types. *)
LEMMA TypeInit == Init => TypeOK
BY NilAssumption, EmptyType DEF Init, TypeOK

(* Both halves of add keep the types. *)
LEMMA TypeAdd == TypeOK /\ Add => TypeOK'
<1> SUFFICES ASSUME TypeOK, Add PROVE TypeOK'
    OBVIOUS
<1>1. ASSUME NEW n \in Names, NEW d \in Dir, NEW k \in Lens, AddLookup(n, d, k)
      PROVE  TypeOK'
    <2>1. TrafficMap(mApplicationTraffic') /\ n \in DOMAIN mApplicationTraffic'
        BY <1>1, AtType DEF AddLookup, Lookup, TypeOK, TrafficMap
    <2>2. line' \subseteq Ref /\ \A r \in line' : r.name = n
        BY <1>1 DEF AddLookup, Ref
    <2> QED BY <1>1, <2>1, <2>2 DEF AddLookup, TypeOK, hook, history
<1>2. ASSUME AddUpdate PROVE TypeOK'
    <2> PICK r \in line : AddUpdate!(r)
        BY <1>2 DEF AddUpdate
    <2>1. r \in Ref /\ r.name \in Names /\ r.dir \in Dir /\ r.len \in Nat
        BY LensAssumption DEF TypeOK, Ref
    <2>2. sniffed' \in Accounts /\ stray' \in Accounts
        BY <2>1, BumpAccount DEF TypeOK
    <2>3. TrafficMap(mApplicationTraffic')
        BY <2>1, BumpMap DEF TypeOK
    <2> QED BY <2>2, <2>3 DEF TypeOK, hook
<1> QED BY <1>1, <1>2 DEF Add

(* Every step of a deposit keeps the types. *)
LEMMA TypeDeposit == TypeOK /\ Deposit => TypeOK'
<1> SUFFICES ASSUME TypeOK, Deposit PROVE TypeOK'
    OBVIOUS
<1>1. CASE DepositWake
    BY <1>1 DEF DepositWake, TypeOK, hook, history
<1>2. ASSUME NEW S \in SUBSET Names, DepositInsert(S) PROVE TypeOK'
    <2>1. stored' \in Accounts /\ refused' \in Accounts
        BY <1>2, PartType, PlusType DEF DepositInsert, TypeOK
    <2> QED BY <1>2, <2>1 DEF DepositInsert, TypeOK, hook
<1>3. CASE DepositNotify
    <2>1. DOMAIN trafficMap' = Callers
          /\ \A c \in Callers : TrafficMap(trafficMap'[c])
        <3>1. \A m \in Walks(mApplicationTraffic) : TrafficMap(m)
            BY WalksType DEF TypeOK
        <3> QED BY <1>3, <3>1 DEF DepositNotify, TypeOK
    <2>2. await' \in [Callers -> {"none", "locked", "signalled", "relocked"}]
        BY <1>3 DEF DepositNotify, Unlock, TypeOK
    <2> QED BY <1>3, <2>1, <2>2 DEF DepositNotify, HookDone, TypeOK, history
<1>4. CASE DepositClear
    <2>1. line' \subseteq Ref /\ \A r \in line' : r.node = "freed"
        BY <1>4 DEF DepositClear, TypeOK, Ref
    <2> QED BY <1>4, <2>1, EmptyType DEF DepositClear, Cleared, TypeOK, hook, history
<1> QED BY <1>1, <1>2, <1>3, <1>4 DEF Deposit

(* The callers' own steps keep the types. *)
LEMMA TypeCaller ==
    ASSUME TypeOK, NEW c \in Callers, AwaitSnapshot(c) \/ Relock(c) \/ DropFrame(c)
    PROVE  TypeOK'
<1>1. CASE AwaitSnapshot(c)
    BY <1>1 DEF AwaitSnapshot, TypeOK, buffer, history
<1>2. CASE Relock(c)
    BY <1>2 DEF Relock, TypeOK, buffer, history
<1>3. CASE DropFrame(c)
    <2>1. DOMAIN trafficMap' = Callers
          /\ \A x \in Callers : TrafficMap(trafficMap'[x])
        BY <1>3, EmptyType DEF DropFrame, TypeOK
    <2> QED BY <1>3, <2>1 DEF DropFrame, TypeOK, buffer, history
<1> QED BY <1>1, <1>2, <1>3

(* The end of the process keeps the types. *)
LEMMA TypeCrash == TypeOK /\ Crash => TypeOK'
BY InBufferType, PlusType, EmptyType DEF Crash, TypeOK

(* Every reachable state is well typed. *)
THEOREM TypeCorrect == Spec => []TypeOK
<1>1. TypeOK /\ [Next]_vars => TypeOK'
    <2> SUFFICES ASSUME TypeOK, [Next]_vars PROVE TypeOK'
        OBVIOUS
    <2>1. CASE UNCHANGED vars
        BY <2>1 DEF vars, buffer, hook, history, TypeOK
    <2> QED BY <2>1, TypeAdd, TypeDeposit, TypeCaller, TypeCrash DEF Next
<1> QED BY <1>1, TypeInit, PTL DEF Spec

-----------------------------------------------------------------------------
(* The live API hook. *)

HookInv == NoDanglingHook /\ NoLostWakeup

(* The hook and the caller's frame always agree: the deposit thread never     *)
(* follows a pointer into a dead frame, and no caller waits unseen.           *)
THEOREM HookCorrect == Spec => [](NoDanglingHook /\ NoLostWakeup)
<1>1. Init => HookInv
    BY DEF Init, HookInv, NoDanglingHook, NoLostWakeup
<1>2. TypeOK /\ HookInv /\ [Next]_vars => HookInv'
    <2> SUFFICES ASSUME TypeOK, HookInv, [Next]_vars PROVE HookInv'
        OBVIOUS
    <2> USE DEF HookInv, NoDanglingHook, NoLostWakeup
    <2>1. CASE UNCHANGED hook
        BY <2>1 DEF hook
    <2>2. CASE Add \/ UNCHANGED vars
        BY <2>1, <2>2 DEF Add, AddLookup, AddUpdate, vars
    <2>3. CASE Deposit
        <3>1. CASE DepositNotify
            BY <3>1, NilAssumption DEF DepositNotify, HookDone, Unlock, TypeOK
        <3> QED BY <2>1, <2>3, <3>1
                DEF Deposit, DepositWake, DepositInsert, DepositClear
    <2>4. ASSUME NEW c \in Callers, AwaitSnapshot(c) \/ Relock(c) \/ DropFrame(c)
          PROVE  HookInv'
        BY <2>4 DEF AwaitSnapshot, CanHook, Relock, DropFrame, TypeOK
    <2>5. CASE Crash
        BY <2>5 DEF Crash
    <2> QED BY <2>2, <2>3, <2>4, <2>5 DEF Next
<1> QED BY <1>1, <1>2, TypeCorrect, PTL DEF Spec, HookInv

(* For any callers: a caller that waits for its mutex is the one the next      *)
(* deposit unlocks, however the callers interleave.  TrafficStorage.cpp:46-63. *)
THEOREM NobodyForgotten == Spec => []NoLostWakeup
BY HookCorrect, PTL

-----------------------------------------------------------------------------
(* Conservation of bytes. *)

(* What one step adds to the unhanded part of the map. *)
LEMMA LookupBuffer ==
    ASSUME TypeOK, NEW n \in Names
    PROVE  Part(Lookup(mApplicationTraffic, n), Names)
             = Part(mApplicationTraffic, Names)
<1>1. \A x \in Names : At(Lookup(mApplicationTraffic, n), x) = At(mApplicationTraffic, x)
    BY DEF Lookup, At
<1> QED BY <1>1 DEF Part

(* The lines of a batch are split between the accepted and the dropped ones.  *)
LEMMA PartSplit ==
    ASSUME NEW m, TrafficMap(m), NEW S, NEW n \in Names, NEW d \in Dir
    PROVE  Part(m, Names)[n][d] = Part(m, S)[n][d] + Part(m, Names \ S)[n][d]
<1>1. At(m, n)[d] \in Nat
    BY AtType DEF Line
<1> QED BY <1>1 DEF Part, ZeroLine

(* The empty map holds no bytes. *)
LEMMA EmptyBuffer == Part(EmptyMap, Names) = Zero
BY DEF Part, At, EmptyMap, Zero, ZeroLine

(* A step that leaves buffer and accounts alone keeps the balance. *)
LEMMA BalanceStutter ==
    ASSUME Conservation, UNCHANGED <<buffer, stored, history>>
    PROVE  Conservation'
BY DEF Conservation, InBuffer, buffer, history

(* Every byte given to add is in exactly one place: the buffer, the database, *)
(* or one of the three ways of being lost.                                    *)
THEOREM NothingDisappears == Spec => []Conservation
<1>1. Init => Conservation
    BY EmptyBuffer DEF Init, Conservation, InBuffer, Zero, ZeroLine
<1>2. TypeOK /\ TypeOK' /\ Conservation /\ [Next]_vars => Conservation'
    <2> SUFFICES ASSUME TypeOK, TypeOK', Conservation, [Next]_vars
                 PROVE  Conservation'
        OBVIOUS
    <2>0. InBuffer \in Accounts /\ InBuffer' \in Accounts
        BY PartType, EmptyType DEF TypeOK, InBuffer
    <2>1. CASE UNCHANGED <<buffer, stored, history>>
        BY <2>1, BalanceStutter
    <2>2. ASSUME NEW n \in Names, NEW d \in Dir, NEW k \in Lens, AddLookup(n, d, k)
          PROVE  Conservation'
        <3>1. InBuffer' = InBuffer
            BY <2>2, LookupBuffer DEF AddLookup, InBuffer
        <3> QED BY <2>2, <3>1 DEF AddLookup, Conservation, history
    <2>3. CASE AddUpdate
        <3> PICK r \in line : AddUpdate!(r)
            BY <2>3 DEF AddUpdate
        <3> DEFINE more(n, e) == IF n = r.name /\ e = r.dir THEN r.len ELSE 0
        <3>1. r.name \in Names /\ r.dir \in Dir /\ r.len \in Nat
              /\ r.node \in {"live", "freed"}
            BY LensAssumption DEF TypeOK, Ref
        <3>2. sniffed \in Accounts /\ stray \in Accounts /\ TrafficMap(mApplicationTraffic)
            BY DEF TypeOK
        <3>3. \A n \in Names, e \in Dir : sniffed'[n][e] = sniffed[n][e] + more(n, e)
            <4>1. sniffed' = Bump(sniffed, r.name, r.dir, r.len)
                OBVIOUS
            <4> QED BY ONLY <3>1, <3>2, <4>1, BumpAccount
        <3>4. \A n \in Names, e \in Dir :
                 InBuffer'[n][e] + stray'[n][e] = InBuffer[n][e] + stray[n][e] + more(n, e)
            <4> SUFFICES ASSUME NEW n \in Names, NEW e \in Dir
                         PROVE  InBuffer'[n][e] + stray'[n][e]
                                  = InBuffer[n][e] + stray[n][e] + more(n, e)
                OBVIOUS
            <4> HIDE DEF more
            <4>0. InBuffer[n][e] \in Nat /\ stray[n][e] \in Nat /\ more(n, e) \in Nat
                BY <2>0, <3>1, <3>2 DEF Accounts, Line, more
            <4>1. CASE r.node = "live"
                <5>1. InBuffer = Part(mApplicationTraffic, Names)
                      /\ InBuffer' = Part(mApplicationTraffic', Names)
                    BY DEF InBuffer, MutexFree
                <5>2. mApplicationTraffic' = Bump(mApplicationTraffic, r.name, r.dir, r.len)
                      /\ r.name \in DOMAIN mApplicationTraffic
                    BY <4>1 DEF TypeOK
                <5>3. At(mApplicationTraffic', n)[e]
                        = At(mApplicationTraffic, n)[e] + more(n, e)
                    BY ONLY <3>1, <3>2, <5>2, BumpMap, n \in Names, e \in Dir DEF more
                <5>4. InBuffer'[n][e] = InBuffer[n][e] + more(n, e)
                    BY <5>1, <5>3 DEF Part
                <5>5. stray' = stray
                    BY <4>1
                <5> QED BY <4>0, <5>4, <5>5
            <4>2. CASE r.node = "freed"
                <5>1. stray' = Bump(stray, r.name, r.dir, r.len)
                    BY <4>2
                <5>2. stray'[n][e] = stray[n][e] + more(n, e)
                    BY ONLY <3>1, <3>2, <5>1, BumpAccount, n \in Names, e \in Dir DEF more
                <5>3. InBuffer' = InBuffer
                    BY <4>2 DEF InBuffer
                <5> QED BY <4>0, <5>2, <5>3
            <4> QED BY <3>1, <4>1, <4>2
        <3>5. stored' = stored /\ refused' = refused /\ wiped' = wiped
            OBVIOUS
        <3> HIDE DEF more
        <3>6. ASSUME NEW n \in Names, NEW e \in Dir
              PROVE  sniffed'[n][e] = InBuffer'[n][e] + stored'[n][e] + refused'[n][e]
                                        + stray'[n][e] + wiped'[n][e]
            <4>1. sniffed[n][e] = InBuffer[n][e] + stored[n][e] + refused[n][e]
                                        + stray[n][e] + wiped[n][e]
                BY DEF Conservation
            <4>2. /\ InBuffer[n][e] \in Nat /\ InBuffer'[n][e] \in Nat
                  /\ stored[n][e] \in Nat /\ refused[n][e] \in Nat
                  /\ wiped[n][e] \in Nat
                  /\ stray[n][e] \in Nat /\ stray'[n][e] \in Nat
                  /\ more(n, e) \in Nat
                BY <2>0, <3>1 DEF TypeOK, Accounts, Line, more
            <4>3. sniffed'[n][e] = sniffed[n][e] + more(n, e)
                BY <3>3
            <4>4. InBuffer'[n][e] + stray'[n][e] = InBuffer[n][e] + stray[n][e] + more(n, e)
                BY <3>4
            <4>5. sniffed'[n][e] = InBuffer'[n][e] + stored[n][e] + refused[n][e]
                                     + stray'[n][e] + wiped[n][e]
                BY ONLY <4>1, <4>2, <4>3, <4>4
            <4> QED BY ONLY <3>5, <4>5
        <3> QED BY <3>6 DEF Conservation
    <2>4. CASE DepositWake
        BY <2>4 DEF DepositWake, Conservation, InBuffer, history
    <2>5. ASSUME NEW S \in SUBSET Names, DepositInsert(S) PROVE Conservation'
        <3> DEFINE m == mApplicationTraffic
        <3>1. InBuffer = Part(m, Names) /\ InBuffer' = Zero
            BY <2>5 DEF DepositInsert, InBuffer
        <3>2. Part(m, S) \in Accounts /\ Part(m, Names \ S) \in Accounts
            BY PartType DEF TypeOK
        <3>3. \A n \in Names, d \in Dir :
                 /\ stored'[n][d] = stored[n][d] + Part(m, S)[n][d]
                 /\ refused'[n][d] = refused[n][d] + Part(m, Names \ S)[n][d]
            BY <2>5, <3>2, PlusType DEF DepositInsert, TypeOK
        <3>4. \A n \in Names, d \in Dir :
                 Part(m, Names)[n][d] = Part(m, S)[n][d] + Part(m, Names \ S)[n][d]
            BY PartSplit DEF TypeOK
        <3>5. ASSUME NEW n \in Names, NEW d \in Dir
              PROVE  sniffed'[n][d] = Zero[n][d] + stored'[n][d] + refused'[n][d]
                                        + stray'[n][d] + wiped'[n][d]
            <4>1. sniffed[n][d] = Part(m, Names)[n][d] + stored[n][d] + refused[n][d]
                                        + stray[n][d] + wiped[n][d]
                BY <3>1 DEF Conservation
            <4>2. Part(m, S)[n][d] \in Nat /\ Part(m, Names \ S)[n][d] \in Nat
                BY <3>2 DEF Accounts, Line
            <4>3. /\ stored[n][d] \in Nat /\ refused[n][d] \in Nat
                  /\ stray[n][d] \in Nat /\ wiped[n][d] \in Nat
                BY DEF TypeOK, Accounts, Line
            <4>4. sniffed' = sniffed /\ stray' = stray /\ wiped' = wiped
                  /\ Zero[n][d] = 0
                BY <2>5 DEF DepositInsert, Zero, ZeroLine
            <4>5. stored'[n][d] = stored[n][d] + Part(m, S)[n][d]
                  /\ refused'[n][d] = refused[n][d] + Part(m, Names \ S)[n][d]
                  /\ Part(m, Names)[n][d] = Part(m, S)[n][d] + Part(m, Names \ S)[n][d]
                BY <3>3, <3>4
            <4> QED BY ONLY <4>1, <4>2, <4>3, <4>4, <4>5
        <3> QED BY <3>1, <3>5 DEF Conservation
    <2>6. CASE DepositNotify
        BY <2>6 DEF DepositNotify, Conservation, InBuffer, history
    <2>7. CASE DepositClear
        BY <2>7, EmptyBuffer DEF DepositClear, Cleared, Conservation, InBuffer, history
    <2>8. ASSUME NEW c \in Callers, AwaitSnapshot(c) \/ Relock(c) \/ DropFrame(c)
          PROVE  Conservation'
        BY <2>1, <2>8 DEF AwaitSnapshot, Relock, DropFrame
    <2>9. CASE Crash
        <3>1. InBuffer' = Zero
            BY <2>9, EmptyBuffer DEF Crash, InBuffer
        <3>2. \A n \in Names, d \in Dir : wiped'[n][d] = wiped[n][d] + InBuffer[n][d]
            BY <2>0, <2>9, PlusType DEF Crash, TypeOK
        <3> QED BY <2>0, <2>9, <3>1, <3>2
                DEF Crash, Conservation, TypeOK, Accounts, Line, Zero, ZeroLine
    <2> QED BY <2>1, <2>2, <2>3, <2>4, <2>5, <2>6, <2>7, <2>8, <2>9
            DEF Next, Add, Deposit, vars
<1> QED BY <1>1, <1>2, TypeCorrect, PTL DEF Spec

-----------------------------------------------------------------------------
(* A stream never runs ahead of the history. *)

(* What the map holds when the hook is served was handed over before. *)
HandedOver ==
    depositPC = "notify" =>
        \A n \in Names, d \in Dir :
            At(mApplicationTraffic, n)[d] <= stored[n][d] + refused[n][d]

StreamInv == StreamedIsDeposited /\ HandedOver

(* A caller reads only bytes that the deposit before has handed over: the     *)
(* map is copied after insertApplicationTraffic and before clear.             *)
THEOREM StreamBehind == Spec => []StreamedIsDeposited
<1>1. Init => StreamInv
    BY DEF Init, StreamInv, StreamedIsDeposited, HandedOver
<1>2. TypeOK /\ StreamInv /\ [Next]_vars => StreamInv'
    <2> SUFFICES ASSUME TypeOK, StreamInv, [Next]_vars PROVE StreamInv'
        OBVIOUS
    <2> DEFINE m == mApplicationTraffic
    <2>0. TrafficMap(m) /\ stored \in Accounts /\ refused \in Accounts
        BY DEF TypeOK
    <2> USE DEF StreamInv
    <2>1. CASE UNCHANGED vars
        BY <2>1 DEF vars, buffer, hook, history, StreamedIsDeposited, HandedOver
    <2>2. ASSUME NEW n \in Names, NEW d \in Dir, NEW k \in Lens, AddLookup(n, d, k)
          PROVE  StreamInv'
        <3>1. \A x \in Names : At(m', x) = At(m, x)
            BY <2>2 DEF AddLookup, Lookup, At
        <3> QED BY <2>2, <3>1 DEF AddLookup, hook, history, StreamedIsDeposited, HandedOver
    <2>3. CASE AddUpdate
        BY <2>3 DEF AddUpdate, MutexFree, hook, StreamedIsDeposited, HandedOver
    <2>4. CASE DepositWake
        BY <2>4 DEF DepositWake, hook, history, StreamedIsDeposited, HandedOver
    <2>5. ASSUME NEW S \in SUBSET Names, DepositInsert(S) PROVE StreamInv'
        <3>1. Part(m, S) \in Accounts /\ Part(m, Names \ S) \in Accounts
            BY <2>0, PartType
        <3>2. \A n \in Names, d \in Dir :
                 /\ stored'[n][d] = stored[n][d] + Part(m, S)[n][d]
                 /\ refused'[n][d] = refused[n][d] + Part(m, Names \ S)[n][d]
            BY <2>0, <2>5, <3>1, PlusType DEF DepositInsert
        <3>3. ASSUME NEW n \in Names, NEW d \in Dir
              PROVE  /\ stored[n][d] + refused[n][d] <= stored'[n][d] + refused'[n][d]
                     /\ At(m, n)[d] <= stored'[n][d] + refused'[n][d]
            <4>1. At(m, n)[d] = Part(m, S)[n][d] + Part(m, Names \ S)[n][d]
                BY <2>0, PartSplit DEF Part
            <4>2. /\ stored[n][d] \in Nat /\ refused[n][d] \in Nat
                  /\ Part(m, S)[n][d] \in Nat /\ Part(m, Names \ S)[n][d] \in Nat
                BY <2>0, <3>1 DEF Accounts, Line
            <4>3. /\ stored'[n][d] = stored[n][d] + Part(m, S)[n][d]
                  /\ refused'[n][d] = refused[n][d] + Part(m, Names \ S)[n][d]
                BY <3>2
            <4> QED BY ONLY <4>1, <4>2, <4>3
        <3>4. HandedOver'
            BY <2>5, <3>3 DEF DepositInsert, HandedOver
        <3>5. ASSUME NEW c \in Callers, await'[c] \in {"signalled", "relocked"},
                     NEW n \in Names, NEW d \in Dir
              PROVE  At(trafficMap'[c], n)[d] <= stored'[n][d] + refused'[n][d]
            <4>1. trafficMap' = trafficMap /\ await' = await
                BY <2>5 DEF DepositInsert, hook
            <4>2. At(trafficMap[c], n)[d] <= stored[n][d] + refused[n][d]
                BY <3>5, <4>1 DEF StreamedIsDeposited
            <4>3. /\ At(trafficMap[c], n)[d] \in Nat
                  /\ stored[n][d] + refused[n][d] \in Nat
                  /\ stored'[n][d] + refused'[n][d] \in Nat
                <5>1. At(trafficMap[c], n) \in Line
                    BY AtType DEF TypeOK
                <5>2. stored' \in Accounts /\ refused' \in Accounts
                    BY <2>0, <2>5, <3>1, PlusType DEF DepositInsert
                <5> QED BY <2>0, <5>1, <5>2 DEF Accounts, Line
            <4>4. stored[n][d] + refused[n][d] <= stored'[n][d] + refused'[n][d]
                BY <3>3
            <4> QED BY ONLY <4>1, <4>2, <4>3, <4>4
        <3> QED BY <3>4, <3>5 DEF StreamedIsDeposited
    <2>6. CASE DepositNotify
        <3>1. \A w \in Walks(m), n \in Names, d \in Dir :
                 At(w, n)[d] <= stored[n][d] + refused[n][d]
            <4> SUFFICES ASSUME NEW w \in Walks(m), NEW n \in Names, NEW d \in Dir
                         PROVE  At(w, n)[d] <= stored[n][d] + refused[n][d]
                OBVIOUS
            <4>1. At(m, n)[d] <= stored[n][d] + refused[n][d]
                BY <2>6 DEF DepositNotify, HandedOver
            <4>2. TrafficMap(w) /\ At(w, n)[d] <= At(m, n)[d]
                BY <2>0, WalksType
            <4>3. At(w, n)[d] \in Nat /\ At(m, n)[d] \in Nat
                  /\ stored[n][d] + refused[n][d] \in Nat
                BY <2>0, <4>2, AtType DEF Line, Accounts
            <4> QED BY <4>1, <4>2, <4>3
        <3>2. StreamedIsDeposited'
            BY <2>6, <3>1 DEF DepositNotify, Unlock, history, TypeOK, StreamedIsDeposited
        <3> QED BY <2>6, <3>2 DEF DepositNotify, HandedOver
    <2>7. CASE DepositClear
        BY <2>7 DEF DepositClear, hook, history, StreamedIsDeposited, HandedOver
    <2>8. ASSUME NEW c \in Callers, AwaitSnapshot(c) \/ Relock(c) \/ DropFrame(c)
          PROVE  StreamInv'
        BY <2>8 DEF AwaitSnapshot, Relock, DropFrame, buffer, history, TypeOK,
                    StreamedIsDeposited, HandedOver
    <2>9. CASE Crash
        BY <2>9 DEF Crash, StreamedIsDeposited, HandedOver
    <2> QED BY <2>1, <2>2, <2>3, <2>4, <2>5, <2>6, <2>7, <2>8, <2>9
            DEF Next, Add, Deposit
<1> QED BY <1>1, <1>2, TypeCorrect, PTL DEF Spec, StreamInv

-----------------------------------------------------------------------------
(* The storage implements the ledger. *)

Loss == Plus(refused, Plus(stray, wiped))

(* Accounts that agree on every counter are the same. *)
LEMMA SameAccounts ==
    ASSUME NEW f \in Accounts, NEW g \in Accounts,
           \A n \in Names, d \in Dir : f[n][d] = g[n][d]
    PROVE  f = g
<1>1. ASSUME NEW n \in Names PROVE f[n] = g[n]
    <2>1. f[n] \in [Dir -> Nat] /\ g[n] \in [Dir -> Nat]
        BY DEF Accounts, Line
    <2> QED BY <2>1
<1> QED BY <1>1 DEF Accounts

(* What is lost is the sum of the three ways of losing it. *)
LEMMA LossType ==
    ASSUME TypeOK
    PROVE  /\ Loss \in Accounts
           /\ \A n \in Names, d \in Dir :
                Loss[n][d] = refused[n][d] + (stray[n][d] + wiped[n][d])
<1>1. /\ Plus(stray, wiped) \in Accounts
      /\ \A n \in Names, d \in Dir : Plus(stray, wiped)[n][d] = stray[n][d] + wiped[n][d]
    BY PlusType DEF TypeOK
<1> QED BY <1>1, PlusType DEF TypeOK, Loss

LEMMA LossTypeNext == TypeOK' => /\ Loss' \in Accounts
                                /\ \A n \in Names, d \in Dir :
                                     Loss'[n][d] = refused'[n][d] + (stray'[n][d] + wiped'[n][d])
<1> SUFFICES ASSUME TypeOK' PROVE /\ Loss' \in Accounts
                                /\ \A n \in Names, d \in Dir :
                                     Loss'[n][d] = refused'[n][d] + (stray'[n][d] + wiped'[n][d])
    OBVIOUS
<1>1. /\ Plus(stray', wiped') \in Accounts
      /\ \A n \in Names, d \in Dir : Plus(stray', wiped')[n][d] = stray'[n][d] + wiped'[n][d]
    BY PlusType DEF TypeOK
<1>2. Loss' = Plus(refused', Plus(stray', wiped'))
    BY DEF Loss
<1>3. refused' \in Accounts
    BY DEF TypeOK
<1>4. /\ Plus(refused', Plus(stray', wiped')) \in Accounts
      /\ \A n \in Names, d \in Dir : Plus(refused', Plus(stray', wiped'))[n][d]
                                        = refused'[n][d] + Plus(stray', wiped')[n][d]
    BY <1>1, <1>3, PlusType
<1> QED BY <1>1, <1>2, <1>4

(* The second half of add counts the packet, or loses it. *)
LEMMA AddRefines ==
    ASSUME TypeOK, TypeOK', AddUpdate
    PROVE  Ledger!LedgerNext
<1> PICK r \in line : AddUpdate!(r)
    BY DEF AddUpdate
<1>1. r.name \in Names /\ r.dir \in Dir /\ r.len \in Lens /\ r.len \in Nat
      /\ r.node \in {"live", "freed"}
    BY LensAssumption DEF TypeOK, Ref
<1>2. InBuffer \in Accounts /\ InBuffer' \in Accounts /\ TrafficMap(mApplicationTraffic)
      /\ stray \in Accounts
    BY PartType, EmptyType DEF TypeOK, InBuffer
<1>3. stored' = stored /\ refused' = refused /\ wiped' = wiped
    OBVIOUS
<1>4. CASE r.node = "live"
    <2> DEFINE b == Bump(InBuffer, r.name, r.dir, r.len)
    <2>1. /\ b \in Accounts
          /\ \A n \in Names, e \in Dir :
               b[n][e] = InBuffer[n][e] + IF n = r.name /\ e = r.dir THEN r.len ELSE 0
        <3>1. InBuffer \in Accounts
            BY <1>2
        <3> QED BY ONLY <1>1, <3>1, BumpAccount
    <2>2. /\ InBuffer = Part(mApplicationTraffic, Names)
          /\ InBuffer' = Part(mApplicationTraffic', Names)
        BY DEF InBuffer, MutexFree
    <2>3. mApplicationTraffic' = Bump(mApplicationTraffic, r.name, r.dir, r.len)
          /\ r.name \in DOMAIN mApplicationTraffic
        BY <1>4 DEF TypeOK
    <2>4. \A n \in Names, e \in Dir : At(mApplicationTraffic', n)[e]
            = At(mApplicationTraffic, n)[e] + IF n = r.name /\ e = r.dir THEN r.len ELSE 0
        BY ONLY <1>1, <1>2, <2>3, BumpMap
    <2>5. \A n \in Names, e \in Dir : InBuffer'[n][e] = b[n][e]
        <3> HIDE DEF b
        <3> QED BY <2>1, <2>2, <2>4 DEF Part
    <2>6. InBuffer' = b
        <3> HIDE DEF b
        <3> QED BY <1>2, <2>1, <2>5, SameAccounts
    <2>7. stray' = stray
        BY <1>4
    <2>8. Ledger!Count(r.name, r.dir, r.len)
        BY <1>3, <2>6, <2>7 DEF Ledger!Count, Bump
    <2> QED BY <1>1, <2>8 DEF Ledger!LedgerNext
<1>5. CASE r.node = "freed"
    <2> DEFINE l == Bump(Loss, r.name, r.dir, r.len)
               more(n, e) == IF n = r.name /\ e = r.dir THEN r.len ELSE 0
    <2>1. /\ Loss \in Accounts /\ l \in Accounts
          /\ \A n \in Names, e \in Dir : l[n][e] = Loss[n][e] + more(n, e)
        BY <1>1, LossType, BumpAccount
    <2>2. InBuffer' = InBuffer
        BY <1>5 DEF InBuffer
    <2>3. \A n \in Names, e \in Dir : stray'[n][e] = stray[n][e] + more(n, e)
        <3>1. stray' = Bump(stray, r.name, r.dir, r.len)
            BY <1>5
        <3>2. stray \in Accounts
            BY <1>2
        <3> QED BY ONLY <1>1, <3>1, <3>2, BumpAccount
    <2>4. ASSUME NEW n \in Names, NEW e \in Dir PROVE Loss'[n][e] = l[n][e]
        <3>1. /\ refused[n][e] \in Nat /\ stray[n][e] \in Nat /\ wiped[n][e] \in Nat
              /\ more(n, e) \in Nat
            BY <1>1 DEF TypeOK, Accounts, Line
        <3>2. Loss[n][e] = refused[n][e] + (stray[n][e] + wiped[n][e])
            BY LossType
        <3>3. Loss'[n][e] = refused[n][e] + (stray'[n][e] + wiped[n][e])
            BY LossTypeNext, <1>3
        <3>4. l[n][e] = Loss[n][e] + more(n, e) /\ stray'[n][e] = stray[n][e] + more(n, e)
            BY <2>1, <2>3
        <3> QED BY ONLY <3>1, <3>2, <3>3, <3>4
    <2>5. Loss' = l
        <3> HIDE DEF l
        <3> QED BY <2>1, <2>4, LossTypeNext, SameAccounts
    <2>6. Ledger!Miss(r.name, r.dir, r.len)
        BY <1>3, <2>2, <2>5 DEF Ledger!Miss, Bump, Loss
    <2> QED BY <1>1, <2>6 DEF Ledger!LedgerNext
<1> QED BY <1>1, <1>4, <1>5

(* A deposit, or the end of the process, empties the buffer all at once: the   *)
(* lines of S become history and the others are lost.                          *)
LEMMA FlushRefines ==
    ASSUME TypeOK, TypeOK', NEW S \in SUBSET Names, InBuffer' = Zero,
           \A n \in Names, d \in Dir :
              /\ stored'[n][d] = stored[n][d] + IF n \in S THEN InBuffer[n][d] ELSE 0
              /\ Loss'[n][d] = Loss[n][d] + IF n \in S THEN 0 ELSE InBuffer[n][d]
    PROVE  Ledger!LedgerNext
<1> DEFINE s == [n \in Names |-> [d \in Dir |->
                   stored[n][d] + IF n \in S THEN InBuffer[n][d] ELSE 0]]
           l == [n \in Names |-> [d \in Dir |->
                   Loss[n][d] + IF n \in S THEN 0 ELSE InBuffer[n][d]]]
<1>1. /\ InBuffer \in Accounts /\ stored \in Accounts /\ stored' \in Accounts
      /\ Loss \in Accounts /\ Loss' \in Accounts
    BY InBufferType, LossType, LossTypeNext DEF TypeOK
<1>2. s \in Accounts /\ \A n \in Names, d \in Dir : stored'[n][d] = s[n][d]
    BY <1>1 DEF Accounts, Line
<1>3. l \in Accounts /\ \A n \in Names, d \in Dir : Loss'[n][d] = l[n][d]
    BY <1>1 DEF Accounts, Line
<1> HIDE DEF s, l
<1>4. stored' = s /\ Loss' = l
    BY <1>1, <1>2, <1>3, SameAccounts
<1>5. Ledger!Flush(S)
    BY <1>4 DEF Ledger!Flush, Ledger!Zero, Zero, ZeroLine, s, l, Loss
<1> QED BY <1>5 DEF Ledger!LedgerNext

(* For any names, lengths and callers the storage implements the ledger: bytes *)
(* enter the buffer one packet at a time and leave it only all together, in a  *)
(* deposit or at the end of the process.  TrafficStorage.cpp:22-105.           *)
THEOREM ImplementsLedger == Spec => KeepsLedger
<1>1. Init => Ledger!LedgerInit
    <2> SUFFICES ASSUME Init PROVE Ledger!LedgerInit
        OBVIOUS
    <2>1. TypeOK
        BY TypeInit
    <2>2. InBuffer = Zero
        BY EmptyBuffer DEF Init, InBuffer
    <2>3. Loss = Zero
        <3>1. \A n \in Names, d \in Dir : Loss[n][d] = Zero[n][d]
            BY <2>1, LossType DEF Init, Zero, ZeroLine
        <3> QED BY <2>1, <3>1, LossType, EmptyType, SameAccounts
    <2>4. stored = Zero
        BY DEF Init
    <2> QED BY <2>2, <2>3, <2>4 DEF Ledger!LedgerInit, Ledger!Zero, Zero, ZeroLine, Loss
<1>2. ASSUME TypeOK, TypeOK', [Next]_vars
      PROVE  [Ledger!LedgerNext]_(Ledger!ledger)
    <2>1. ASSUME InBuffer' = InBuffer, stored' = stored, UNCHANGED <<refused, stray, wiped>>
          PROVE  UNCHANGED Ledger!ledger
        BY <2>1 DEF Ledger!ledger
    <2>2. ASSUME NEW n \in Names, NEW d \in Dir, NEW k \in Lens, AddLookup(n, d, k)
          PROVE  UNCHANGED Ledger!ledger
        <3>1. InBuffer' = InBuffer
            BY <1>2, <2>2, LookupBuffer DEF AddLookup, InBuffer
        <3> QED BY <2>1, <2>2, <3>1 DEF AddLookup, history
    <2>3. CASE AddUpdate
        BY <1>2, <2>3, AddRefines
    <2>4. CASE DepositWake \/ DepositNotify
        <3>1. InBuffer' = InBuffer
            BY <2>4 DEF DepositWake, DepositNotify, InBuffer
        <3> QED BY <2>1, <2>4, <3>1 DEF DepositWake, DepositNotify, history
    <2>5. ASSUME NEW S \in SUBSET Names, DepositInsert(S) PROVE Ledger!LedgerNext
        <3> DEFINE m == mApplicationTraffic
        <3>1. InBuffer = Part(m, Names) /\ InBuffer' = Zero
            BY <2>5 DEF DepositInsert, InBuffer
        <3>2. /\ Part(m, S) \in Accounts /\ Part(m, Names \ S) \in Accounts
              /\ InBuffer \in Accounts
            BY <1>2, PartType, InBufferType DEF TypeOK
        <3>3. \A n \in Names, d \in Dir :
                 /\ stored'[n][d] = stored[n][d] + Part(m, S)[n][d]
                 /\ refused'[n][d] = refused[n][d] + Part(m, Names \ S)[n][d]
            BY <1>2, <2>5, <3>2, PlusType DEF DepositInsert, TypeOK
        <3>4. \A n \in Names, d \in Dir :
                 /\ Part(m, S)[n][d] = IF n \in S THEN InBuffer[n][d] ELSE 0
                 /\ Part(m, Names \ S)[n][d] = IF n \in S THEN 0 ELSE InBuffer[n][d]
            BY <3>1 DEF Part, ZeroLine
        <3>5. ASSUME NEW n \in Names, NEW d \in Dir
              PROVE  Loss'[n][d] = Loss[n][d] + IF n \in S THEN 0 ELSE InBuffer[n][d]
            <4>1. Loss[n][d] = refused[n][d] + (stray[n][d] + wiped[n][d])
                BY <1>2, LossType
            <4>2. Loss'[n][d] = refused'[n][d] + (stray'[n][d] + wiped'[n][d])
                BY <1>2, LossTypeNext
            <4>3. stray' = stray /\ wiped' = wiped
                BY <2>5 DEF DepositInsert
            <4>4. /\ refused[n][d] \in Nat /\ stray[n][d] \in Nat /\ wiped[n][d] \in Nat
                  /\ Part(m, Names \ S)[n][d] \in Nat
                <5>1. refused \in Accounts /\ stray \in Accounts /\ wiped \in Accounts
                    BY <1>2 DEF TypeOK
                <5> HIDE DEF m
                <5> QED BY ONLY <3>2, <5>1, n \in Names, d \in Dir DEF Accounts, Line
            <4>5. refused'[n][d] = refused[n][d] + Part(m, Names \ S)[n][d]
                BY <3>3
            <4>6. Loss'[n][d] = Loss[n][d] + Part(m, Names \ S)[n][d]
                BY ONLY <4>1, <4>2, <4>3, <4>4, <4>5
            <4> QED BY <3>4, <4>6
        <3> QED BY <1>2, <3>1, <3>3, <3>4, <3>5, FlushRefines
    <2>6. CASE DepositClear
        <3>1. InBuffer' = InBuffer
            BY <2>6, EmptyBuffer DEF DepositClear, Cleared, InBuffer
        <3> QED BY <2>1, <2>6, <3>1 DEF DepositClear, history
    <2>7. CASE Crash
        <3>1. InBuffer' = Zero /\ InBuffer \in Accounts
            BY <1>2, <2>7, EmptyBuffer, InBufferType DEF Crash, InBuffer
        <3>2. \A n \in Names, d \in Dir : wiped'[n][d] = wiped[n][d] + InBuffer[n][d]
            BY <1>2, <2>7, <3>1, PlusType DEF Crash, TypeOK
        <3>3. ASSUME NEW n \in Names, NEW d \in Dir
              PROVE  /\ stored'[n][d] = stored[n][d] + 0
                     /\ Loss'[n][d] = Loss[n][d] + InBuffer[n][d]
            <4>1. Loss[n][d] = refused[n][d] + (stray[n][d] + wiped[n][d])
                BY <1>2, LossType
            <4>2. Loss'[n][d] = refused'[n][d] + (stray'[n][d] + wiped'[n][d])
                BY <1>2, LossTypeNext
            <4>3. stray' = stray /\ refused' = refused /\ stored' = stored
                BY <2>7 DEF Crash
            <4>4. /\ refused[n][d] \in Nat /\ stray[n][d] \in Nat /\ wiped[n][d] \in Nat
                  /\ InBuffer[n][d] \in Nat /\ stored[n][d] \in Nat
                BY <1>2, <3>1 DEF TypeOK, Accounts, Line
            <4>5. wiped'[n][d] = wiped[n][d] + InBuffer[n][d]
                BY <3>2
            <4> QED BY ONLY <4>1, <4>2, <4>3, <4>4, <4>5
        <3>4. \A n \in Names, d \in Dir :
                 /\ stored'[n][d] = stored[n][d] + IF n \in {} THEN InBuffer[n][d] ELSE 0
                 /\ Loss'[n][d] = Loss[n][d] + IF n \in {} THEN 0 ELSE InBuffer[n][d]
            BY <3>3
        <3>5. {} \in SUBSET Names
            OBVIOUS
        <3> QED BY <1>2, <3>1, <3>4, <3>5, FlushRefines
    <2>8. ASSUME NEW c \in Callers, AwaitSnapshot(c) \/ Relock(c) \/ DropFrame(c)
          PROVE  UNCHANGED Ledger!ledger
        <3>1. UNCHANGED <<buffer, stored, history>>
            BY <2>8 DEF AwaitSnapshot, Relock, DropFrame
        <3>2. InBuffer' = InBuffer
            BY <3>1 DEF InBuffer, buffer
        <3> QED BY <2>1, <3>1, <3>2 DEF history
    <2>9. CASE UNCHANGED vars
        <3>1. InBuffer' = InBuffer
            BY <2>9 DEF InBuffer, buffer, vars
        <3> QED BY <2>1, <2>9, <3>1 DEF vars, history
    <2> QED BY <1>2, <2>2, <2>3, <2>4, <2>5, <2>6, <2>7, <2>8, <2>9 DEF Next, Add, Deposit
<1> QED BY <1>1, <1>2, TypeCorrect, PTL DEF Spec, KeepsLedger, Ledger!LedgerSpec

=============================================================================
