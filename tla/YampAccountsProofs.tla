------------------------- MODULE YampAccountsProofs -------------------------
(***************************************************************************)
(* Proofs about YampAccounts, for every number of slots, accounts, tokens  *)
(* and seconds, and before them those about YampRateLimit, for every limit *)
(* and pause.  That the steps of the one are steps of the other brings     *)
(* over what is proved of the limits; the tables need an invariant of      *)
(* their own.                                                              *)
(***************************************************************************)
EXTENDS YampAccounts, TLAPS

-----------------------------------------------------------------------------
(* The limits.                                                             *)

\* The counter never leaves -1 and 0, whatever the pace of the requests, the
\* ticks between the calls of time(NULL) and the connections that share the
\* slot: what a request adds it takes off again when it is let through.
CounterStaysFlat == \A s \in Slots : ratelimited[s] \in {-1, 0}

IInv == TypeOK /\ CounterStaysFlat

\* One request adds at most one to the counter and takes it off again.
LEMMA LoadIsSmall ==
    ASSUME IInv, NEW s \in Slots,
           NEW t1 \in Seconds, NEW t2 \in Seconds, NEW t3 \in Seconds,
           t1 <= t2, t2 <= t3
    PROVE  Load(s, t1, t2, t3) \in {0, 1}
<1> USE TimesAssumption DEF TimesAssumption, Seconds, IInv
<1>1. now \in Nat /\ t1 \in Nat /\ t2 \in Nat /\ t3 \in Nat /\ now <= t1
  BY DEF TypeOK
<1>2. LastEndpoint[s] \in Nat /\ LastEndpoint[s] <= t1
  BY <1>1 DEF TypeOK
<1>3. ratelimited[s] \in {-1, 0}
  BY DEF CounterStaysFlat
<1>4. CASE t1 - LastEndpoint[s] < 1
  BY <1>1, <1>2, <1>3, <1>4 DEF Load
<1>5. CASE ~(t1 - LastEndpoint[s] < 1)
  BY <1>1, <1>2, <1>3, <1>5 DEF Load
<1>. QED
  BY <1>4, <1>5

LEMMA InitIInv == Init => IInv
  BY LimitsAssumption, TimesAssumption
     DEF Init, IInv, TypeOK, CounterStaysFlat, LimitsAssumption,
         TimesAssumption

LEMMA PreambleIInv ==
    ASSUME IInv, NEW s \in Slots,
           NEW t1 \in Seconds, NEW t2 \in Seconds, NEW t3 \in Seconds,
           NEW t \in Seconds, t1 <= t2, t2 <= t3, t3 <= t,
           Preamble(s, t1, t2, t3, t),
           LastRegistration' \in [Slots -> 0 .. now']
    PROVE  IInv'
<1> USE LimitsAssumption, TimesAssumption
    DEF LimitsAssumption, TimesAssumption, Seconds, IInv
<1> DEFINE load == Load(s, t1, t2, t3)
<1>1. /\ now \in Nat /\ t3 \in Nat /\ t \in Nat /\ now <= t /\ t <= MaxTime
      /\ Epoch <= t
  BY DEF TypeOK
<1>2. load \in {0, 1}
  BY LoadIsSmall
<1>3. Account(load) \in {-1, 0}
  BY <1>2 DEF Account
<1>4. /\ now' = t /\ connected' = connected
      /\ ratelimited' = [ratelimited EXCEPT ![s] = Account(load)]
      /\ LastEndpoint' = [LastEndpoint EXCEPT ![s] = t3]
  BY DEF Preamble, Stamp
<1>5. LastEndpoint' \in [Slots -> 0 .. now']
  BY <1>1, <1>4 DEF TypeOK
<1>6. ratelimited' \in [Slots -> Int]
  BY <1>3, <1>4 DEF TypeOK
<1>7. TypeOK'
  BY <1>1, <1>4, <1>5, <1>6 DEF TypeOK
<1>8. CounterStaysFlat'
  BY <1>3, <1>4 DEF CounterStaysFlat, TypeOK
<1>. QED
  BY <1>7, <1>8

LEMMA NextIInv == IInv /\ [Next]_vars => IInv'
<1> SUFFICES ASSUME IInv, [Next]_vars PROVE IInv'
  OBVIOUS
<1> USE LimitsAssumption, TimesAssumption
    DEF LimitsAssumption, TimesAssumption, IInv
<1>1. CASE Tick
  BY <1>1 DEF Tick, TypeOK, CounterStaysFlat
<1>2. ASSUME NEW s \in Slots, Connect(s) PROVE IInv'
  BY <1>2 DEF Connect, TypeOK, CounterStaysFlat
<1>3. ASSUME NEW s \in Slots, Disconnect(s) PROVE IInv'
  BY <1>3 DEF Disconnect, TypeOK, CounterStaysFlat
<1>4. ASSUME NEW s \in Slots, Request(s) PROVE IInv'
  <2>1. PICK t1 \in Seconds, t2 \in Seconds, t3 \in Seconds, t \in Seconds :
            /\ t1 <= t2 /\ t2 <= t3 /\ t3 <= t
            /\ Preamble(s, t1, t2, t3, t)
            /\ UNCHANGED LastRegistration
    BY <1>4 DEF Request
  <2>2. now' = t /\ now \in Nat /\ t \in Nat /\ now <= t
    BY <2>1 DEF Preamble, TypeOK, Seconds
  <2>3. LastRegistration' \in [Slots -> 0 .. now']
    BY <2>1, <2>2 DEF TypeOK
  <2>. QED
    BY <2>1, <2>3, PreambleIInv
<1>5. ASSUME NEW s \in Slots, Register(s) PROVE IInv'
  <2>1. PICK t1 \in Seconds, t2 \in Seconds, t3 \in Seconds,
             t4 \in Seconds, t5 \in Seconds :
            /\ t1 <= t2 /\ t2 <= t3 /\ t3 <= t4 /\ t4 <= t5
            /\ Preamble(s, t1, t2, t3, t5)
            /\ LastRegistration' = [LastRegistration EXCEPT ![s] = t5]
    BY <1>5 DEF Register
  <2>2. /\ now' = t5 /\ now \in Nat /\ now <= t5
        /\ t3 \in Nat /\ t4 \in Nat /\ t5 \in Nat /\ t3 <= t5
    BY <2>1 DEF Preamble, TypeOK, Seconds
  <2>3. LastRegistration' \in [Slots -> 0 .. now']
    BY <2>1, <2>2 DEF TypeOK
  <2>. QED
    BY <2>1, <2>2, <2>3, PreambleIInv
<1>6. CASE UNCHANGED vars
  BY <1>6 DEF vars, TypeOK, CounterStaysFlat
<1>. QED
  BY <1>1, <1>2, <1>3, <1>4, <1>5, <1>6 DEF Next

\* The variables keep their types and the counter stays flat.
THEOREM RateLimitInvariant == Spec => []IInv
  BY InitIInv, NextIInv, PTL DEF Spec

\* No request that could come next would be over the limit.
LimiterIsIdle ==
    \A s \in Slots : \A t1, t2, t3 \in Seconds :
        t1 <= t2 /\ t2 <= t3 => Load(s, t1, t2, t3) <= BURST

\* A defect of the code, stated as what the code does: error 5, "Ratelimited",
\* is there to refuse a burst of requests, and no burst, however long and for
\* whatever limit, ever gets it.  The preamble of ProcessRequest takes each
\* request off the counter again as it lets it through.
THEOREM LimiterNeverFires == Spec => []LimiterIsIdle
<1>1. IInv => LimiterIsIdle
  <2> SUFFICES ASSUME IInv, NEW s \in Slots,
                      NEW t1 \in Seconds, NEW t2 \in Seconds, NEW t3 \in Seconds,
                      t1 <= t2, t2 <= t3
               PROVE  Load(s, t1, t2, t3) <= BURST
    BY DEF LimiterIsIdle
  <2>1. Load(s, t1, t2, t3) \in {0, 1}
    BY LoadIsSmall
  <2>. QED
    BY <2>1, LimitsAssumption DEF LimitsAssumption
<1>. QED
  BY <1>1, RateLimitInvariant, PTL

\* Successful registrations through a slot keep their distance, across ticks
\* within the handler and changes of the connection.
THEOREM RegistrationsKeepDistance == Spec => RegistrationsAreSpaced
<1>1. IInv /\ [Next]_vars =>
          [\A s \in Slots : LastRegistration'[s] # LastRegistration[s] =>
               LastRegistration'[s] - LastRegistration[s] >= REGISTER_WAIT]_vars
  <2> SUFFICES ASSUME IInv, [Next]_vars, NEW s \in Slots,
                      LastRegistration'[s] # LastRegistration[s]
               PROVE  LastRegistration'[s] - LastRegistration[s] >= REGISTER_WAIT
    OBVIOUS
  <2>1. PICK r \in Slots : Register(r)
    BY DEF Next, Tick, Connect, Disconnect, Request, vars
  <2>2. PICK t4 \in Seconds, t5 \in Seconds :
            /\ t4 <= t5
            /\ MayRegister(r, t4)
            /\ LastRegistration' = [LastRegistration EXCEPT ![r] = t5]
    BY <2>1 DEF Register
  <2>3. r = s /\ LastRegistration'[s] = t5 /\ LastRegistration[s] \in Int
    BY <2>2 DEF IInv, TypeOK
  <2>4. t4 \in Int /\ t5 \in Int
    BY DEF Seconds
  <2>. QED
    BY <2>2, <2>3, <2>4, LimitsAssumption DEF MayRegister, LimitsAssumption
<1>. QED
  BY <1>1, RateLimitInvariant, PTL DEF Spec, RegistrationsAreSpaced
-----------------------------------------------------------------------------
(* The accounts.                                                           *)

Accounts == [name : Names, cred : Creds, slot : Slots, at : Nat]

\* The type invariant of the tables.
TablesOK ==
    /\ users \in Seq(Accounts)
    /\ held \in Seq(Creds)
    /\ sessions \subseteq [token : 1 .. Len(held), id : 1 .. Len(users)]
    /\ half \subseteq 1 .. Len(users)

\* A slot remembers the last of the accounts that were made through it, but for
\* those without a session.
Remembered ==
    \A i \in DOMAIN users \ half :
        users[i].at <= LastRegistration[users[i].slot]

AInv == IInv /\ TablesOK /\ TokensWork /\ Remembered /\ AccountsAreSpaced

-----------------------------------------------------------------------------
(* The steps, as steps of YampRateLimit.                                   *)

LEMMA StepsAreLimited == [AccountsNext]_accountsVars => [Next]_vars
  BY DEF AccountsNext, accountsVars, Next, register, RegisterHalf, login,
         OtherRequest

\* Registering and logging in are requests of the rate limits: the accounts
\* specification implements that of the limits.
THEOREM AccountsKeepLimits == AccountsSpec => Spec
  BY StepsAreLimited, PTL DEF AccountsSpec, AccountsInit, Spec

\* What a step leaves behind in now and LastRegistration.
LEMMA RequestTimes ==
    ASSUME IInv, NEW s \in Slots, Request(s)
    PROVE  now' \in Nat /\ UNCHANGED LastRegistration
<1>1. PICK t \in Seconds : now' = t
  BY DEF Request, Preamble
<1>2. now \in Nat
  BY TimesAssumption DEF IInv, TypeOK, TimesAssumption
<1>. QED
  BY <1>1, <1>2 DEF Request, Seconds

LEMMA RegisterTimes ==
    ASSUME IInv, NEW s \in Slots, Register(s)
    PROVE  /\ now' \in Nat
           /\ LastRegistration' = [LastRegistration EXCEPT ![s] = now']
           /\ now' - LastRegistration[s] >= REGISTER_WAIT
<1>1. PICK t4 \in Seconds, t5 \in Seconds :
          /\ t4 <= t5 /\ MayRegister(s, t4) /\ now' = t5
          /\ LastRegistration' = [LastRegistration EXCEPT ![s] = t5]
  BY DEF Register, Preamble
<1>2. now \in Nat /\ LastRegistration[s] \in Nat
  BY TimesAssumption DEF IInv, TypeOK, TimesAssumption
<1>3. t4 \in Nat /\ t5 \in Nat
  BY <1>2 DEF Seconds
<1>. QED
  BY <1>1, <1>2, <1>3, LimitsAssumption DEF MayRegister, LimitsAssumption

\* A half registration was let through by the test of the pause.
LEMMA HalfTimes ==
    ASSUME IInv, NEW s \in Slots, Request(s), PausePassed(s)
    PROVE  now' - LastRegistration[s] >= REGISTER_WAIT
<1>1. PICK t3 \in Seconds : LastEndpoint' = [LastEndpoint EXCEPT ![s] = t3]
  BY DEF Request, Preamble, Stamp
<1>2. now \in Nat /\ LastRegistration[s] \in Nat /\ LastEndpoint'[s] = t3
  BY <1>1, TimesAssumption DEF IInv, TypeOK, TimesAssumption
<1>3. now' \in Nat /\ t3 \in Nat
  BY <1>2, RequestTimes DEF Seconds
<1>4. PICK t4 \in LastEndpoint'[s] .. now' : MayRegister(s, t4)
  BY DEF PausePassed
<1>. QED
  BY <1>2, <1>3, <1>4, LimitsAssumption DEF MayRegister, LimitsAssumption

-----------------------------------------------------------------------------
(* The tables.                                                             *)

\* The row of an account.
LEMMA RowTypes ==
    ASSUME AInv, NEW i \in DOMAIN users
    PROVE  /\ i \in 1 .. Len(users)
           /\ users[i].slot \in Slots
           /\ users[i].at \in Nat
           /\ users[i].cred \in Creds
<1>1. users \in Seq(Accounts)
  BY DEF AInv, TablesOK
<1>2. i \in 1 .. Len(users) /\ users[i] \in Accounts
  BY <1>1
<1>. QED
  BY <1>2 DEF Accounts

LEMMA StampTypes == AInv => LastRegistration \in [Slots -> Int]
<1> SUFFICES ASSUME AInv PROVE LastRegistration \in [Slots -> Int]
  OBVIOUS
<1>1. now \in Nat /\ LastRegistration \in [Slots -> 0 .. now]
  BY TimesAssumption DEF AInv, IInv, TypeOK, TimesAssumption
<1>. QED
  BY <1>1

\* A new row, made at a time that the pause allows.
LEMMA InsertKeepsDistance ==
    ASSUME AInv, NEW s \in Slots, NEW n \in Names, NEW c \in Creds,
           InsertUser(s, n, c), now' \in Nat,
           now' - LastRegistration[s] >= REGISTER_WAIT,
           half \subseteq half'
    PROVE  /\ users' \in Seq(Accounts)
           /\ Len(users') = Len(users) + 1
           /\ \A i \in 1 .. Len(users) : users'[i] = users[i]
           /\ users'[Len(users')] =
                  [name |-> n, cred |-> c, slot |-> s, at |-> now']
           /\ AccountsAreSpaced'
<1> DEFINE row == [name |-> n, cred |-> c, slot |-> s, at |-> now']
<1>1. users \in Seq(Accounts) /\ row \in Accounts /\ users' = Append(users, row)
  BY DEF AInv, TablesOK, Accounts, InsertUser
<1>2. /\ users' \in Seq(Accounts)
      /\ Len(users') = Len(users) + 1
      /\ \A i \in 1 .. Len(users) : users'[i] = users[i]
      /\ users'[Len(users')] = row
  BY <1>1
<1>3. AccountsAreSpaced'
  <2> SUFFICES ASSUME NEW i \in DOMAIN users', NEW j \in DOMAIN users',
                      i < j, i \notin half', users'[i].slot = users'[j].slot
               PROVE  users'[j].at - users'[i].at >= REGISTER_WAIT
    BY DEF AccountsAreSpaced
  <2>1. i \in 1 .. Len(users) /\ i \in DOMAIN users /\ i \notin half
    BY <1>1, <1>2
  <2>2. CASE j \in 1 .. Len(users)
    BY <1>1, <1>2, <2>1, <2>2 DEF AInv, AccountsAreSpaced
  <2>3. CASE j = Len(users')
    <3>1. users'[j] = row /\ users'[i] = users[i] /\ users[i].slot = s
      BY <1>2, <2>1, <2>3
    <3>2. users[i].at <= LastRegistration[s]
      BY <2>1, <3>1 DEF AInv, Remembered
    <3>3. users[i].at \in Nat /\ LastRegistration[s] \in Int
      BY <2>1, RowTypes, StampTypes
    <3>4. users'[j].at = now' /\ users'[i].at = users[i].at
      BY <3>1
    <3>. QED
      BY <3>2, <3>3, <3>4, LimitsAssumption DEF LimitsAssumption
  <2>. QED
    BY <1>1, <1>2, <2>2, <2>3
<1>. QED
  BY <1>2, <1>3

\* A session for the next token, over a table whose rows stay.
LEMMA GivenTokenWorks ==
    ASSUME AInv, NEW c \in Creds, NEW i \in Nat, GiveToken(i, c),
           users' \in Seq(Accounts),
           Len(users) <= Len(users'),
           \A k \in 1 .. Len(users) : users'[k] = users[k],
           i \in 1 .. Len(users'),
           users'[i].cred = c
    PROVE  /\ held' \in Seq(Creds)
           /\ sessions' \subseteq [token : 1 .. Len(held'),
                                   id : 1 .. Len(users')]
           /\ [token |-> NextToken, id |-> i] \in sessions'
           /\ \A k \in DOMAIN held' : \E r \in sessions' :
                  /\ r.token = k
                  /\ \A q \in sessions' : q.token = k => q = r
                  /\ r.id \in DOMAIN users' /\ users'[r.id].cred = held'[k]
<1> DEFINE new == [token |-> NextToken, id |-> i]
<1>1. /\ held \in Seq(Creds) /\ users \in Seq(Accounts)
      /\ sessions \subseteq [token : 1 .. Len(held), id : 1 .. Len(users)]
  BY DEF AInv, TablesOK
<1>2. /\ held' = Append(held, c) /\ sessions' = sessions \cup {new}
      /\ NextToken = Len(held) + 1 /\ new.token = Len(held) + 1 /\ new.id = i
  BY DEF GiveToken, NextToken
<1>3. /\ held' \in Seq(Creds) /\ Len(held') = Len(held) + 1
      /\ \A k \in 1 .. Len(held) : held'[k] = held[k]
      /\ held'[Len(held) + 1] = c
  BY <1>1, <1>2
<1>4. sessions' \subseteq [token : 1 .. Len(held'), id : 1 .. Len(users')]
  <2> SUFFICES ASSUME NEW r \in sessions'
               PROVE  r \in [token : 1 .. Len(held'), id : 1 .. Len(users')]
    OBVIOUS
  <2>1. CASE r = new
    BY <1>1, <1>2, <1>3, <2>1
  <2>2. CASE r \in sessions
    <3>1. r \in [token : 1 .. Len(held), id : 1 .. Len(users)]
      BY <1>1, <2>2
    <3>2. Len(held) \in Nat /\ Len(users) \in Nat /\ Len(users') \in Nat
      BY <1>1
    <3>. QED
      BY <1>3, <3>1, <3>2
  <2>. QED
    BY <1>2, <2>1, <2>2
<1>5. ASSUME NEW k \in DOMAIN held'
      PROVE  \E r \in sessions' :
                 /\ r.token = k
                 /\ \A q \in sessions' : q.token = k => q = r
                 /\ r.id \in DOMAIN users' /\ users'[r.id].cred = held'[k]
  <2>1. k \in 1 .. Len(held) \/ k = Len(held) + 1
    BY <1>1, <1>3
  <2>2. CASE k \in 1 .. Len(held)
    <3>0. k \in DOMAIN held
      BY <1>1, <2>2
    <3>1. PICK r \in sessions :
              /\ r.token = k
              /\ \A q \in sessions : q.token = k => q = r
              /\ r.id \in DOMAIN users /\ users[r.id].cred = held[k]
      BY <3>0 DEF AInv, TokensWork
    <3>2. new.token # k
      BY <1>1, <1>2, <2>2
    <3>3. /\ r.id \in DOMAIN users' /\ users'[r.id] = users[r.id]
          /\ held'[k] = held[k]
      BY <1>1, <1>3, <2>2, <3>1
    <3>. QED
      BY <1>2, <3>1, <3>2, <3>3
  <2>3. CASE k = Len(held) + 1
    <3>1. \A q \in sessions : q.token # k
      BY <1>1, <2>3
    <3>2. /\ new \in sessions' /\ new.token = k
          /\ \A q \in sessions' : q.token = k => q = new
      BY <1>2, <2>3, <3>1
    <3>3. i \in DOMAIN users' /\ users'[i].cred = held'[k]
      BY <1>3, <2>3
    <3>. QED
      BY <1>2, <3>2, <3>3
  <2>. QED
    BY <2>1, <2>2, <2>3
<1>. QED
  BY <1>2, <1>3, <1>4, <1>5

-----------------------------------------------------------------------------
(* The invariant.                                                          *)

LEMMA AccountsInitInv == AccountsInit => AInv
  BY InitIInv
     DEF AccountsInit, AInv, TablesOK, TokensWork, Remembered,
         AccountsAreSpaced

\* A step that leaves the tables alone does not move a stamp back.
LEMMA TablesRest ==
    ASSUME AInv, IInv', UNCHANGED accountVars,
           \/ UNCHANGED LastRegistration
           \/ \E s \in Slots : Register(s)
    PROVE  AInv'
<1>1. TablesOK' /\ TokensWork' /\ AccountsAreSpaced'
  BY DEF AInv, TablesOK, TokensWork, AccountsAreSpaced, accountVars
<1>2. ASSUME NEW i \in DOMAIN users \ half
      PROVE  users[i].at <= LastRegistration'[users[i].slot]
  <2>1. /\ users[i].at <= LastRegistration[users[i].slot]
        /\ users[i].slot \in Slots /\ users[i].at \in Nat
    BY RowTypes DEF AInv, Remembered
  <2>2. CASE UNCHANGED LastRegistration
    BY <2>1, <2>2
  <2>3. ASSUME NEW s \in Slots, Register(s)
        PROVE  users[i].at <= LastRegistration'[users[i].slot]
    <3>1. /\ now' \in Nat
          /\ LastRegistration' = [LastRegistration EXCEPT ![s] = now']
          /\ now' - LastRegistration[s] >= REGISTER_WAIT
      BY <2>3, RegisterTimes DEF AInv
    <3>. QED
      BY <2>1, <3>1, StampTypes, LimitsAssumption DEF LimitsAssumption
  <2>. QED
    BY <2>2, <2>3
<1>3. Remembered'
  BY <1>2 DEF Remembered, accountVars
<1>. QED
  BY <1>1, <1>3 DEF AInv

LEMMA RegisterKeepsInv ==
    ASSUME AInv, IInv', NEW s \in Slots, NEW n \in Names, NEW c \in Creds,
           register(s, n, c)
    PROVE  AInv'
<1>1. /\ now' \in Nat
      /\ LastRegistration' = [LastRegistration EXCEPT ![s] = now']
      /\ now' - LastRegistration[s] >= REGISTER_WAIT
  BY RegisterTimes DEF AInv, register
<1>2. InsertUser(s, n, c) /\ half' = half /\ GiveToken(Len(users'), c)
  BY DEF register
<1>3. /\ users' \in Seq(Accounts)
      /\ Len(users') = Len(users) + 1
      /\ \A i \in 1 .. Len(users) : users'[i] = users[i]
      /\ users'[Len(users')] =
             [name |-> n, cred |-> c, slot |-> s, at |-> now']
      /\ AccountsAreSpaced'
  BY <1>1, <1>2, InsertKeepsDistance
<1>4. users \in Seq(Accounts) /\ Len(users) \in Nat
  BY DEF AInv, TablesOK
<1>5. /\ held' \in Seq(Creds)
      /\ sessions' \subseteq [token : 1 .. Len(held'), id : 1 .. Len(users')]
      /\ [token |-> NextToken, id |-> Len(users')] \in sessions'
      /\ \A k \in DOMAIN held' : \E r \in sessions' :
             /\ r.token = k
             /\ \A q \in sessions' : q.token = k => q = r
             /\ r.id \in DOMAIN users' /\ users'[r.id].cred = held'[k]
  <2>1. /\ Len(users') \in Nat /\ Len(users) <= Len(users')
        /\ Len(users') \in 1 .. Len(users') /\ users'[Len(users')].cred = c
    BY <1>3, <1>4
  <2>. QED
    BY <1>2, <1>3, <2>1, GivenTokenWorks
<1>6. TablesOK'
  BY <1>2, <1>3, <1>4, <1>5 DEF AInv, TablesOK
<1>7. \A i \in DOMAIN users' \ half' : \E r \in sessions' : r.id = i
  <2> SUFFICES ASSUME NEW i \in DOMAIN users' \ half'
               PROVE  \E r \in sessions' : r.id = i
    OBVIOUS
  <2>1. CASE i = Len(users')
    BY <1>5, <2>1
  <2>2. CASE i \in DOMAIN users
    BY <1>2, <2>2 DEF AInv, TokensWork, GiveToken
  <2>. QED
    BY <1>3, <1>4, <2>1, <2>2
<1>8. Remembered'
  <2> SUFFICES ASSUME NEW i \in DOMAIN users' \ half'
               PROVE  users'[i].at <= LastRegistration'[users'[i].slot]
    BY DEF Remembered
  <2>1. LastRegistration \in [Slots -> Int]
    BY StampTypes
  <2>2. CASE i = Len(users')
    BY <1>1, <1>3, <2>1, <2>2
  <2>3. CASE i \in 1 .. Len(users)
    <3>1. /\ users'[i] = users[i] /\ users[i].at \in Nat
          /\ users[i].slot \in Slots
          /\ users[i].at <= LastRegistration[users[i].slot]
      <4>1. i \in DOMAIN users \ half
        BY <1>2, <1>4, <2>3
      <4>. QED
        BY <1>3, <2>3, <4>1, RowTypes DEF AInv, Remembered
    <3>2. LastRegistration[users[i].slot] <= LastRegistration'[users[i].slot]
      BY <1>1, <2>1, <3>1, LimitsAssumption DEF LimitsAssumption
    <3>3. /\ LastRegistration[users[i].slot] \in Int
          /\ LastRegistration'[users[i].slot] \in Int
      BY <1>1, <2>1, <3>1
    <3>. QED
      BY <3>1, <3>2, <3>3
  <2>. QED
    BY <1>3, <1>4, <2>2, <2>3
<1>. QED
  BY <1>3, <1>5, <1>6, <1>7, <1>8 DEF AInv, TokensWork

LEMMA HalfKeepsInv ==
    ASSUME AInv, IInv', NEW s \in Slots, NEW n \in Names, NEW c \in Creds,
           RegisterHalf(s, n, c)
    PROVE  AInv'
<1>1. /\ now' \in Nat /\ UNCHANGED LastRegistration
      /\ now' - LastRegistration[s] >= REGISTER_WAIT
  BY RequestTimes, HalfTimes DEF AInv, RegisterHalf
<1>2. /\ InsertUser(s, n, c) /\ half' = half \cup {Len(users')}
      /\ UNCHANGED <<sessions, held>>
  BY DEF RegisterHalf
<1>3. /\ users' \in Seq(Accounts)
      /\ Len(users') = Len(users) + 1
      /\ \A i \in 1 .. Len(users) : users'[i] = users[i]
      /\ AccountsAreSpaced'
  BY <1>1, <1>2, InsertKeepsDistance
<1>4. users \in Seq(Accounts) /\ Len(users) \in Nat
  BY DEF AInv, TablesOK
<1>5. TablesOK'
  <2>1. half' \subseteq 1 .. Len(users')
    <3>1. half \subseteq 1 .. Len(users)
      BY DEF AInv, TablesOK
    <3>2. /\ Len(users') \in 1 .. Len(users')
          /\ 1 .. Len(users) \subseteq 1 .. Len(users')
      BY <1>3, <1>4
    <3>. QED
      BY <1>2, <3>1, <3>2
  <2>2. sessions' \subseteq [token : 1 .. Len(held'), id : 1 .. Len(users')]
    <3> SUFFICES ASSUME NEW r \in sessions
                 PROVE  r \in [token : 1 .. Len(held), id : 1 .. Len(users')]
      BY <1>2
    <3>1. r \in [token : 1 .. Len(held), id : 1 .. Len(users)]
      BY DEF AInv, TablesOK
    <3>. QED
      BY <1>3, <1>4, <3>1
  <2>. QED
    BY <1>2, <1>3, <2>1, <2>2 DEF AInv, TablesOK
<1>6. TokensWork'
  <2>1. ASSUME NEW k \in DOMAIN held
        PROVE  \E r \in sessions :
                   /\ r.token = k
                   /\ \A q \in sessions : q.token = k => q = r
                   /\ r.id \in DOMAIN users' /\ users'[r.id].cred = held[k]
    <3>1. PICK r \in sessions :
              /\ r.token = k
              /\ \A q \in sessions : q.token = k => q = r
              /\ r.id \in DOMAIN users /\ users[r.id].cred = held[k]
      BY DEF AInv, TokensWork
    <3>2. r.id \in DOMAIN users' /\ users'[r.id] = users[r.id]
      BY <1>3, <1>4, <3>1
    <3>. QED
      BY <3>1, <3>2
  <2>2. ASSUME NEW i \in DOMAIN users' \ half'
        PROVE  \E r \in sessions : r.id = i
    <3>1. i \in DOMAIN users \ half
      BY <1>2, <1>3, <1>4
    <3>. QED
      BY <3>1 DEF AInv, TokensWork
  <2>. QED
    BY <1>2, <2>1, <2>2 DEF TokensWork
<1>7. Remembered'
  <2> SUFFICES ASSUME NEW i \in DOMAIN users' \ half'
               PROVE  users'[i].at <= LastRegistration'[users'[i].slot]
    BY DEF Remembered
  <2>1. i \in DOMAIN users \ half /\ users'[i] = users[i]
    BY <1>2, <1>3, <1>4
  <2>. QED
    BY <1>1, <2>1 DEF AInv, Remembered
<1>. QED
  BY <1>3, <1>5, <1>6, <1>7 DEF AInv

LEMMA LoginKeepsInv ==
    ASSUME AInv, IInv', NEW s \in Slots, NEW c \in Creds, login(s, c)
    PROVE  AInv'
<1>1. UNCHANGED LastRegistration /\ UNCHANGED <<users, half>>
  BY RequestTimes DEF AInv, login
<1>2. PICK i \in Match(c) : GiveToken(i, c)
  BY DEF login
<1>3. users \in Seq(Accounts) /\ i \in 1 .. Len(users) /\ users[i].cred = c
      /\ Len(users) \in Nat /\ i \in Nat
  BY DEF AInv, TablesOK, Match
<1>4. /\ held' \in Seq(Creds)
      /\ sessions' \subseteq [token : 1 .. Len(held'), id : 1 .. Len(users')]
      /\ \A k \in DOMAIN held' : \E r \in sessions' :
             /\ r.token = k
             /\ \A q \in sessions' : q.token = k => q = r
             /\ r.id \in DOMAIN users' /\ users'[r.id].cred = held'[k]
  <2>1. /\ users' \in Seq(Accounts) /\ Len(users) <= Len(users')
        /\ \A k \in 1 .. Len(users) : users'[k] = users[k]
        /\ i \in 1 .. Len(users') /\ users'[i].cred = c
    BY <1>1, <1>3
  <2>. QED
    BY <1>2, <1>3, <2>1, GivenTokenWorks
<1>5. TablesOK'
  BY <1>1, <1>4 DEF AInv, TablesOK
<1>6. \A k \in DOMAIN users' \ half' : \E r \in sessions' : r.id = k
  BY <1>1, <1>2 DEF AInv, TokensWork, GiveToken
<1>7. Remembered' /\ AccountsAreSpaced'
  BY <1>1 DEF AInv, Remembered, AccountsAreSpaced
<1>. QED
  BY <1>4, <1>5, <1>6, <1>7 DEF AInv, TokensWork

LEMMA AccountsNextInv == AInv /\ [AccountsNext]_accountsVars => AInv'
<1> SUFFICES ASSUME AInv, [AccountsNext]_accountsVars PROVE AInv'
  OBVIOUS
<1>1. IInv'
  BY StepsAreLimited, NextIInv DEF AInv
<1>2. CASE Tick /\ UNCHANGED accountVars
  BY <1>1, <1>2, TablesRest DEF Tick
<1>3. ASSUME NEW s \in Slots, Connect(s) \/ Disconnect(s),
             UNCHANGED accountVars
      PROVE  AInv'
  BY <1>1, <1>3, TablesRest DEF Connect, Disconnect
<1>4. ASSUME NEW s \in Slots, OtherRequest(s) PROVE AInv'
  BY <1>1, <1>4, TablesRest, RequestTimes DEF OtherRequest, AInv
<1>5. ASSUME NEW s \in Slots, NEW c \in Creds, login(s, c) PROVE AInv'
  BY <1>1, <1>5, LoginKeepsInv
<1>6. ASSUME NEW s \in Slots, NEW c \in Creds, NEW n \in Names,
             register(s, n, c)
      PROVE  AInv'
  BY <1>1, <1>6, RegisterKeepsInv
<1>7. ASSUME NEW s \in Slots, NEW c \in Creds, NEW n \in Names,
             RegisterHalf(s, n, c)
      PROVE  AInv'
  BY <1>1, <1>7, HalfKeepsInv
<1>8. CASE UNCHANGED accountsVars
  BY <1>1, <1>8, TablesRest DEF accountsVars, vars
<1>. QED
  BY <1>2, <1>3, <1>4, <1>5, <1>6, <1>7, <1>8 DEF AccountsNext

LEMMA AccountsInvariant == AccountsSpec => []AInv
  BY AccountsInitInv, AccountsNextInv, PTL DEF AccountsSpec

-----------------------------------------------------------------------------
(* The properties.                                                         *)

\* A token that was answered opens one account, that of the credentials it was
\* given for; and an account without a session is a half registration.
THEOREM AnsweredTokensWork == AccountsSpec => []TokensWork
<1>1. AInv => TokensWork
  BY DEF AInv
<1>. QED
  BY <1>1, AccountsInvariant, PTL

\* Accounts made through one slot keep their distance, although the test and
\* the stamp are apart from the row they are about.
THEOREM AccountsKeepDistance == AccountsSpec => []AccountsAreSpaced
<1>1. AInv => AccountsAreSpaced
  BY DEF AInv
<1>. QED
  BY <1>1, AccountsInvariant, PTL

\* What a login finds is never taken over by a later registration.
THEOREM LoginsStay == AccountsSpec => LoginIsStable
<1>1. AInv /\ [AccountsNext]_accountsVars =>
          [\A c \in Creds : Match(c) # {} => Match(c)' = Match(c)]_accountsVars
  <2> SUFFICES ASSUME AInv, AccountsNext, NEW c \in Creds, Match(c) # {}
               PROVE  Match(c)' = Match(c)
    BY DEF Match, accountsVars, accountVars
  <2>1. CASE users' = users
    BY <2>1 DEF Match
  <2>2. ASSUME NEW s \in Slots, NEW n \in Names, NEW d \in Creds,
               InsertUser(s, n, d)
        PROVE  Match(c)' = Match(c)
    <3> DEFINE row == [name |-> n, cred |-> d, slot |-> s, at |-> now']
    <3>1. users \in Seq(Accounts) /\ Len(users) \in Nat
      BY DEF AInv, TablesOK
    <3>2. /\ users' = Append(users, row)
          /\ DOMAIN users = 1 .. Len(users)
          /\ DOMAIN users' = 1 .. Len(users) + 1
          /\ \A i \in 1 .. Len(users) : users'[i] = users[i]
      BY <2>2, <3>1 DEF InsertUser
    <3>3. PICK m \in 1 .. Len(users) :
              /\ users[m].cred = c
              /\ \A j \in DOMAIN users : users[j].cred = c => m <= j
      BY <3>1 DEF Match
    <3>. HIDE DEF row
    <3>4. ASSUME NEW i \in Match(c) PROVE i \in Match(c)'
      BY <3>1, <3>2, <3>4 DEF Match
    <3>5. ASSUME NEW i \in Match(c)' PROVE i \in Match(c)
      BY <3>1, <3>2, <3>3, <3>5 DEF Match
    <3>. QED
      BY <3>4, <3>5
  <2>. QED
    BY <2>1, <2>2 DEF AccountsNext, accountVars, register, RegisterHalf, login,
                      OtherRequest
<1>. QED
  BY <1>1, AccountsInvariant, PTL DEF AccountsSpec, LoginIsStable
=============================================================================
