---------------------------- MODULE YampAccounts ----------------------------
(***************************************************************************)
(* Accounts and sessions: "register" and "login", on top of the clock and  *)
(* the pause of YampRateLimit.                                             *)
(*                                                                         *)
(* Registering takes three steps that nothing joins: the row of the users  *)
(* table is committed, then the row of the sessions table, and only then   *)
(* the slot remembers the time.  When the second INSERT fails the client   *)
(* is told error 3, the account stays, and the pause does not start.       *)
(***************************************************************************)
EXTENDS YampRateLimit, Sequences

CONSTANTS
    Names,       \* the user names clients ask for
    Creds,       \* pairs of an e-mail address and a password
    MaxAccounts, \* bound: rows of the users table
    MaxTokens    \* bound: session tokens handed to clients

ASSUME AccountsAssumption == MaxAccounts \in Nat /\ MaxTokens \in Nat

VARIABLES
    users,    \* the users table, in rowid order; the id is the position
    sessions, \* the sessions table
    \* What clients were told, and history.
    held,     \* per token answered to a client, the credentials it showed
    half      \* ids of accounts whose session INSERT failed

accountVars  == <<users, sessions, held, half>>
accountsVars == <<vars, accountVars>>

\* A token is numbered in the order of the answers that carry one; a token
\* that was generated for an INSERT that failed reaches nobody.
NextToken == Len(held) + 1

AccountsInit ==
    /\ Init
    /\ users = <<>>
    /\ sessions = {}
    /\ held = <<>>
    /\ half = {}

\* The request behind the primed variables was not refused by the limiter.
LetThrough(s) == ratelimited'[s] < BURST

\* The handler reads the clock at t4, after the preamble's last reading and no
\* later than its end.
PausePassed(s) == \E t4 \in LastEndpoint'[s] .. now' : MayRegister(s, t4)

\* RegisterUserAccount: the only constraint that can refuse the row is the
\* UNIQUE name; any number of accounts may share an e-mail address.
InsertUser(s, n, c) ==
    /\ Len(users) < MaxAccounts
    /\ \A i \in DOMAIN users : users[i].name # n
    /\ users' = Append(users, [name |-> n, cred |-> c, slot |-> s, at |-> now'])

\* Mutant: the result of the INSERT is ignored.
GiveTokenAnyway(i, c) ==
    /\ \/ sessions' = sessions \cup {[token |-> NextToken, id |-> i]}
       \/ UNCHANGED sessions
    /\ held' = Append(held, c)

\* INSERT INTO sessions for account i, and the answer with the token.
GiveToken(i, c) ==
    /\ sessions' = sessions \cup {[token |-> NextToken, id |-> i]}
    /\ held' = Append(held, c)

register(s, n, c) ==
    /\ NextToken <= MaxTokens
    /\ Register(s)
    /\ InsertUser(s, n, c)
    /\ GiveToken(Len(users'), c)
    /\ UNCHANGED half

\* The session INSERT of "register" fails behind the committed account: for
\* the limits it is a request like any other.
RegisterHalf(s, n, c) ==
    /\ Request(s)
    /\ LetThrough(s)
    /\ PausePassed(s)
    /\ InsertUser(s, n, c)
    /\ half' = half \cup {Len(users')}
    /\ UNCHANGED <<sessions, held>>

\* Mutant: the newest of the matching rows is taken.
LastMatch(c) == {i \in DOMAIN users : /\ users[i].cred = c
                                      /\ \A j \in DOMAIN users :
                                             users[j].cred = c => j <= i}

\* SELECT id FROM users WHERE email = ? AND password = ?, of which "login"
\* reads one row: the table has no index on either column, so the first.
Match(c) == {i \in DOMAIN users : /\ users[i].cred = c
                                  /\ \A j \in DOMAIN users :
                                         users[j].cred = c => i <= j}

login(s, c) ==
    /\ NextToken <= MaxTokens
    /\ Request(s)
    /\ LetThrough(s)
    /\ \E i \in Match(c) : GiveToken(i, c)
    /\ UNCHANGED <<users, half>>

\* Any other request; a "register" or "login" that is refused, or whose first
\* INSERT (the only one of "login") fails.
OtherRequest(s) == Request(s) /\ UNCHANGED accountVars

AccountsNext ==
    \/ Tick /\ UNCHANGED accountVars
    \/ \E s \in Slots :
           \/ Connect(s) /\ UNCHANGED accountVars
           \/ Disconnect(s) /\ UNCHANGED accountVars
           \/ OtherRequest(s)
           \/ \E c \in Creds :
                  \/ login(s, c)
                  \/ \E n \in Names : register(s, n, c) \/ RegisterHalf(s, n, c)

AccountsSpec == AccountsInit /\ [][AccountsNext]_accountsVars

-----------------------------------------------------------------------------
(* Properties.                                                             *)

\* The accounts made through one slot are REGISTER_WAIT apart, although the
\* pause is tested before the rows are written and remembered after them; an
\* account whose session failed is the one way around the pause ("register").
AccountsAreSpaced ==
    \A i, j \in DOMAIN users :
        (i < j /\ i \notin half /\ users[i].slot = users[j].slot) =>
            users[j].at - users[i].at >= REGISTER_WAIT

\* A token that a client was given opens, through the sessions table, one
\* account, and one with the credentials the client showed; an account that no
\* session leads to is one whose registration was answered with an error
\* (the tails of "register" and "login", and the lookup of "auth").
TokensWork ==
    /\ \A k \in DOMAIN held : \E r \in sessions :
           /\ r.token = k
           /\ \A q \in sessions : q.token = k => q = r
           /\ r.id \in DOMAIN users /\ users[r.id].cred = held[k]
    /\ \A i \in DOMAIN users \ half : \E r \in sessions : r.id = i

\* What "login" opens for a pair of e-mail address and password never changes:
\* whoever registers with the same pair later, a client that repeats a half
\* registration included, does not come before the account that was there.
LoginIsStable ==
    [][\A c \in Creds : Match(c) # {} => Match(c)' = Match(c)]_accountsVars
=============================================================================
