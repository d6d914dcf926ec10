----------------------------- MODULE RoutesProofs -----------------------------
(***************************************************************************)
(* Proofs about what the web routes answer: the verdicts on logins, of      *)
(* Access.tla, and the pages of history, of History.tla.                    *)
(*                                                                         *)
(* Logins, for any passwords and secrets, any lifetime and any settings of  *)
(* the clock: the inductive invariant ties each token that the client keeps *)
(* to the login it came from.                                               *)
(*                                                                         *)
(* Pages, for any messages and limits, any clock and any number of crashes: *)
(* once the server has started no row is in the old format, so a cursor     *)
(* separates what is shown from what is older, up to ties.                  *)
(***************************************************************************)
EXTENDS Access, History, FiniteSetTheorems, TLAPS

\* A token expires one lifetime after its login and is signed with the secret of the
\* settings of that time, or the client signed it with a text that it knows.
TokenOfLogin ==
    \A p \in Places :
        /\ login[p] # Never =>
              held[p] = [exp |-> login[p].at + Lifetime, key |-> Secret(login[p].settings)]
        /\ login[p] = Never => held[p] \in NoToken \/ held[p].key \in Known

IInv == TypeOK /\ TokenOfLogin

-----------------------------------------------------------------------------
(* Secrets and tokens *)

\* What has the fields of a signed token, or of a login, is none of the placeholders.
LEMMA TokensAreSigned == \A token \in Tokens : token \notin NoToken
  BY DEF Tokens, NoToken, Absent, Unsigned

LEMMA LoginsAreIssued == \A l \in Issued : l # Never
  BY DEF Issued, Never

\* auth_secret is a text, and the one the process signs with.
LEMMA SecretIsText ==
  ASSUME NEW c \in Settings
  PROVE  /\ Secret(c) \in Texts
         /\ \A text \in Texts : SignsWith(c, text) <=> text = Secret(c)
<1>1. /\ c.variable \in Secrets \cup {Unset} /\ c.password \in Passwords \cup {Unset}
      /\ \A text \in Texts : text # Unset
  BY AccessAssumption DEF Settings
<1>2. CASE c.variable # Unset
  BY <1>1, <1>2 DEF Secret, SignsWith, Texts
<1>3. CASE c.variable = Unset /\ c.password # Unset
  BY <1>1, <1>3 DEF Secret, SignsWith, Texts
<1>4. CASE c.variable = Unset /\ c.password = Unset
  BY <1>1, <1>4 DEF Secret, SignsWith, Texts
<1>. QED
  BY <1>2, <1>3, <1>4

-----------------------------------------------------------------------------
(* The invariant *)

\* Without a token there is no login to account for.
LEMMA InitEstablishes == Init => IInv
<1>. SUFFICES ASSUME Init PROVE IInv
  OBVIOUS
<1>1. TypeOK
  BY AccessAssumption DEF Init, TypeOK, NoToken
<1>. QED
  BY <1>1 DEF IInv, TokenOfLogin, Init, NoToken

\* What the client keeps is replaced together with the login it came from.
LEMMA KeepPreserves ==
  ASSUME IInv, NEW p \in Places, NEW token, NEW from, Keep(p, token, from),
         \/ token \in NoToken /\ from = Never
         \/ token \in Tokens /\ token.key \in Known /\ from = Never
         \/ /\ from \in Issued
            /\ token \in Tokens
            /\ token = [exp |-> from.at + Lifetime, key |-> Secret(from.settings)]
  PROVE  IInv'
<1>1. /\ held' = [held EXCEPT ![p] = token]
      /\ login' = [login EXCEPT ![p] = from]
      /\ UNCHANGED <<now, config, answer>>
  BY DEF Keep
<1>2. /\ token \in NoToken => from = Never
      /\ from = Never => token \in NoToken \/ token.key \in Known
      /\ from # Never => token = [exp |-> from.at + Lifetime, key |-> Secret(from.settings)]
      /\ token \in Tokens \cup NoToken /\ from \in Issued \cup {Never}
  BY TokensAreSigned, LoginsAreIssued
<1>3. TypeOK'
  BY <1>1, <1>2 DEF IInv, TypeOK
<1>4. TokenOfLogin'
  BY <1>1, <1>2 DEF IInv, TypeOK, TokenOfLogin
<1>. QED
  BY <1>3, <1>4 DEF IInv

\* login gives out a token for the right password only, and logout forgets it.
LEMMA LoginPreserves ==
  ASSUME IInv, NEW p \in Places, NEW typed, Login(p, typed) \/ Logout(p)
  PROVE  IInv'
<1>1. CASE Logout(p) \/ ~config.enabled
  <2>1. \E token \in NoToken : Keep(p, token, Never)
    BY <1>1 DEF Login, Logout, NoToken
  <2>. QED
    BY <2>1, KeepPreserves
<1>2. CASE Login(p, typed) /\ config.enabled
  <2>. DEFINE from == [at |-> now, settings |-> config]
  <2>1. Expected(config) # Empty /\ Keep(p, GenerateToken, from)
    BY <1>2 DEF Login
  <2>2. config \in Settings /\ now \in Nat /\ now + Lifetime \in Nat
    BY AccessAssumption DEF IInv, TypeOK
  <2>3. from \in Issued /\ from.settings = config /\ from.at = now
    BY <1>2, <2>1, <2>2 DEF Issued
  <2>4. GenerateToken \in Tokens
    BY <2>2, SecretIsText DEF GenerateToken, Tokens
  <2>5. GenerateToken = [exp |-> from.at + Lifetime, key |-> Secret(from.settings)]
    BY <2>3 DEF GenerateToken
  <2>. HIDE DEF from
  <2>. QED
    BY <2>1, <2>3, <2>4, <2>5, KeepPreserves
<1>. QED
  BY <1>1, <1>2

\* A token of the client's own making is signed with a text that it knows.
LEMMA SignPreserves ==
  ASSUME IInv, NEW p \in Places, NEW key \in Known, NEW exp \in 0..MaxTime + Lifetime,
         Sign(p, key, exp)
  PROVE  IInv'
<1>. DEFINE token == [exp |-> exp, key |-> key]
<1>1. Keep(p, token, Never)
  BY DEF Sign
<1>2. token \in Tokens /\ token.key \in Known
  BY AccessAssumption DEF Tokens
<1>. HIDE DEF token
<1>. QED
  BY <1>1, <1>2, KeepPreserves

\* Every step preserves the invariant: requests, the clock and restarts touch no token.
LEMMA NextPreserves == IInv /\ [Next]_vars => IInv'
<1>. SUFFICES ASSUME IInv, [Next]_vars PROVE IInv'
  OBVIOUS
<1>1. CASE \E p \in Places :
              \/ (\E typed \in Passwords : Login(p, typed)) \/ Logout(p)
              \/ \E key \in Known, exp \in 0..MaxTime + Lifetime : Sign(p, key, exp)
  BY <1>1, LoginPreserves, SignPreserves
<1>2. CASE \/ \E p \in Places : Verify(p)
           \/ \E route \in Routes : Request(route)
  BY <1>2 DEF Verify, Request, Answers, IInv, TypeOK, TokenOfLogin
<1>3. CASE \/ \E t \in 0..MaxTime : SetClock(t)
           \/ \E c \in Settings : Restart(c)
           \/ UNCHANGED vars
  BY <1>3 DEF SetClock, Restart, vars, IInv, TypeOK, TokenOfLogin
<1>. QED
  BY <1>1, <1>2, <1>3 DEF Next

THEOREM InvariantHolds == Spec => []IInv
  BY InitEstablishes, NextPreserves, PTL DEF Spec

\* Type correctness: in particular, a token comes from a login only where a password was set.
THEOREM TypeCorrect == Spec => []TypeOK
<1>1. IInv => TypeOK
  BY DEF IInv
<1>. QED
  BY <1>1, InvariantHolds, PTL

-----------------------------------------------------------------------------
(* Access *)

\* verify_token accepts what a place holds when the login behind it counts and, as long as
\* the client does not know the secret, only then.
LEMMA VerdictIsLogin ==
  ASSUME IInv, NEW p \in Places
  PROVE  /\ LoginCounts(p) => VerifyToken(held[p])
         /\ VerifyToken(held[p]) => LoginCounts(p) \/ SecretIsKnown
<1>1. CASE login[p] = Never
  <2>1. ~LoginCounts(p)
    BY <1>1 DEF LoginCounts
  <2>2. ASSUME VerifyToken(held[p]) PROVE SecretIsKnown
    <3>1. Secret(config) \in Known
      BY <1>1, <2>2 DEF IInv, TokenOfLogin, VerifyToken
    <3>2. config \in Settings
      BY DEF IInv, TypeOK
    <3>. QED
      BY <3>1, <3>2, SecretIsText DEF SecretIsKnown
  <2>. QED
    BY <2>1, <2>2
<1>2. CASE login[p] # Never
  <2>. DEFINE l == login[p]
  <2>1. l \in Issued /\ l.at \in Nat /\ l.settings \in Settings /\ config \in Settings
    BY <1>2 DEF IInv, TypeOK, Issued
  <2>2. /\ held[p] \notin NoToken
        /\ held[p].exp = l.at + Lifetime /\ held[p].key = Secret(l.settings)
    BY <1>2 DEF IInv, TypeOK, TokenOfLogin
  <2>3. held[p].exp > now <=> now - l.at < Lifetime
    BY <2>1, <2>2, AccessAssumption DEF IInv, TypeOK
  <2>4. held[p].key = Secret(config) <=>
            \E text \in Texts : SignsWith(config, text) /\ SignsWith(l.settings, text)
    BY <2>1, <2>2, SecretIsText
  <2>. QED
    BY <1>2, <2>2, <2>3, <2>4 DEF VerifyToken, LoginCounts
<1>. QED
  BY <1>1, <1>2

\* auth_middleware lets a request with a token pass when the login behind it counts: the
\* token has not expired, and the secret is still the one of the login, whatever the
\* process was restarted with in between.  It lets no other pass but of a client that knows
\* the secret without a login, as it does when the settings leave the secret empty; and
\* GET /api/auth/verify gives the same verdict.
THEOREM AccessIsByLogin == Spec => AccessFollowsLogin
<1>1. IInv /\ [Next]_vars =>
         [/\ \A route \in Routes \ Public :
                Request(route) =>
                   FollowsLogin(IF held["cookie"] # Absent THEN "cookie" ELSE "bearer")
          /\ \A p \in Places : Verify(p) => FollowsLogin(p)]_vars
  <2>. DEFINE Place == IF held["cookie"] # Absent THEN "cookie" ELSE "bearer"
  <2>. SUFFICES ASSUME IInv
                PROVE  /\ \A route \in Routes \ Public : Request(route) => FollowsLogin(Place)
                       /\ \A p \in Places : Verify(p) => FollowsLogin(p)
    OBVIOUS
  <2>1. ASSUME NEW route \in Routes \ Public, Request(route)
        PROVE  FollowsLogin(Place)
    <3>1. route \in Guarded
      BY DEF Routes
    <3>2. Place \in Places /\ ExtractToken = held[Place]
      BY DEF Places, ExtractToken
    <3>3. answer' = "ok" <=> ~config.enabled \/ VerifyToken(held[Place])
      BY <2>1, <3>1, <3>2 DEF Request, Answers
    <3>. QED
      BY <3>2, <3>3, VerdictIsLogin DEF FollowsLogin
  <2>2. ASSUME NEW p \in Places, Verify(p)
        PROVE  FollowsLogin(p)
    BY <2>2, VerdictIsLogin DEF Verify, Answers, FollowsLogin
  <2>. QED
    BY <2>1, <2>2
<1>. QED
  BY <1>1, InvariantHolds, PTL DEF Spec, AccessFollowsLogin

-----------------------------------------------------------------------------
(* History: the queries *)

IsShownIn(m, page) == \E i \in DOMAIN page : page[i] = m

\* What a query may answer over a set of rows: some of them, each once, from older to
\* newer, none of them before one that is left out, and nothing only when there is nothing.
LEMMA PageOfQuery ==
  ASSUME NEW rows \in SUBSET Messages, NEW n \in Limits,
         NEW page \in NewestFirst(rows, n)
  PROVE  /\ page \in Seq(rows)
         /\ \A i, j \in DOMAIN page :
               i < j => page[i] # page[j] /\ ~Before(page[j], time[page[i]], row[page[i]])
         /\ \A m \in rows, i \in DOMAIN page :
               ~IsShownIn(m, page) => ~Before(page[i], time[m], row[m])
         /\ page = <<>> => rows = {}
<1>. DEFINE k == SmallerOf(n, Cardinality(rows))
<1>1. /\ page \in UNION {SetToSeqs(P) : P \in kSubset(k, rows)}
      /\ \A m \in rows \ ToSet(page), x \in ToSet(page) :
            ~Before(x, time[m], row[m])
      /\ \A i, j \in DOMAIN page : i < j => ~Before(page[j], time[page[i]], row[page[i]])
  BY DEF NewestFirst
<1>2. PICK P \in kSubset(k, rows) : page \in SetToSeqs(P)
  BY <1>1
<1>3. P \subseteq rows /\ Cardinality(P) = k
  BY <1>2 DEF kSubset
<1>4. /\ page \in [1..Cardinality(P) -> P]
      /\ \A i, j \in 1..Cardinality(P) : i # j => page[i] # page[j]
  BY <1>2 DEF SetToSeqs
<1>5. IsFiniteSet(rows) /\ Cardinality(rows) \in Nat /\ n \in Nat \ {0}
  BY FS_Subset, FS_CardinalityType, HistoryAssumption
<1>6. k = IF n < Cardinality(rows) THEN n ELSE Cardinality(rows)
  BY DEF SmallerOf
<1>. HIDE DEF k
<1>7. k \in Nat /\ (k = 0 => Cardinality(rows) = 0)
  BY <1>5, <1>6
<1>8. page \in Seq(rows) /\ DOMAIN page = 1..k
  BY <1>3, <1>4, <1>7
<1>9. ASSUME page = <<>>
      PROVE  rows = {}
  <2>1. k = 0
    BY <1>7, <1>8, <1>9
  <2>. QED
    BY <1>5, <1>7, <2>1, FS_EmptySet
<1>10. \A m : m \in ToSet(page) <=> IsShownIn(m, page)
  BY DEF ToSet, IsShownIn
<1>11. ASSUME NEW m \in rows, NEW i \in DOMAIN page, ~IsShownIn(m, page)
       PROVE  ~Before(page[i], time[m], row[m])
  <2>1. page[i] \in ToSet(page) /\ m \notin ToSet(page)
    BY <1>10, <1>11 DEF IsShownIn
  <2>. QED
    BY <1>1, <2>1
<1>12. \A i, j \in DOMAIN page : i < j => page[i] # page[j]
  BY <1>3, <1>4, <1>8
<1>. QED
  BY <1>1, <1>8, <1>9, <1>11, <1>12

-----------------------------------------------------------------------------
(* The inductive invariant of the pages *)

\* Once the server has started, or a client has been served, the migration is complete.
NothingIsOld == serving \/ opened => \A m \in Messages : row[m] # "old"

\* What is shown, or was there at the opening, has its timestamp, which no later step changes.
ShownAreStamped ==
    /\ \A i \in DOMAIN shown : row[shown[i]] # "unborn"
    /\ \A m \in atOpening : row[m] # "unborn"

\* A client that has not opened shows nothing; only one that shows something is told of more.
ClosedIsEmpty ==
    /\ ~opened => shown = <<>> /\ ~more /\ atOpening = {}
    /\ more => shown # <<>>

PagesInv ==
    /\ HistoryTypeOK
    /\ NothingIsOld
    /\ ShownAreStamped
    /\ ClosedIsEmpty
    /\ PagesFitTogether
    /\ OnlyTiesAreMissed

LEMMA StoredRows ==
  \A m : m \in Stored <=> m \in Messages /\ row[m] \in {"old", "new"}
  BY DEF Stored

LEMMA ShownSet == \A m, s : m \in ToSet(s) <=> IsShownIn(m, s)
  BY DEF ToSet, IsShownIn

\* A page on top of another: the positions, and what is shown.
LEMMA OnTop ==
  ASSUME NEW S, NEW s \in Seq(S), NEW t \in Seq(S)
  PROVE  /\ s \o t \in Seq(S)
         /\ \A i \in DOMAIN (s \o t) :
               \/ i \in DOMAIN s /\ (s \o t)[i] = s[i]
               \/ i \notin DOMAIN s /\ i - Len(s) \in DOMAIN t /\ (s \o t)[i] = t[i - Len(s)]
         /\ \A i \in DOMAIN s : i \in DOMAIN (s \o t) /\ (s \o t)[i] = s[i]
         /\ \A i \in DOMAIN t :
               i + Len(s) \in DOMAIN (s \o t) /\ (s \o t)[i + Len(s)] = t[i]
<1>1. /\ s \o t \in Seq(S) /\ Len(s \o t) = Len(s) + Len(t)
      /\ Len(s) \in Nat /\ Len(t) \in Nat
      /\ DOMAIN s = 1..Len(s) /\ DOMAIN t = 1..Len(t)
      /\ DOMAIN (s \o t) = 1..Len(s \o t)
  OBVIOUS
<1>2. \A i \in 1..(Len(s) + Len(t)) :
         (s \o t)[i] = IF i <= Len(s) THEN s[i] ELSE t[i - Len(s)]
  OBVIOUS
<1>3. ASSUME NEW i \in DOMAIN (s \o t)
      PROVE  \/ i \in DOMAIN s /\ (s \o t)[i] = s[i]
             \/ i \notin DOMAIN s /\ i - Len(s) \in DOMAIN t /\ (s \o t)[i] = t[i - Len(s)]
  BY <1>1, <1>2
<1>4. ASSUME NEW i \in DOMAIN s
      PROVE  i \in DOMAIN (s \o t) /\ (s \o t)[i] = s[i]
  BY <1>1, <1>2
<1>5. ASSUME NEW i \in DOMAIN t
      PROVE  i + Len(s) \in DOMAIN (s \o t) /\ (s \o t)[i + Len(s)] = t[i]
  BY <1>1, <1>2
<1>. QED
  BY <1>1, <1>3, <1>4, <1>5

LEMMA PagesStart ==
  ASSUME HistoryInit
  PROVE  PagesInv
<1>1. /\ time \in [Messages -> 0..LastMillis] /\ clock \in 0..LastMillis
      /\ serving = FALSE /\ crashes = 0 /\ shown = <<>> /\ opened = FALSE
      /\ more = FALSE /\ atOpening = {} /\ misled = FALSE
  BY DEF HistoryInit
<1>2. row \in [Messages -> {"unborn", "old", "new", "deleted"}]
  BY DEF HistoryInit
<1>3. crashes \in 0..MaxCrashes /\ shown \in Seq(Messages) /\ atOpening \subseteq Messages
  <2>1. 0 \in 0..MaxCrashes
    BY HistoryAssumption
  <2>. QED
    BY <1>1, <2>1
<1>4. HistoryTypeOK
  BY <1>1, <1>2, <1>3, Zenon DEF HistoryTypeOK
<1>5. PagesFitTogether /\ OnlyTiesAreMissed
  BY <1>1 DEF PagesFitTogether, OnlyTiesAreMissed
<1>. QED
  BY <1>1, <1>4, <1>5 DEF PagesInv, NothingIsOld, ShownAreStamped, ClosedIsEmpty

-----------------------------------------------------------------------------
(* An answer to the client *)

\* What the cursor promises: the rows asked for are older than all that is shown, and what
\* was there at the opening is among them unless it is shown, ties with something shown, or
\* was lost to a failed query.
CursorSeparates(rows, known) ==
    /\ rows \subseteq Stored
    /\ \A m \in rows, i \in DOMAIN shown : time[m] < time[shown[i]]
    /\ \A m \in known \cap Stored :
          \/ m \in rows
          \/ IsShownIn(m, shown)
          \/ misled
          \/ \E i \in DOMAIN shown : time[shown[i]] = time[m]

\* Putting the page on top of what is shown keeps the pages fitting together.
LEMMA AnswerFits ==
  ASSUME HistoryTypeOK, PagesFitTogether,
         NEW rows, NEW known, CursorSeparates(rows, known),
         NEW n \in Limits, NEW page \in NewestFirst(rows, n)
  PROVE  \A i, j \in DOMAIN (page \o shown) :
            i < j => /\ (page \o shown)[i] # (page \o shown)[j]
                     /\ time[(page \o shown)[i]] <= time[(page \o shown)[j]]
<1>. DEFINE both == page \o shown
<1>1. rows \subseteq Messages /\ shown \in Seq(Messages)
  BY StoredRows DEF CursorSeparates, HistoryTypeOK
<1>2. /\ page \in Seq(rows)
      /\ \A i, j \in DOMAIN page :
            i < j => page[i] # page[j] /\ ~Before(page[j], time[page[i]], row[page[i]])
  BY <1>1, PageOfQuery
<1>3. /\ page \in Seq(Messages)
      /\ \A i \in DOMAIN page : page[i] \in rows
      /\ Len(page) \in Nat /\ DOMAIN page = 1..Len(page)
      /\ DOMAIN both \subseteq Nat \ {0}
  BY <1>1, <1>2
<1>4. \A m \in Messages : time[m] \in Nat
  BY DEF HistoryTypeOK
<1>. SUFFICES ASSUME NEW i \in DOMAIN both, NEW j \in DOMAIN both, i < j
              PROVE  both[i] # both[j] /\ time[both[i]] <= time[both[j]]
  OBVIOUS
<1>5. /\ \/ i \in DOMAIN page /\ both[i] = page[i]
         \/ i \notin DOMAIN page /\ i - Len(page) \in DOMAIN shown /\ both[i] = shown[i - Len(page)]
      /\ \/ j \in DOMAIN page /\ both[j] = page[j]
         \/ j \notin DOMAIN page /\ j - Len(page) \in DOMAIN shown /\ both[j] = shown[j - Len(page)]
  BY <1>1, <1>3, OnTop
<1>. HIDE DEF both
<1>6. CASE i \in DOMAIN page /\ j \in DOMAIN page
  <2>1. page[i] # page[j] /\ ~Before(page[j], time[page[i]], row[page[i]])
    BY <1>2, <1>6
  <2>2. page[i] \in Messages /\ page[j] \in Messages
    BY <1>1, <1>3, <1>6
  <2>3. ~(time[page[j]] < time[page[i]])
    BY <2>1 DEF Before
  <2>4. time[page[i]] <= time[page[j]]
    BY <1>4, <2>2, <2>3
  <2>. QED
    BY <1>5, <1>6, <2>1, <2>4
<1>7. CASE i \in DOMAIN page /\ j \notin DOMAIN page
  <2>1. j - Len(page) \in DOMAIN shown /\ both[j] = shown[j - Len(page)] /\ both[i] = page[i]
    BY <1>5, <1>7
  <2>2. page[i] \in rows
    BY <1>3, <1>7
  <2>3. time[page[i]] < time[shown[j - Len(page)]]
    BY <2>1, <2>2 DEF CursorSeparates
  <2>4. page[i] \in Messages /\ shown[j - Len(page)] \in Messages
    BY <1>1, <2>1, <2>2
  <2>. QED
    BY <1>4, <2>1, <2>3, <2>4
<1>8. CASE i \notin DOMAIN page /\ j \notin DOMAIN page
  <2>1. /\ i - Len(page) \in DOMAIN shown /\ both[i] = shown[i - Len(page)]
        /\ j - Len(page) \in DOMAIN shown /\ both[j] = shown[j - Len(page)]
    BY <1>5, <1>8
  <2>2. i - Len(page) < j - Len(page)
    BY <1>3
  <2>. QED
    BY <2>1, <2>2 DEF PagesFitTogether
<1>9. ~(i \notin DOMAIN page /\ j \in DOMAIN page)
  BY <1>3
<1>. QED
  BY <1>6, <1>7, <1>8, <1>9

\* m is shown once the page is on top, or is lost, or is announced, or ties with what is shown.
KeptBy(m, page) ==
    \/ IsShownIn(m, page \o shown)
    \/ misled
    \/ HasMore(page) /\ time[m] < time[(page \o shown)[1]]
    \/ \E i \in DOMAIN (page \o shown) : time[(page \o shown)[i]] = time[m]

\* What was known is shown afterwards, or is older and announced, or ties with a message shown.
LEMMA AnswerMissesTies ==
  ASSUME HistoryTypeOK,
         NEW rows, NEW known, CursorSeparates(rows, known),
         NEW n \in Limits, NEW page \in NewestFirst(rows, n),
         NEW m \in known \cap Stored
  PROVE  KeptBy(m, page)
<1>. DEFINE both == page \o shown
<1>a. KeptBy(m, page) <=> \/ IsShownIn(m, both)
                          \/ misled
                          \/ HasMore(page) /\ time[m] < time[both[1]]
                          \/ \E i \in DOMAIN both : time[both[i]] = time[m]
  BY DEF KeptBy
<1>1. rows \subseteq Messages /\ shown \in Seq(Messages)
  BY StoredRows DEF CursorSeparates, HistoryTypeOK
<1>2. /\ page \in Seq(rows)
      /\ \A x \in rows, i \in DOMAIN page :
            ~IsShownIn(x, page) => ~Before(page[i], time[x], row[x])
      /\ page = <<>> => rows = {}
  BY <1>1, PageOfQuery
<1>3. page \in Seq(Messages) /\ \A i \in DOMAIN page : page[i] \in rows
  BY <1>1, <1>2
<1>4. /\ \A i \in DOMAIN page : i \in DOMAIN both /\ both[i] = page[i]
      /\ \A i \in DOMAIN shown :
            i + Len(page) \in DOMAIN both /\ both[i + Len(page)] = shown[i]
  BY <1>1, <1>3, OnTop
<1>. HIDE DEF both
<1>b. \A k : IsShownIn(m, k) <=> \E i \in DOMAIN k : k[i] = m
  BY DEF IsShownIn
<1>c. ASSUME NEW i \in DOMAIN both, time[both[i]] = time[m]
      PROVE  KeptBy(m, page)
  BY <1>a, <1>c
<1>5. CASE m \in rows
  <2>1. CASE IsShownIn(m, page)
    BY <1>a, <1>4, <1>b, <2>1
  <2>2. CASE ~IsShownIn(m, page)
    <3>1. page # <<>>
      BY <1>2, <1>5
    <3>2. 1 \in DOMAIN page
      BY <1>3, <3>1
    <3>3. page[1] \in Messages /\ m \in Messages
      BY <1>1, <1>3, <1>5, <3>2
    <3>4. time[m] \in Nat /\ time[page[1]] \in Nat
      BY <3>3 DEF HistoryTypeOK
    <3>5. ~(time[page[1]] < time[m])
      BY <1>2, <1>5, <2>2, <3>2 DEF Before
    <3>6. CASE time[page[1]] = time[m]
      BY <1>4, <1>c, <3>2, <3>6
    <3>7. CASE time[m] < time[page[1]]
      <4>1. Before(m, time[page[1]], row[page[1]])
        BY <3>7 DEF Before
      <4>2. HasMore(page)
        BY <3>1, <4>1 DEF HasMore
      <4>. QED
        BY <1>a, <1>4, <3>2, <3>7, <4>2
    <3>. QED
      BY <3>4, <3>5, <3>6, <3>7
  <2>. QED
    BY <2>1, <2>2
<1>6. CASE IsShownIn(m, shown)
  BY <1>a, <1>4, <1>b, <1>6
<1>7. CASE misled
  BY <1>a, <1>7
<1>8. CASE \E i \in DOMAIN shown : time[shown[i]] = time[m]
  BY <1>4, <1>c, <1>8
<1>. QED
  BY <1>5, <1>6, <1>7, <1>8 DEF CursorSeparates

\* The handler of GET /api/history, with a cursor or without.
LEMMA AnswerPreserves ==
  ASSUME PagesInv, serving,
         NEW rows, CursorSeparates(rows, atOpening'),
         NEW failed \in BOOLEAN, Answered(rows, failed),
         opened' = TRUE, atOpening' \subseteq Messages, \A m \in atOpening' : row[m] # "unborn",
         UNCHANGED <<table, server>>
  PROVE  PagesInv'
<1>1. /\ row' = row /\ time' = time /\ clock' = clock /\ serving' = serving /\ crashes' = crashes
      /\ HistoryTypeOK /\ NothingIsOld /\ ShownAreStamped /\ PagesFitTogether
  BY DEF table, server, PagesInv
<1>a. PICK n \in Limits : \E page \in NewestFirst(rows, n) :
         /\ shown' = page \o shown
         /\ more' = (HasMore(page) /\ ~failed)
         /\ misled' = (misled \/ failed)
  BY DEF Answered
<1>2. PICK page \in NewestFirst(rows, n) :
         /\ shown' = page \o shown
         /\ more' = (HasMore(page) /\ ~failed)
         /\ misled' = (misled \/ failed)
  BY <1>a
<1>3. rows \subseteq Stored /\ rows \subseteq Messages /\ shown \in Seq(Messages)
  BY <1>1, StoredRows DEF CursorSeparates, HistoryTypeOK
<1>4. page \in Seq(rows)
  BY <1>3, PageOfQuery
<1>5. page \in Seq(Messages) /\ \A i \in DOMAIN page : page[i] \in rows
  BY <1>3, <1>4
<1>6. /\ shown' \in Seq(Messages)
      /\ \A i \in DOMAIN shown' :
            \/ i \in DOMAIN page /\ shown'[i] = page[i]
            \/ i - Len(page) \in DOMAIN shown /\ shown'[i] = shown[i - Len(page)]
      /\ \A i \in DOMAIN page : i \in DOMAIN shown'
  <2>1. /\ page \o shown \in Seq(Messages)
        /\ \A i \in DOMAIN (page \o shown) :
              \/ i \in DOMAIN page /\ (page \o shown)[i] = page[i]
              \/ i - Len(page) \in DOMAIN shown /\ (page \o shown)[i] = shown[i - Len(page)]
        /\ \A i \in DOMAIN page : i \in DOMAIN (page \o shown)
    BY <1>3, <1>5, OnTop
  <2>. QED
    BY <1>2, <2>1, Zenon
<1>7. more' \in BOOLEAN /\ misled' \in BOOLEAN
  BY <1>1, <1>2 DEF HistoryTypeOK
<1>8. HistoryTypeOK'
  BY <1>1, <1>6, <1>7 DEF HistoryTypeOK
<1>9. NothingIsOld'
  BY <1>1 DEF NothingIsOld
<1>10. ShownAreStamped'
  <2>1. \A m \in rows : row[m] # "unborn"
    BY <1>3, StoredRows
  <2>2. \A i \in DOMAIN shown' : row[shown'[i]] # "unborn"
    BY <1>1, <1>5, <1>6, <2>1 DEF ShownAreStamped
  <2>. QED
    BY <1>1, <2>2 DEF ShownAreStamped
<1>11. ClosedIsEmpty'
  <2>1. ASSUME more'
        PROVE  shown' # <<>>
    <3>1. page # <<>>
      BY <1>2, <2>1 DEF HasMore
    <3>2. 1 \in DOMAIN page
      BY <1>5, <3>1
    <3>. QED
      BY <1>6, <3>2
  <2>. QED
    BY <2>1 DEF ClosedIsEmpty
<1>12. PagesFitTogether'
  <2>1. \A i, j \in DOMAIN shown' :
           i < j => shown'[i] # shown'[j] /\ time[shown'[i]] <= time[shown'[j]]
    BY <1>1, <1>2, AnswerFits
  <2>. QED
    BY <1>1, <2>1 DEF PagesFitTogether
<1>13. OnlyTiesAreMissed'
  <2>1. Stored' = Stored
    BY <1>1 DEF Stored
  <2>2. SUFFICES ASSUME NEW m \in atOpening' \cap Stored
                 PROVE  \/ m \in ToSet(shown')
                        \/ misled'
                        \/ more' /\ time[m] < time[shown'[1]]
                        \/ \E k \in ToSet(shown') : time[k] = time[m]
    BY <1>1, <2>1 DEF OnlyTiesAreMissed, ToSet
  <2>3. \/ IsShownIn(m, shown')
        \/ misled
        \/ HasMore(page) /\ time[m] < time[shown'[1]]
        \/ \E i \in DOMAIN shown' : time[shown'[i]] = time[m]
    <3>1. KeptBy(m, page)
      BY <1>1, AnswerMissesTies
    <3>. QED
      BY <1>2, <3>1, Zenon DEF KeptBy
  <2>. QED
    BY <1>2, <2>3, ShownSet DEF IsShownIn
<1>. QED
  BY <1>8, <1>9, <1>10, <1>11, <1>12, <1>13 DEF PagesInv

LEMMA OpenPreserves ==
  ASSUME PagesInv, NEW failed \in BOOLEAN, OpenHistory(failed)
  PROVE  PagesInv'
<1>1. /\ serving /\ ~opened /\ opened' = TRUE /\ atOpening' = Stored
      /\ Answered(Stored, failed) /\ UNCHANGED <<table, server>>
  BY DEF OpenHistory
<1>2. shown = <<>>
  BY <1>1 DEF PagesInv, ClosedIsEmpty
<1>3. \A m \in Stored : m \in Messages /\ row[m] # "unborn"
  BY StoredRows
<1>4. CursorSeparates(Stored, atOpening')
  BY <1>2 DEF CursorSeparates
<1>5. atOpening' \subseteq Messages /\ \A m \in atOpening' : row[m] # "unborn"
  BY <1>1, <1>3
<1>. QED
  BY <1>1, <1>4, <1>5, AnswerPreserves

LEMMA LoadPreserves ==
  ASSUME PagesInv, NEW failed \in BOOLEAN, LoadMore(failed)
  PROVE  PagesInv'
<1>. DEFINE rows == OlderThan(time[shown[1]])
<1>1. /\ serving /\ more /\ opened' = opened /\ atOpening' = atOpening
      /\ Answered(rows, failed) /\ UNCHANGED <<table, server>>
  BY DEF LoadMore
<1>2. /\ opened /\ shown # <<>> /\ shown \in Seq(Messages)
      /\ \A m \in Messages : row[m] # "old" /\ time[m] \in Nat
      /\ atOpening \subseteq Messages /\ \A m \in atOpening : row[m] # "unborn"
      /\ opened \in BOOLEAN
  BY <1>1 DEF PagesInv, ClosedIsEmpty, NothingIsOld, ShownAreStamped, HistoryTypeOK
<1>3. \A m : m \in rows <=> m \in Stored /\ time[m] < time[shown[1]]
  BY <1>2, StoredRows DEF OlderThan, Before
<1>. HIDE DEF rows
<1>4. 1 \in DOMAIN shown /\ \A i \in DOMAIN shown : i \in Nat \ {0} /\ shown[i] \in Messages
  BY <1>2
<1>5. ASSUME NEW m \in rows, NEW i \in DOMAIN shown
      PROVE  time[m] < time[shown[i]]
  <2>1. time[shown[1]] <= time[shown[i]]
    <3>1. CASE i = 1
      BY <1>2, <1>4, <3>1
    <3>2. CASE i # 1
      BY <1>4, <3>2 DEF PagesInv, PagesFitTogether
    <3>. QED
      BY <3>1, <3>2
  <2>2. m \in Messages /\ time[m] < time[shown[1]]
    BY <1>3, StoredRows
  <2>. QED
    BY <1>2, <1>4, <2>1, <2>2
<1>6. ASSUME NEW m \in atOpening' \cap Stored
      PROVE  \/ m \in rows
             \/ IsShownIn(m, shown)
             \/ misled
             \/ \E i \in DOMAIN shown : time[shown[i]] = time[m]
  <2>1. \/ m \in ToSet(shown)
        \/ misled
        \/ more /\ time[m] < time[shown[1]]
        \/ \E k \in ToSet(shown) : time[k] = time[m]
    BY <1>1 DEF PagesInv, OnlyTiesAreMissed
  <2>. QED
    BY <1>3, <2>1, ShownSet DEF IsShownIn
<1>7. CursorSeparates(rows, atOpening')
  BY <1>3, <1>5, <1>6 DEF CursorSeparates
<1>. QED
  BY <1>1, <1>2, <1>7, AnswerPreserves

\* The steps that neither change what the client shows nor its view of the rows.
LEMMA StartUpPreserves ==
  ASSUME PagesInv,
         \/ \E m \in Messages : MigrateRow(m)
         \/ Serve \/ RestartServer \/ ClockMoves
  PROVE  PagesInv'
<1>1. /\ HistoryTypeOK /\ NothingIsOld /\ ShownAreStamped /\ ClosedIsEmpty
      /\ PagesFitTogether /\ OnlyTiesAreMissed
  BY DEF PagesInv
<1>2. /\ time' = time /\ shown' = shown /\ opened' = opened /\ more' = more
      /\ atOpening' = atOpening /\ misled' = misled
  BY DEF MigrateRow, Serve, RestartServer, ClockMoves,
         client, table
<1>3. HistoryTypeOK'
  <2>1. CASE \E m \in Messages : MigrateRow(m)
    BY <1>1, <1>2, <2>1 DEF MigrateRow, HistoryTypeOK, server
  <2>2. CASE Serve
    BY <1>1, <1>2, <2>2 DEF Serve, HistoryTypeOK, table
  <2>3. CASE RestartServer
    <3>1. row' = row /\ clock' = clock /\ serving' = FALSE /\ crashes' = crashes + 1
          /\ crashes < MaxCrashes /\ crashes \in 0..MaxCrashes
      BY <1>1, <2>3 DEF RestartServer, HistoryTypeOK, table
    <3>2. crashes' \in 0..MaxCrashes
      BY HistoryAssumption, <3>1
    <3>. QED
      BY <1>1, <1>2, <3>1, <3>2 DEF HistoryTypeOK
  <2>4. CASE ClockMoves
    BY <1>1, <1>2, <2>4 DEF ClockMoves, HistoryTypeOK, table
  <2>. QED
    BY <2>1, <2>2, <2>3, <2>4
<1>4. \A m \in Messages : /\ row'[m] \in {"old", "new"} <=> row[m] \in {"old", "new"}
                          /\ row'[m] = "unborn" <=> row[m] = "unborn"
                          /\ row'[m] = "old" => row[m] = "old"
  BY <1>1 DEF MigrateRow, Serve, RestartServer, ClockMoves, table,
              HistoryTypeOK
<1>5. NothingIsOld'
  <2>1. CASE \E m \in Messages : MigrateRow(m)
    BY <1>1, <1>2, <1>4, <2>1 DEF MigrateRow, NothingIsOld, server
  <2>2. CASE Serve
    BY <2>2 DEF Serve, NothingIsOld, table
  <2>3. CASE RestartServer \/ ClockMoves
    BY <1>1, <1>2, <1>4, <2>3 DEF RestartServer, ClockMoves, NothingIsOld
  <2>. QED
    BY <2>1, <2>2, <2>3
<1>6. ShownAreStamped'
  <2>1. \A i \in DOMAIN shown : shown[i] \in Messages
    BY <1>1 DEF HistoryTypeOK
  <2>2. atOpening \subseteq Messages
    BY <1>1 DEF HistoryTypeOK
  <2>. QED
    BY <1>1, <1>2, <1>4, <2>1, <2>2 DEF ShownAreStamped
<1>7. ClosedIsEmpty' /\ PagesFitTogether'
  BY <1>1, <1>2 DEF ClosedIsEmpty, PagesFitTogether
<1>8. OnlyTiesAreMissed'
  <2>1. Stored' = Stored
    BY <1>4 DEF Stored
  <2>. QED
    BY <1>1, <1>2, <2>1 DEF OnlyTiesAreMissed, ToSet
<1>. QED
  BY <1>3, <1>5, <1>6, <1>7, <1>8 DEF PagesInv

LEMMA StorePreserves ==
  ASSUME PagesInv, NEW m \in Messages, StoreMessage(m)
  PROVE  PagesInv'
<1>1. /\ HistoryTypeOK /\ NothingIsOld /\ ShownAreStamped /\ ClosedIsEmpty
      /\ PagesFitTogether /\ OnlyTiesAreMissed
  BY DEF PagesInv
<1>2. /\ serving /\ row[m] = "unborn"
      /\ row' = [row EXCEPT ![m] = "new"] /\ time' = [time EXCEPT ![m] = clock]
      /\ clock' = clock /\ serving' = serving /\ crashes' = crashes
      /\ shown' = shown /\ opened' = opened /\ more' = more
      /\ atOpening' = atOpening /\ misled' = misled
  BY DEF StoreMessage, server, client
<1>3. HistoryTypeOK'
  BY <1>1, <1>2 DEF HistoryTypeOK
<1>4. /\ row'[m] = "new"
      /\ \A x \in Messages \ {m} : row'[x] = row[x] /\ time'[x] = time[x]
  BY <1>1, <1>2 DEF HistoryTypeOK
<1>5. /\ \A i \in DOMAIN shown : shown[i] \in Messages \ {m}
      /\ \A x \in atOpening : x \in Messages \ {m}
  BY <1>1, <1>2 DEF HistoryTypeOK, ShownAreStamped
<1>6. NothingIsOld'
  BY <1>1, <1>2, <1>4 DEF NothingIsOld
<1>7. ShownAreStamped'
  BY <1>1, <1>2, <1>4, <1>5 DEF ShownAreStamped
<1>8. ClosedIsEmpty'
  BY <1>1, <1>2 DEF ClosedIsEmpty
<1>9. PagesFitTogether'
  BY <1>1, <1>2, <1>4, <1>5 DEF PagesFitTogether
<1>10. OnlyTiesAreMissed'
  <2>1. SUFFICES ASSUME NEW x \in atOpening, x \in Stored'
                 PROVE  \/ x \in ToSet(shown)
                        \/ misled
                        \/ more /\ time'[x] < time'[shown[1]]
                        \/ \E k \in ToSet(shown) : time'[k] = time'[x]
    BY <1>2 DEF OnlyTiesAreMissed, ToSet
  <2>2. x \in Messages \ {m} /\ x \in Stored
    BY <1>4, <1>5, <2>1 DEF Stored
  <2>3. \/ x \in ToSet(shown)
        \/ misled
        \/ more /\ time[x] < time[shown[1]]
        \/ \E k \in ToSet(shown) : time[k] = time[x]
    BY <1>1, <2>1, <2>2 DEF OnlyTiesAreMissed
  <2>4. more => time'[shown[1]] = time[shown[1]]
    <3>1. more => 1 \in DOMAIN shown
      BY <1>1 DEF ClosedIsEmpty, HistoryTypeOK
    <3>. QED
      BY <1>4, <1>5, <3>1
  <2>5. \A k \in ToSet(shown) : time'[k] = time[k]
    BY <1>4, <1>5, ShownSet DEF IsShownIn
  <2>. QED
    BY <1>4, <2>2, <2>3, <2>4, <2>5
<1>. QED
  BY <1>3, <1>6, <1>7, <1>8, <1>9, <1>10 DEF PagesInv

LEMMA DeletePreserves ==
  ASSUME PagesInv, DeleteHistory
  PROVE  PagesInv'
<1>1. /\ HistoryTypeOK /\ NothingIsOld /\ ShownAreStamped /\ ClosedIsEmpty
      /\ PagesFitTogether
  BY DEF PagesInv
<1>2. /\ serving
      /\ row' = [m \in Messages |-> IF m \in Stored THEN "deleted" ELSE row[m]]
      /\ time' = time /\ clock' = clock /\ serving' = serving /\ crashes' = crashes
      /\ shown' = shown /\ opened' = opened /\ more' = more
      /\ atOpening' = atOpening /\ misled' = misled
  BY DEF DeleteHistory, server, client
<1>3. \A m \in Messages : /\ row'[m] \in {"unborn", "deleted"}
                          /\ row'[m] = "unborn" <=> row[m] = "unborn"
  BY <1>1, <1>2, StoredRows DEF HistoryTypeOK
<1>4. row' \in [Messages -> {"unborn", "old", "new", "deleted"}]
  BY <1>2, <1>3
<1>5. HistoryTypeOK'
  BY <1>1, <1>2, <1>4 DEF HistoryTypeOK
<1>6. NothingIsOld'
  BY <1>3 DEF NothingIsOld
<1>7. ShownAreStamped'
  <2>1. (\A i \in DOMAIN shown : shown[i] \in Messages) /\ atOpening \subseteq Messages
    BY <1>1 DEF HistoryTypeOK
  <2>. QED
    BY <1>1, <1>2, <1>3, <2>1 DEF ShownAreStamped
<1>8. ClosedIsEmpty' /\ PagesFitTogether'
  BY <1>1, <1>2 DEF ClosedIsEmpty, PagesFitTogether
<1>9. OnlyTiesAreMissed'
  <2>1. Stored' = {}
    BY <1>3 DEF Stored
  <2>. QED
    BY <2>1 DEF OnlyTiesAreMissed
<1>. QED
  BY <1>5, <1>6, <1>7, <1>8, <1>9 DEF PagesInv

LEMMA PagesStep ==
  ASSUME PagesInv, [HistoryNext]_historyVars
  PROVE  PagesInv'
<1>1. CASE HistoryNext
  <2>1. DbMayFail \in BOOLEAN
    BY HistoryAssumption
  <2>2. CASE \E m \in Messages : StoreMessage(m)
    BY <2>2, StorePreserves
  <2>3. CASE DeleteHistory
    BY <2>3, DeletePreserves
  <2>4. CASE \E failed \in {FALSE, DbMayFail} : OpenHistory(failed)
    BY <2>1, <2>4, OpenPreserves
  <2>5. CASE \E failed \in {FALSE, DbMayFail} : LoadMore(failed)
    BY <2>1, <2>5, LoadPreserves
  <2>6. CASE \/ \E m \in Messages : MigrateRow(m)
             \/ Serve \/ RestartServer \/ ClockMoves
    BY <2>6, StartUpPreserves
  <2>. QED
    BY <1>1, <2>2, <2>3, <2>4, <2>5, <2>6 DEF HistoryNext
<1>2. CASE UNCHANGED historyVars
  BY <1>2 DEF historyVars, table, server, client, PagesInv, HistoryTypeOK,
              NothingIsOld, ShownAreStamped, ClosedIsEmpty, PagesFitTogether,
              OnlyTiesAreMissed, Stored, ToSet
<1>. QED
  BY <1>1, <1>2

-----------------------------------------------------------------------------
(* The theorems about the pages *)

\* The invariant of the pages, over migrations, restarts, deletions and failing queries.
THEOREM PagesInvariant == HistorySpec => []PagesInv
<1>1. HistoryInit => PagesInv
  BY PagesStart
<1>2. PagesInv /\ [HistoryNext]_historyVars => PagesInv'
  BY PagesStep
<1>. QED
  BY <1>1, <1>2, PTL DEF HistorySpec

\* The pages a client has put together are chronological and show no message twice,
\* whatever is stored and however the clock is set between them.
THEOREM PagesAreChronological == HistorySpec => [](HistoryTypeOK /\ PagesFitTogether)
<1>1. PagesInv => HistoryTypeOK /\ PagesFitTogether
  BY DEF PagesInv
<1>. QED
  BY <1>1, PagesInvariant, PTL

\* A message there was at the opening, and still is, is on the page, or older and announced
\* by hasMore, unless a query failed or it was stored in the same millisecond as one shown.
THEOREM OnlyTiesAndFailuresHide == HistorySpec => []OnlyTiesAreMissed
<1>1. PagesInv => OnlyTiesAreMissed
  BY DEF PagesInv
<1>. QED
  BY <1>1, PagesInvariant, PTL
=============================================================================
