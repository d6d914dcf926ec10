-------------------------------- MODULE Access --------------------------------
(***************************************************************************)
(* Logins and the requests made with them: the server keeps no sessions, a  *)
(* token is a date of expiry and a signature under AUTH_SECRET, and whether *)
(* a request passes is computed from the token it carries, the clock and    *)
(* the configuration of the process, which a restart may change.            *)
(*                                                                         *)
(* One client is enough, as the server does not tell clients apart.  It     *)
(* keeps a token in its cookie and another one for the Authorization        *)
(* header, from logins or of its own making: with a text it knows it signs  *)
(* as well as the server does.                                              *)
(***************************************************************************)
EXTENDS Integers

CONSTANTS
    Passwords,  \* values of AUTH_PASSWORD, and of the passwords that users type
    Secrets,    \* values of AUTH_SECRET
    Known,      \* texts that the client knows without having been told a secret
    Empty,      \* the empty text
    Unset,      \* an environment variable that is not set
    Lifetime,   \* TOKEN_EXPIRY_MS
    MaxTime     \* bound on the clock

\* The secret that is made from a password.
Derived(password) == <<"claw-auth", password>>

\* AUTH_SECRET may be any text, also one that is made from a password, and either variable
\* may be set to the empty text.
Texts == Secrets \cup {Empty} \cup {Derived(w) : w \in Passwords \cup {Empty}}

ASSUME AccessAssumption ==
    /\ Unset \notin Passwords \cup Texts
    /\ Empty \in Passwords
    /\ Known \subseteq Texts
    /\ {Empty, Derived(Empty)} \subseteq Known
    /\ Lifetime \in Nat \ {0}
    /\ MaxTime \in Nat

VARIABLES
    now,      \* the system clock
    config,   \* the settings of the running process
    held,     \* [Places -> the token the client keeps there]
    answer,   \* the answer to its last request
    login     \* history: [Places -> when the token was issued, and under which settings]

vars == <<now, config, held, answer, login>>

Places == {"cookie", "bearer"}

Public == {"health", "auth/status", "auth/login", "auth/logout", "auth/verify"}

\* The routes added before the layer of auth_middleware, which are all the others.
Guarded ==
    {"chat", "sessions", "history", "tasks", "notifications", "soul", "groups", "search",
     "file", "upload"}

Routes == Public \cup Guarded

Settings ==
    [enabled : BOOLEAN, password : Passwords \cup {Unset}, variable : Secrets \cup {Unset}]

\* Mutant: the variable is used only when there is no password to derive the secret from.
SecretOfPassword(c) ==
    IF c.password # Unset THEN Derived(c.password)
    ELSE IF c.variable # Unset THEN c.variable ELSE Empty

\* auth_secret: AUTH_SECRET, or else a text made from the password, or else the empty one.
Secret(c) ==
    IF c.variable # Unset THEN c.variable
    ELSE IF c.password # Unset THEN Derived(c.password) ELSE Empty

\* auth_password, where one that is not set is empty.
Expected(c) == IF c.password = Unset THEN Empty ELSE c.password

Tokens == [exp : Nat, key : Texts]

\* What a place without a signed token has: nothing, or the token of a login made while
\* authentication was disabled, which is no signed token.
Absent == [kind |-> "absent"]
Unsigned == [kind |-> "none"]

NoToken == {Absent, Unsigned}

\* Tokens are issued only where a password is set.
Issued == [at : Nat, settings : {c \in Settings : c.enabled /\ Expected(c) # Empty}]

Never == [kind |-> "never"]

TypeOK ==
    /\ now \in 0..MaxTime
    /\ config \in Settings
    /\ held \in [Places -> Tokens \cup NoToken]
    /\ answer \in {"nothing", "ok", "unauthorized"}
    /\ login \in [Places -> Issued \cup {Never}]
    /\ \A p \in Places : held[p] \in NoToken => login[p] = Never

Init ==
    /\ now = 0
    /\ config \in Settings
    /\ held = [p \in Places |-> Absent]
    /\ answer = "nothing"
    /\ login = [p \in Places |-> Never]

-----------------------------------------------------------------------------
(* login, logout *)

\* generate_token
GenerateToken == [exp |-> now + Lifetime, key |-> Secret(config)]

Keep(p, token, from) ==
    /\ held' = [held EXCEPT ![p] = token]
    /\ login' = [login EXCEPT ![p] = from]
    /\ UNCHANGED <<now, config, answer>>

\* Mutant: a request without a password is let in when none is set, which is as empty.
LoginUnchecked(p, typed) ==
    IF config.enabled
    THEN /\ typed = Expected(config)
         /\ Keep(p, GenerateToken, [at |-> now, settings |-> config])
    ELSE Keep(p, Unsigned, Never)

\* login: a token for the right password, when one is set; in every other case an error,
\* which changes nothing.  The client keeps the token where it likes.
Login(p, typed) ==
    IF config.enabled
    THEN /\ Expected(config) # Empty
         /\ typed = Expected(config)
         /\ Keep(p, GenerateToken, [at |-> now, settings |-> config])
    ELSE Keep(p, Unsigned, Never)

\* logout does nothing: it is the client that clears its cookie.
Logout(p) == Keep(p, Absent, Never)

\* The client makes a token itself, under a text that it knows.
Sign(p, key, exp) == Keep(p, [exp |-> exp, key |-> key], Never)

-----------------------------------------------------------------------------
(* Requests *)

\* verify_token: the signature is made with the secret of now, and exp > now.
VerifyToken(token) ==
    token \notin NoToken /\ token.key = Secret(config) /\ token.exp > now

\* extract_token: a cookie that is not empty comes before the header, valid or not.
ExtractToken == IF held["cookie"] # Absent THEN held["cookie"] ELSE held["bearer"]

Answers(passes) ==
    /\ answer' = IF passes THEN "ok" ELSE "unauthorized"
    /\ UNCHANGED <<now, config, held, login>>

\* auth_middleware, and the routes it does not guard.
Request(route) ==
    Answers(route \notin Guarded \/ ~config.enabled \/ VerifyToken(ExtractToken))

\* GET /api/auth/verify looks at the token it is given, wherever that is kept.
Verify(p) == Answers(~config.enabled \/ VerifyToken(held[p]))

-----------------------------------------------------------------------------
(* The environment *)

\* Time goes on, or the clock is set.
SetClock(t) == now' = t /\ UNCHANGED <<config, held, answer, login>>

\* The process is started again, with other settings or the same; tokens live on.
Restart(c) == config' = c /\ UNCHANGED <<now, held, answer, login>>

Next ==
    \/ \E p \in Places :
          \/ \E typed \in Passwords : Login(p, typed)
          \/ \E key \in Known, exp \in 0..MaxTime + Lifetime : Sign(p, key, exp)
          \/ Logout(p) \/ Verify(p)
    \/ \E route \in Routes : Request(route)
    \/ \E t \in 0..MaxTime : SetClock(t)
    \/ \E c \in Settings : Restart(c)

Spec == Init /\ [][Next]_vars

-----------------------------------------------------------------------------
(* Properties *)

\* The process with these settings signs with this text: the one of the variable or,
\* without one, that of the password or, without either, the empty one.
SignsWith(c, text) ==
    \/ text = c.variable
    \/ c.variable = Unset /\ c.password # Unset /\ text = Derived(c.password)
    \/ c.variable = Unset /\ c.password = Unset /\ text = Empty

\* The login that the token in a place came from still counts: its lifetime is not over,
\* and the process signs with the text it signed with then.
LoginCounts(p) ==
    /\ login[p] # Never
    /\ now - login[p].at < Lifetime
    /\ \E text \in Texts : SignsWith(config, text) /\ SignsWith(login[p].settings, text)

\* The process signs with a text that the client knows: the settings name neither a secret
\* nor a password, or an empty one, or one of them has become known.
SecretIsKnown == \E text \in Known : SignsWith(config, text)

\* The answer that the login of the token in this place calls for.  A client that knows the
\* secret needs no login; to others only a login that counts opens the guarded routes.
FollowsLogin(p) ==
    /\ ~config.enabled \/ LoginCounts(p) => answer' = "ok"
    /\ answer' = "ok" => ~config.enabled \/ LoginCounts(p) \/ SecretIsKnown

\* Logins outlive restarts as long as the secret stays, and no longer than their lifetime:
\* when authentication is enabled, under a secret that the client does not know, every route
\* but the public ones answers exactly the requests whose login counts, the cookie's if there
\* is one; without authentication all do; and the verify route gives the same verdict as a
\* request that carries the token.
AccessFollowsLogin ==
    [][/\ \A route \in Routes \ Public :
             Request(route) =>
                FollowsLogin(IF held["cookie"] # Absent THEN "cookie" ELSE "bearer")
       /\ \A p \in Places : Verify(p) => FollowsLogin(p)]_vars
=============================================================================
