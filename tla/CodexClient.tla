---------------------------- MODULE CodexClient ----------------------------
(***************************************************************************)
(* The client of the ChatGPT subscription (harness/llm/clients/openaicodex):*)
(* credentials come from the environment or from the auth file of another   *)
(* program, which renews that file at any time; they are read once, when    *)
(* the client is made, and used until it is closed.                         *)
(***************************************************************************)
EXTENDS Naturals, FiniteSets

CONSTANTS
    Tokens,       \* tokens: [name, kind, account, expires]
    Environments, \* [token, account, file]: what is set in the environment
    Files,        \* contents of the auth file: [ok, token, account]
    None,         \* not set, not claimed
    MaxTime, MaxRenewals

VARIABLES
    env, file,
    client,   \* the client: [token, account], or None
    sent,     \* history: credentials that were sent, and when
    refused,  \* the last answer was 401
    now, renewals

vars == <<env, file, client, sent, refused, now, renewals>>

Init ==
    /\ env \in Environments /\ file \in Files
    /\ client = None /\ sent = {} /\ refused = FALSE
    /\ now = 1 /\ renewals = 0

(* EnvironmentConfig: a file and inline credentials exclude each other;     *)
(* with neither, the auth file of the Codex home is read.                   *)
FromFile == env.token = None /\ env.account = None

Conflict == env.file /\ ~FromFile

Token == IF FromFile THEN file.token ELSE env.token

GivenAccount == IF FromFile THEN file.account ELSE env.account

(* tokenClaims: only a token with claims says whose it is and until when.   *)
Claimed(t) == IF t.kind = "claims" THEN t.account ELSE None

Expired(t) == t.kind = "claims" /\ t.expires # 0 /\ now >= t.expires

(* A new client takes no token that has expired.                            *)
Unexpired(t) == ~Expired(t)

(* The account that was given and the one the token claims are the same.    *)
SameAccount(t, account) == account = None \/ Claimed(t) = None \/ account = Claimed(t)

Account(t, account) == IF account = None THEN Claimed(t) ELSE account

(* Config.credentials. *)
Usable ==
    /\ ~Conflict
    /\ FromFile => file.ok
    /\ Token # None
    /\ Token.kind \notin {"api key", "malformed"}
    /\ Unexpired(Token)
    /\ SameAccount(Token, GivenAccount)
    /\ Account(Token, GivenAccount) # None

Snapshot == [token |-> Token, account |-> Account(Token, GivenAccount)]

NewClient ==
    /\ client = None
    /\ client' = IF Usable THEN Snapshot ELSE None
    /\ refused' = FALSE
    /\ UNCHANGED <<env, file, sent, now, renewals>>

(* The headers are those of the client. *)
Headers == client

(* Respond sends nothing when the context is done or the request limits the *)
(* output. The service refuses an expired token, and may refuse any other,  *)
(* which was revoked; the error says to renew it and to make a new client.  *)
Respond ==
    /\ client # None
    /\ \/ refused' = FALSE /\ UNCHANGED sent
       \/ /\ sent' = sent \cup {Headers}
          /\ refused' \in {TRUE, Expired(Headers.token)}
    /\ UNCHANGED <<env, file, client, now, renewals>>

Close ==
    /\ client # None
    /\ client' = None /\ refused' = FALSE
    /\ UNCHANGED <<env, file, sent, now, renewals>>

(* The other program renews its login, perhaps for another account.         *)
Renew ==
    /\ renewals < MaxRenewals
    /\ renewals' = renewals + 1
    /\ file' \in Files
    /\ UNCHANGED <<env, client, sent, refused, now>>

Tick ==
    /\ now < MaxTime
    /\ now' = now + 1
    /\ UNCHANGED <<env, file, client, sent, refused, renewals>>

Next == NewClient \/ Respond \/ Close \/ Renew \/ Tick

Spec == Init /\ [][Next]_vars

-----------------------------------------------------------------------------
(* Properties. *)

(* No request carries the token of one account and the name of another,     *)
(* whichever source each came from and however often the auth file changed. *)
TokenOfAccount == \A s \in sent : s.account # None /\ (Claimed(s.token) # None => Claimed(s.token) = s.account)

(* A client that is refused because its token has expired would not be made *)
(* again as it is: making a new one either takes renewed credentials or     *)
(* says that they have expired. A token that was revoked before its time is *)
(* taken again, for nothing in it tells.                                    *)
RefusedIsNotRemade == refused /\ Expired(client.token) /\ Usable => Snapshot # client
=============================================================================
