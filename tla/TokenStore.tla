----------------------------- MODULE TokenStore -----------------------------
(***************************************************************************)
(* The Upstox credential (apps/upstox_auth): one active row that every     *)
(* program reads and that a sign-in or a refresh overwrites, and the quote *)
(* worker's client (providers/upstox_client.py), which looks at the row    *)
(* again once a minute.  A token is a number in the order of issue;        *)
(* UPSTOX_ANALYTICS_TOKEN and UPSTOX_ACCESS_TOKEN are not set.             *)
(***************************************************************************)
EXTENDS Integers

CONSTANT MaxTokens    \* the last token is issued again and lives for ever

ASSUME MaxTokensAssumption == MaxTokens \in Nat \ {0}

VARIABLES token,      \* the newest active row, <<>> when there is none
          issued,     \* the newest token the provider has issued
          valid,      \* the tokens the provider accepts
          aged,       \* the tokens with at most 300 s to their expiry
          client      \* the worker's client

tokenVars == <<token, issued, valid, aged>>

Tokens == 1..MaxTokens
None == <<>>
Row == [access : Tokens, expires : BOOLEAN]

(* call is where the client is between quote() and its request; access is  *)
(* 0 before the first token, fetched what a refresh has answered.          *)
Client == [access : 0..MaxTokens, due : BOOLEAN, fetched : 0..MaxTokens, expires : BOOLEAN,
           call : {"none", "renewing", "storing", "ready", "raised"}]
NewClient == [access |-> 0, due |-> TRUE, fetched |-> 0, expires |-> FALSE, call |-> "none"]

TokenTypeOK ==
    /\ token \in {None} \cup {<<r>> : r \in Row}
    /\ issued \in 0..MaxTokens
    /\ valid \subseteq Tokens
    /\ aged \subseteq Tokens
    /\ client \in Client
    /\ client.call = "storing" => client.fetched # 0

TokenInit ==
    /\ token = None
    /\ issued = 0
    /\ valid = {}
    /\ aged = {}
    /\ client = NewClient

NextToken == IF issued < MaxTokens THEN issued + 1 ELSE MaxTokens

Issue ==
    /\ issued' = NextToken
    /\ valid' = valid \cup {NextToken}
    /\ UNCHANGED aged

(* An expiry the provider did not give never asks for a refresh.           *)
NeedsRefresh(row) == row.expires /\ row.access \in aged

(* The newest active row is overwritten, whoever wrote it and whenever.  A *)
(* row always has a refresh token: its column is NOT NULL.                 *)
SaveToken(access, expires) == token' = <<[access |-> access, expires |-> expires]>>

-----------------------------------------------------------------------------
(* The provider and its user.                                              *)

(* The sign-in's callback.  Without a refresh_token in the answer the save *)
(* fails and the row stays as it was.                                      *)
Login(renewable) ==
    /\ Issue
    /\ IF renewable THEN \E expires \in BOOLEAN : SaveToken(NextToken, expires)
       ELSE UNCHANGED token
    /\ UNCHANGED client

TokenAges(t) ==
    /\ t \in valid \ aged /\ t < MaxTokens
    /\ aged' = aged \cup {t}
    /\ UNCHANGED <<token, issued, valid, client>>

(* Expired, or revoked before its time.                                    *)
TokenDies(t) ==
    /\ t \in valid /\ t < MaxTokens
    /\ valid' = valid \ {t}
    /\ UNCHANGED <<token, issued, aged, client>>

-----------------------------------------------------------------------------
(* The client on its way to a request.                                     *)

Goto(call) == client' = [client EXCEPT !.call = call]

(* _ensure_configured, resolve and the first half of refresh_if_required:  *)
(* a client whose check raised stays due.                                  *)
EnsureConfigured ==
    /\ client.call = "none"
    /\ \/ ~client.due /\ Goto("ready")
       \/ client.due /\ token = None /\ Goto("raised")
       \/ client.due /\ token # None /\ NeedsRefresh(token[1]) /\ Goto("renewing")
       \/ /\ client.due /\ token # None /\ ~NeedsRefresh(token[1])
          /\ client' = [client EXCEPT !.call = "ready", !.access = token[1].access, !.due = FALSE]
    /\ UNCHANGED tokenVars

(* The token endpoint: an answer without access_token raises.              *)
RenewAnswered ==
    /\ client.call = "renewing"
    /\ \/ /\ Goto("raised")
          /\ UNCHANGED tokenVars
       \/ /\ Issue
          /\ \E expires \in BOOLEAN :
                client' = [client EXCEPT !.call = "storing", !.fetched = NextToken,
                                         !.expires = expires]
          /\ UNCHANGED token

(* Saved in a transaction of its own, over whatever a sign-in saved        *)
(* meanwhile.                                                              *)
RenewStored ==
    /\ client.call = "storing"
    /\ SaveToken(client.fetched, client.expires)
    /\ client' = [NewClient EXCEPT !.call = "ready", !.access = client.fetched, !.due = FALSE]
    /\ UNCHANGED <<issued, valid, aged>>

(* TOKEN_CHECK_INTERVAL_SECONDS have passed.                               *)
RecheckDue ==
    /\ client.access # 0 /\ ~client.due
    /\ client' = [client EXCEPT !.due = TRUE]
    /\ UNCHANGED tokenVars

Accepted == client.call = "ready" /\ client.access \in valid
=============================================================================
