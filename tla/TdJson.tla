------------------------------- MODULE TdJson -------------------------------
(***************************************************************************)
(* The vocabulary the probe and TDLib exchange over the JSON interface     *)
(* (tdlib_live.rs): authorization states, requests, "@extra" tags and the  *)
(* lines td_receive returns.  A line keeps the fields the code looks at:   *)
(* "@client_id", "@type", "@extra" and one body (the authorization state   *)
(* it carries, or whether its "seconds" field parses).                     *)
(***************************************************************************)
EXTENDS Naturals

\* The states in which the code asks the user for something, and what it asks.
LoginRequest ==
  [WaitPhoneNumber  |-> "setAuthenticationPhoneNumber",
   WaitCode         |-> "checkAuthenticationCode",
   WaitEmailAddress |-> "setAuthenticationEmailAddress",
   WaitEmailCode    |-> "checkAuthenticationEmailCode",
   WaitPassword     |-> "checkAuthenticationPassword"]

LoginStates == {"WaitPhoneNumber", "WaitCode", "WaitEmailAddress",
                "WaitEmailCode", "WaitPassword"}

LoginRequests == {LoginRequest[s] : s \in LoginStates}

\* authorizationState*: "Other" stands for every state no arm of the code names.
AuthStates == LoginStates \cup {"WaitTdlibParameters", "Ready", "Closed", "Other"}

Requests == LoginRequests \cup
  {"getAuthorizationState", "setTdlibParameters", "addProxy", "pingProxy",
   "loadChats", "getChats", "getChat", "getMe", "getChatMember", "close"}

\* next_extra: the request's name and the value of EXTRA_COUNTER.  The wall
\* clock in the middle of the tag adds nothing to its uniqueness.
Extra(req, n) == [req |-> req, n |-> n]

\* Numbers given by next_extra start at 1; 0 tags the requests of an earlier
\* probe of the same process.
Extras == [req : Requests, n : Nat]

\* An Option<String> holding an extra, and the value it has when it is None.
None == [req |-> "none", n |-> 0]
OptExtras == Extras \cup {None}

AuthTypes == {"updateAuthorizationState", "authorizationState"}

\* "proxy" stands for addedProxy and proxy, "update" for every update the code
\* does not look at, "malformed" for bytes that are not JSON.
LineTypes == AuthTypes \cup {"error", "ok", "proxy", "seconds", "update", "malformed"}

Bodies == AuthStates \cup {"none", "parsable", "unparsable"}

Lines ==
  {l \in [client : {"this", "old", "absent"}, type : LineTypes, body : Bodies,
          extra : OptExtras] : l.type \in AuthTypes => l.body \in AuthStates}

JsonLine(client, type, body, extra) ==
  [client |-> client, type |-> type, body |-> body, extra |-> extra]

\* Mutant of client_matches: lines of every client are taken.
client_matches_all(line) == TRUE

\* client_matches: an untagged line is accepted.
client_matches(line) == line.client # "old"

\* Mutant of note_auth_from_value: any line's body is taken for a state.
note_any_body(line, auth) == line.body

\* auth_state_from_update / note_auth_from_value: what a line says of the
\* authorization state, if it says anything.
note_auth_from_value(line, auth) ==
  IF line.type \in AuthTypes THEN line.body ELSE auth

=============================================================================
