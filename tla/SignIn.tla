-------------------------------- MODULE SignIn --------------------------------
(***************************************************************************)
(* What lets somebody in, and for how long: the addresses that may sign in, *)
(* the throttle on passwords and the mail about it, the tickets that hand a *)
(* signed-in person over to the desktop console or the companion app, the   *)
(* codes that link the companion app, and the API keys (server/app/main.py, *)
(* auth.py, database.py).                                                    *)
(*                                                                         *)
(* All but the keys and the settings is in the memory of one process and is *)
(* lost when it stops.  Every handler here goes on without waiting once it  *)
(* has the request's body, so a request is one step; only save_settings     *)
(* matters before, and is one step as well.  The clock counts parts of a    *)
(* second, since signed tickets are stamped in whole seconds.               *)
(*                                                                         *)
(* Its names are not those of Accounts, for the theorems are about both.   *)
(***************************************************************************)
EXTENDS Naturals, Sequences, FiniteSets

CONSTANTS
  Addresses,
  Keys,        \* keys of the throttle: an address and a user name
  Tickets, Codes, KeyIds, Docs,
  Nil,
  Second,      \* ticks of the clock in a second
  Window,      \* LOGIN_WINDOW, in ticks
  MaxFails,    \* LOGIN_MAX_FAILS
  AlertFails,  \* RMM_LOGIN_ALERT_FAILS
  Quiet,       \* RMM_LOGIN_ALERT_QUIET, in ticks
  TicketSeconds,  \* APP_TICKET_SECONDS
  PairTTL,     \* PAIR_TTL, in ticks
  MaxTime, MaxRequests  \* bounds

ASSUME TimesAssumption ==
  /\ Second \in Nat \ {0} /\ TicketSeconds \in Nat /\ PairTTL \in Nat
  /\ Window \in Nat /\ Quiet \in Nat /\ MaxTime \in Nat /\ MaxRequests \in Nat
  /\ MaxFails \in Nat \ {0} /\ AlertFails \in Nat \ {0}
ASSUME NoTimeAssumption == Nil \notin Nat

VARIABLES
  now,
  rules,     \* the settings about addresses: [allow, deny, trust]
  fails,     \* _login_fails: when sign-ins failed, by key
  alerted,   \* _login_alerted: when a key was last reported, or Nil
  issued,    \* issued[t]: when the ticket was stamped, or Nil
  nonce,     \* _used_tickets: until when a redeemed ticket is remembered
  pairing,   \* _pairings: [doc, expires] by code, or Nil
  key,       \* api_keys: [name, all, on] by id, or Nil
  requests,
  tried,     \* the failures of each key since it last got in, or a restart
  honoured,  \* when a ticket was last accepted since the last restart, or Nil
  linked     \* the ids of the keys that linking has made

memory == <<fails, alerted, nonce, pairing>>
past == <<tried, honoured, linked>>
signInVars == <<now, rules, memory, issued, key, requests, past>>

SignInInit ==
  /\ now = 0
  /\ rules = [allow |-> {}, deny |-> {}, trust |-> FALSE]
  /\ fails = [k \in Keys |-> <<>>]
  /\ alerted = [k \in Keys |-> Nil]
  /\ issued = [t \in Tickets |-> Nil]
  /\ nonce = [t \in Tickets |-> Nil]
  /\ pairing = [c \in Codes |-> Nil]
  /\ key = [i \in KeyIds |-> Nil]
  /\ requests = 0
  /\ tried = [k \in Keys |-> <<>>]
  /\ honoured = [t \in Tickets |-> Nil]
  /\ linked = {}

Move == requests < MaxRequests /\ requests' = requests + 1 /\ UNCHANGED now

-----------------------------------------------------------------------------
(* Addresses.                                                              *)

\* A request, from the address that connects and, through a proxy, with the
\* addresses it was forwarded for.
Callers == [peer : Addresses, hops : {<<>>} \cup {<<a>> : a \in Addresses}]

\* client_ip, with RMM_PROXY_IPS left as it is
client_ip(s, caller) ==
  IF s.trust /\ caller.hops # <<>> THEN caller.hops[Len(caller.hops)] ELSE caller.peer

\* ip_filtering_on and ip_allowed
ip_allowed(s, a) == a \notin s.deny /\ (s.allow = {} \/ a \in s.allow)

\* _guard_ip
Guarded(caller) == ip_allowed(rules, client_ip(rules, caller))

\* save_settings of a form: the address that the request comes from by the
\* settings as they are must be let in by the lists, where the form has them.
SaveSettings(caller, form, listed) ==
  /\ Move
  /\ IF listed THEN ip_allowed(form, client_ip(rules, caller))
               ELSE form.allow = rules.allow /\ form.deny = rules.deny
  /\ rules' = form
  /\ UNCHANGED <<memory, issued, key, past>>

-----------------------------------------------------------------------------
(* The throttle.                                                           *)

\* The failures that are not too long ago.
Recent(times) ==
  LET kept[n \in 0 .. Len(times)] ==
        IF n = 0 THEN <<>>
        ELSE IF now - times[n] < Window THEN Append(kept[n - 1], times[n]) ELSE kept[n - 1]
  IN  kept[Len(times)]

\* Mutant of Throttled: one too many.
ThrottledLate(k) == Len(Recent(fails[k])) > MaxFails

\* _login_throttled
Throttled(k) == Len(Recent(fails[k])) >= MaxFails

\* _maybe_alert_login_failures: a key that has failed often enough is reported,
\* once in a while.
Reported(k, times) ==
  /\ Len(times) >= AlertFails
  /\ alerted[k] = Nil \/ now - alerted[k] >= Quiet

\* A password, or the second factor, that is wrong (local_login, app_token).
SignInFails(caller, k) ==
  LET times == Append(Recent(fails[k]), now) IN
  /\ Move
  /\ Guarded(caller)
  /\ ~Throttled(k)
  /\ fails' = [fails EXCEPT ![k] = times]
  /\ tried' = [tried EXCEPT ![k] = Append(@, now)]
  /\ IF Reported(k, times)
        THEN alerted' = [alerted EXCEPT ![k] = now]
        ELSE UNCHANGED alerted
  /\ UNCHANGED <<rules, nonce, pairing, issued, key, honoured, linked>>

\* All is right: the failures are forgotten.
SignInSucceeds(caller, k) ==
  /\ Move
  /\ Guarded(caller)
  /\ ~Throttled(k)
  /\ fails' = [fails EXCEPT ![k] = <<>>]
  /\ tried' = [tried EXCEPT ![k] = <<>>]
  /\ UNCHANGED <<rules, alerted, nonce, pairing, issued, key, honoured, linked>>

-----------------------------------------------------------------------------
(* Tickets.                                                                *)

\* make_app_ticket, for app_ticket and sso_handoff
IssueTicket(t) ==
  /\ Move
  /\ issued[t] = Nil
  /\ issued' = [issued EXCEPT ![t] = now]
  /\ UNCHANGED <<rules, memory, key, past>>

\* The signature's age, in whole seconds
Fresh(t) ==
  /\ issued[t] # Nil
  /\ now \div Second - issued[t] \div Second <= TicketSeconds

\* Mutant of Remembered: what is pruned is whatever has been redeemed before.
RememberedNone == [t \in Tickets |-> Nil]

\* Redeemed tickets are forgotten once they cannot be accepted any more.
Remembered == [t \in Tickets |-> IF nonce[t] # Nil /\ nonce[t] < now THEN Nil ELSE nonce[t]]

\* read_app_ticket, for app_token and, with an API key, for api_sso_exchange,
\* which may find that the account has gone.
RedeemTicket(caller, t) ==
  /\ Move
  /\ Guarded(caller)
  /\ Fresh(t)
  /\ Remembered[t] = Nil
  /\ nonce' = [Remembered EXCEPT ![t] = now + TicketSeconds * Second]
  /\ honoured' = [honoured EXCEPT ![t] = now]
  /\ UNCHANGED <<rules, fails, alerted, pairing, issued, key, tried, linked>>

-----------------------------------------------------------------------------
(* Linking the companion app, and keys.                                    *)

\* pair_approve: expired codes go, a new one is made.
ApproveLink(c, doc) ==
  /\ Move
  /\ pairing[c] = Nil
  /\ pairing' = [d \in Codes |->
       IF d = c THEN [doc |-> doc, expires |-> now + PairTTL]
       ELSE IF pairing[d] # Nil /\ pairing[d].expires < now THEN Nil ELSE pairing[d]]
  /\ UNCHANGED <<rules, fails, alerted, nonce, issued, key, past>>

\* Mutant of Replaced: the key of the previous link stays.
ReplacedNone(name) == {}

\* list_global_api_keys, those with the link's name
Replaced(name) == {i \in KeyIds : key[i] # Nil /\ key[i].all /\ key[i].name = name}

\* pair_exchange: the code is taken in any case; with the secret behind it, and
\* in time, it is a key, in the place of an earlier link's.
ExchangeLink(caller, c, i, right) ==
  LET doc == pairing[c].doc IN
  /\ Move
  /\ Guarded(caller)
  /\ pairing[c] # Nil
  /\ pairing' = [pairing EXCEPT ![c] = Nil]
  /\ IF right /\ now <= pairing[c].expires
        THEN /\ key[i] = Nil
             /\ key' = [j \in KeyIds |->
                  IF j = i THEN [name |-> doc, all |-> TRUE, on |-> TRUE]
                  ELSE IF j \in Replaced(doc) THEN Nil ELSE key[j]]
             /\ linked' = linked \cup {i}
        ELSE UNCHANGED <<key, linked>>
  /\ UNCHANGED <<rules, fails, alerted, nonce, issued, tried, honoured>>

\* api_key_create and create_org_api_key
CreateKey(i, name, all) ==
  /\ Move
  /\ key[i] = Nil
  /\ key' = [key EXCEPT ![i] = [name |-> name, all |-> all, on |-> TRUE]]
  /\ linked' = linked \ {i}
  /\ UNCHANGED <<rules, memory, issued, tried, honoured>>

\* api_key_toggle, api_key_delete and delete_org_api_key
SwitchKey(i) ==
  /\ Move
  /\ key[i] # Nil
  /\ key' = [key EXCEPT ![i].on = ~@]
  /\ UNCHANGED <<rules, memory, issued, past>>

DeleteKey(i) ==
  /\ Move
  /\ key[i] # Nil
  /\ key' = [key EXCEPT ![i] = Nil]
  /\ linked' = linked \ {i}
  /\ UNCHANGED <<rules, memory, issued, tried, honoured>>

-----------------------------------------------------------------------------
Tick ==
  /\ now < MaxTime
  /\ now' = now + 1
  /\ UNCHANGED <<rules, memory, issued, key, requests, past>>

\* The process starts anew, with nothing in its memory.
ServerRestarts ==
  /\ Move
  /\ fails' = [k \in Keys |-> <<>>]
  /\ alerted' = [k \in Keys |-> Nil]
  /\ nonce' = [t \in Tickets |-> Nil]
  /\ pairing' = [c \in Codes |-> Nil]
  /\ tried' = [k \in Keys |-> <<>>]
  /\ honoured' = [t \in Tickets |-> Nil]
  /\ UNCHANGED <<rules, issued, key, linked>>

Forms == [allow : SUBSET Addresses, deny : SUBSET Addresses, trust : BOOLEAN]

SignInNext ==
  \/ Tick \/ ServerRestarts
  \/ \E caller \in Callers :
       \/ \E form \in Forms, listed \in BOOLEAN : SaveSettings(caller, form, listed)
       \/ \E k \in Keys : SignInFails(caller, k) \/ SignInSucceeds(caller, k)
       \/ \E t \in Tickets : RedeemTicket(caller, t)
       \/ \E c \in Codes, i \in KeyIds, right \in BOOLEAN : ExchangeLink(caller, c, i, right)
  \/ \E t \in Tickets : IssueTicket(t)
  \/ \E c \in Codes, d \in Docs : ApproveLink(c, d)
  \/ \E i \in KeyIds :
       \/ \E d \in Docs, all \in BOOLEAN : CreateKey(i, d, all)
       \/ SwitchKey(i) \/ DeleteKey(i)

SignInSpec == SignInInit /\ [][SignInNext]_signInVars

-----------------------------------------------------------------------------
(* Properties.                                                             *)

Within(times, from) == {n \in 1 .. Len(times) : times[n] >= from /\ times[n] < from + Window}

\* However the failures of a key are spread, no more than LOGIN_MAX_FAILS of
\* them fall in any stretch as long as the window, unless it got in meanwhile.
ThrottleHolds ==
  \A k \in Keys : \A from \in 0 .. now :
    Cardinality(Within(tried[k], from)) <= MaxFails

\* A ticket is not accepted twice in its life, counted from its redemption,
\* whichever of the two endpoints it is given to, and what it is pruned with;
\* and of the keys that linking an app has made, one is left.
HandOffsOnce ==
  [][/\ \A t \in Tickets :
          honoured'[t] # honoured[t] /\ honoured[t] # Nil /\ honoured'[t] # Nil
            => now - honoured[t] > TicketSeconds * Second
     /\ \A i, j \in linked' :
          key'[i] # Nil /\ key'[j] # Nil /\ key'[i].name = key'[j].name => i = j]_signInVars
=============================================================================
