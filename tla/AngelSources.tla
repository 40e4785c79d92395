----------------------------- MODULE AngelSources -----------------------------
(***************************************************************************)
(* What the Data & instruments page does with the broker: the instrument   *)
(* master of InstrumentMaster, the broker session that each browser        *)
(* session keeps in memory (application/angel_session.py), and the         *)
(* research candles it asks for (application/                              *)
(* authenticated_historical_source.py, market_data.py,                     *)
(* infrastructure/market_data).                                            *)
(*                                                                         *)
(* A browser session has one session service and one candle provider, and  *)
(* nothing locks them.  A click starts a new run of the page's script in a *)
(* thread of its own, also while an earlier run of the same browser        *)
(* session is inside a call; so several threads use the two at once.  A    *)
(* thread makes one call at a time.  The database of datasets is shared by *)
(* all browser sessions.                                                   *)
(***************************************************************************)
EXTENDS InstrumentMaster

CONSTANTS
  Scripts,      \* the threads that also use a broker session
  Browsers,     \* browser sessions
  Tokens,       \* access tokens that the broker hands out
  NoToken,
  Environment,  \* the token found in the environment of the process, if any
  Responses,    \* candle responses the provider accepts
  MaxCalls      \* bound on the calls of a behaviour, syncs included

ASSUME ScriptsAssumption == Scripts \subseteq Sessions
ASSUME TokensAssumption == NoToken \notin Tokens
ASSUME CallsAssumption == MaxCalls \in Nat

(* A call of the session service: whose it is, how far it has come, and    *)
(* the token it has read to hand it on.                                    *)
SessionCall ==
  [ browser : Browsers, stage : {"asking", "kept", "handing", "forgotten"},
    token : Tokens \cup {NoToken} ]

(* A dataset is named by its instrument and its content, not by the time   *)
(* it was retrieved, which is left out.  A request keeps the token it was  *)
(* sent with; nothing looks at that again.                                 *)
Dataset == [ instrument : Instruments, response : Responses ]
CandleRequest ==
  [ instrument : Instruments, response : Responses \cup {Absent} ]

ASSUME ResponsesAssumption ==
  Absent \notin Responses \cup CandleRequest \cup SessionCall

VARIABLES
  tokens,       \* per browser session, the broker session it keeps
  handed,       \* per browser session, the token of its candle provider
  service,      \* per thread, the call of a session service it is in
  torn,         \* per browser session: when its broker session was assigned
                \* last, another call had yet to tell the provider (a history)
  candles,      \* per thread, the candle request it is making
  datasets,     \* the retained datasets
  asked         \* how many calls the broker was sent (a bound)

sources == <<tokens, handed, service, torn, candles, datasets, asked>>
vars == <<master, sources>>

SourcesTypeOK ==
  /\ TypeOK
  /\ tokens \in [Browsers -> Tokens \cup {NoToken}]
  /\ handed \in [Browsers -> Tokens \cup {Environment, NoToken}]
  /\ service \in [Scripts -> SessionCall \cup {Absent}]
  /\ torn \in [Browsers -> BOOLEAN]
  /\ candles \in [Scripts -> CandleRequest \cup {Absent}]
  /\ datasets \subseteq Dataset
  /\ asked \in 0..MaxCalls

SourcesInit ==
  /\ Init
  /\ tokens = [b \in Browsers |-> NoToken]
  /\ handed = [b \in Browsers |-> Environment]
  /\ service = [t \in Scripts |-> Absent]
  /\ torn = [b \in Browsers |-> FALSE]
  /\ candles = [t \in Scripts |-> Absent]
  /\ datasets = {}
  /\ asked = 0

(* The thread is outside the broker session and the candles; a free one    *)
(* is in no call at all.                                                   *)
Elsewhere(t) == t \in Scripts => service[t] = Absent /\ candles[t] = Absent
Free(t) == pc[t] = "idle" /\ Elsewhere(t)

(* Each sync takes a stamp, so that now counts them.                       *)
OneMoreCall == now + asked < MaxCalls /\ asked' = asked + 1

-----------------------------------------------------------------------------
(* The broker session.  The kept tokens and the provider's copy are two    *)
(* assignments, and a call asks the broker before the first: other threads *)
(* of the browser session come between any two steps.  The time at which a *)
(* session was acquired is only shown, and left out.                       *)

(* The calls that have assigned the tokens and not yet told the provider.  *)
Pending(b) ==
  { t \in Scripts : /\ service[t] # Absent
                    /\ service[t].browser = b /\ service[t].stage # "asking" }

Proceed(t, c) == service' = [service EXCEPT ![t] = c]

AskBroker(t, b) ==
  /\ Free(t) /\ OneMoreCall
  /\ Proceed(t, [browser |-> b, stage |-> "asking", token |-> NoToken])
  /\ UNCHANGED <<master, tokens, handed, torn, candles, datasets>>

(* The page offers to start a session when there is none, and to refresh   *)
(* or forget it when there is one.                                         *)
StartSession(t, b) == tokens[b] = NoToken /\ AskBroker(t, b)
RefreshSession(t, b) == tokens[b] # NoToken /\ AskBroker(t, b)

(* A login or a refresh that fails raises before anything is assigned.     *)
BrokerRefuses(t) ==
  /\ service[t] # Absent /\ service[t].stage = "asking"
  /\ Proceed(t, Absent)
  /\ UNCHANGED <<master, tokens, handed, torn, candles, datasets, asked>>

Assign(b, token) ==
  /\ tokens' = [tokens EXCEPT ![b] = token]
  /\ torn' = [torn EXCEPT ![b] = Pending(b) # {}]

(* The tokens are kept, whatever happened to the session meanwhile.        *)
BrokerAnswers(t, token) ==
  LET b == service[t].browser IN
  /\ service[t] # Absent /\ service[t].stage = "asking"
  /\ Assign(b, token)
  /\ Proceed(t, [service[t] EXCEPT !.stage = "kept"])
  /\ UNCHANGED <<master, handed, candles, datasets, asked>>

(* The token to hand on is read back from the session: when another thread *)
(* has forgotten that, the call raises.                                    *)
ReadToken(t) ==
  LET token == tokens[service[t].browser] IN
  /\ service[t] # Absent /\ service[t].stage = "kept"
  /\ Proceed(t, IF token = NoToken THEN Absent
                ELSE [service[t] EXCEPT !.stage = "handing", !.token = token])
  /\ UNCHANGED <<master, tokens, handed, torn, candles, datasets, asked>>

(* Mutant of HandOn: the provider keeps the token it had.                  *)
HandNothingOn(t) ==
  /\ service[t] # Absent /\ service[t].stage = "handing"
  /\ Proceed(t, Absent)
  /\ UNCHANGED <<master, tokens, handed, torn, candles, datasets, asked>>

HandOn(t) ==
  /\ service[t] # Absent /\ service[t].stage = "handing"
  /\ handed' = [handed EXCEPT ![service[t].browser] = service[t].token]
  /\ Proceed(t, Absent)
  /\ UNCHANGED <<master, tokens, torn, candles, datasets, asked>>

ForgetSession(t, b) ==
  /\ Free(t) /\ tokens[b] # NoToken
  /\ Assign(b, NoToken)
  /\ Proceed(t, [browser |-> b, stage |-> "forgotten", token |-> NoToken])
  /\ UNCHANGED <<master, handed, candles, datasets, asked>>

(* forget clears the provider also of a token of the environment that the  *)
(* session had replaced.                                                   *)
ClearToken(t) ==
  /\ service[t] # Absent /\ service[t].stage = "forgotten"
  /\ handed' = [handed EXCEPT ![service[t].browser] = NoToken]
  /\ Proceed(t, Absent)
  /\ UNCHANGED <<master, tokens, torn, candles, datasets, asked>>

(* The browser session ends, in the middle of calls or not, and another    *)
(* one takes its place with services built from the environment.  A call   *)
(* of the old service changes nothing that anybody uses any more; a candle *)
(* request that was sent may still end with a dataset.                     *)
Reopen(b) ==
  /\ tokens' = [tokens EXCEPT ![b] = NoToken]
  /\ handed' = [handed EXCEPT ![b] = Environment]
  /\ torn' = [torn EXCEPT ![b] = FALSE]
  /\ service' = [t \in Scripts |->
       IF service[t] # Absent /\ service[t].browser = b
       THEN Absent ELSE service[t]]
  /\ UNCHANGED <<master, candles, datasets, asked>>

-----------------------------------------------------------------------------
(* Research candles.  The page asks for an instrument of the snapshot that *)
(* it shows, while the provider has a token; one that is cleared between   *)
(* the check and the request makes the request fail before it is sent.     *)

RequestCandles(t, b, instrument) ==
  /\ Free(t) /\ OneMoreCall
  /\ Latest # Absent /\ instrument \in InstrumentsOf(Latest.content)
  /\ handed[b] # NoToken
  /\ candles' = [candles EXCEPT ![t] =
       [instrument |-> instrument, response |-> Absent]]
  /\ UNCHANGED <<master, tokens, handed, service, torn, datasets>>

ReceiveCandles(t, response) ==
  /\ candles[t] # Absent /\ candles[t].response = Absent
  /\ candles' = [candles EXCEPT ![t].response = response]
  /\ UNCHANGED <<master, tokens, handed, service, torn, datasets, asked>>

(* The broker refuses, the answer is malformed, the request times out, the *)
(* thread dies.                                                            *)
RefuseCandles(t) ==
  /\ candles[t] # Absent /\ candles[t].response = Absent
  /\ candles' = [candles EXCEPT ![t] = Absent]
  /\ UNCHANGED <<master, tokens, handed, service, torn, datasets, asked>>

(* save: a dataset that is retained already stays as it is, whether the    *)
(* lookup or the insert finds it.                                          *)
KeepCandles(t) ==
  LET r == candles[t] IN
  /\ r # Absent /\ r.response # Absent
  /\ datasets' =
       datasets \cup {[instrument |-> r.instrument, response |-> r.response]}
  /\ candles' = [candles EXCEPT ![t] = Absent]
  /\ UNCHANGED <<master, tokens, handed, service, torn, asked>>

-----------------------------------------------------------------------------
(* The bound is one of all calls together, syncs and others.               *)
SourcesNext ==
  \/ /\ \/ \E m \in Masters : Publish(m)
        \/ \E s \in Sessions : Elsewhere(s) /\ Sync(s)
     /\ now' + asked <= MaxCalls
     /\ UNCHANGED sources
  \/ \E b \in Browsers :
       \/ \E t \in Scripts :
            \/ StartSession(t, b) \/ RefreshSession(t, b) \/ ForgetSession(t, b)
            \/ \E i \in Instruments : RequestCandles(t, b, i)
       \/ Reopen(b)
  \/ \E t \in Scripts :
       \/ \E token \in Tokens : BrokerAnswers(t, token)
       \/ BrokerRefuses(t)
       \/ ReadToken(t) \/ HandOn(t) \/ ClearToken(t)
       \/ \E r \in Responses : ReceiveCandles(t, r)
       \/ RefuseCandles(t)
       \/ KeepCandles(t)

SourcesSpec == SourcesInit /\ [][SourcesNext]_vars

-----------------------------------------------------------------------------
(* The provider holds the token of the broker session, and none or the     *)
(* environment's when there is no session.                                 *)
Agree(b) ==
  IF tokens[b] = NoToken THEN handed[b] \in {NoToken, Environment}
  ELSE handed[b] = tokens[b]

(* Of the session and the candles.  Whatever threads of a browser session  *)
(* log in, refresh, forget and ask for candles at once: when the call that *)
(* assigned the broker session last met no other one that had yet to tell  *)
(* the provider, and none is left, the two agree, however far earlier      *)
(* calls had drawn them apart.  And whatever is asked for or retained is   *)
(* an instrument of a snapshot that is retained.                           *)
CandlesAreGrounded ==
  /\ \A b \in Browsers : Pending(b) = {} /\ ~torn[b] => Agree(b)
  /\ \A t \in Scripts :
       candles[t] # Absent =>
         \E r \in snapshots : candles[t].instrument \in InstrumentsOf(r.content)
  /\ \A d \in datasets :
       \E r \in snapshots : d.instrument \in InstrumentsOf(r.content)

=============================================================================
