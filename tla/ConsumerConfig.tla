--------------------------- MODULE ConsumerConfig ---------------------------
(***************************************************************************)
(* The settings of the durable consumer, which every worker writes when it *)
(* starts: subscribe_durable and ensure_consumer_config of                 *)
(* core/queue/helper.py.  The settings are read with one request, changed  *)
(* with another and the subscription is a third, and another worker,       *)
(* perhaps of another build or with another pool size, may start between   *)
(* them.                                                                   *)
(***************************************************************************)
EXTENDS Faults

CONSTANTS Workers,     \* worker processes
          Declared,    \* Declared[w]: the settings worker w's build declares
          Earlier      \* the settings an earlier build left behind

\* What a build declares.  helper.py reconciles backoff too, which no build sets.
DeclaredFields == {"ack_wait", "max_deliver", "max_ack_pending"}
Settings == [DeclaredFields -> Nat]
\* bindings: the deliver subject, the queue group and the filter, as they were
\* when the consumer was created or as a new configuration leaves them.
Configurations == [settings : Settings, bindings : {"original", "default"}]
NoConsumer == [f \in {} |-> 0]

ASSUME ConfigAssumption ==
  /\ Declared \in [Workers -> Settings]
  /\ Earlier \in Settings

VARIABLES stored,   \* the broker's configuration, or NoConsumer
          seen,     \* seen[w]: the configuration worker w read
          step      \* step[w]: how far w's subscription is

configVars == <<stored, seen, step>>

ConfigTypeOK ==
  /\ stored \in Configurations \union {NoConsumer}
  /\ seen \in [Workers -> Configurations \union {NoConsumer}]
  /\ step \in [Workers -> {"off", "read", "write", "subscribe", "bound"}]

Created(settings) == [settings |-> settings, bindings |-> "original"]

\* A first deployment, or a consumer an earlier build created.
ConfigInit ==
  /\ stored \in {NoConsumer, Created(Earlier)}
  /\ seen = [w \in Workers |-> NoConsumer]
  /\ step = [w \in Workers |-> "off"]

Proceed(w, to) == step' = [step EXCEPT ![w] = to]
Forget(w) == seen' = [seen EXCEPT ![w] = NoConsumer]

BeginSubscribe(w) ==
  /\ step[w] = "off"
  /\ Proceed(w, "read") /\ UNCHANGED <<stored, seen>>

\* The declared settings that differ from those of a configuration.
Drift(w, config) == {f \in DeclaredFields : config.settings[f] # Declared[w][f]}

\* A mistaken one: an existing consumer is left as it is.
ReadSettingsOnly(w) ==
  /\ step[w] = "read"
  /\ seen' = [seen EXCEPT ![w] = stored]
  /\ Proceed(w, "subscribe")
  /\ UNCHANGED stored

\* The consumer's configuration is read.  A missing consumer, and one that
\* agrees, are left alone.
ReadSettings(w) ==
  /\ step[w] = "read"
  /\ seen' = [seen EXCEPT ![w] = stored]
  /\ Proceed(w, IF stored = NoConsumer \/ Drift(w, stored) = {} THEN "subscribe" ELSE "write")
  /\ UNCHANGED stored

\* config with its drifted settings replaced, over the others as base has them.
Replaced(w, config, base) ==
  [f \in DeclaredFields |-> IF f \in Drift(w, config) THEN Declared[w][f] ELSE base[f]]

\* Mistaken ones.  Only the drifted settings are sent, to be merged by the broker:
MergeSettings(w) ==
  /\ step[w] = "write"
  /\ stored' = [stored EXCEPT !.settings = Replaced(w, seen[w], @)]
  /\ Forget(w) /\ Proceed(w, "subscribe")

\* or what the build declares is written as a new configuration.
WriteDeclared(w) ==
  /\ step[w] = "write"
  /\ stored' = [settings |-> Declared[w], bindings |-> "default"]
  /\ Forget(w) /\ Proceed(w, "subscribe")

\* current.evolve(drift): the configuration that was read, with the drifted
\* settings replaced.
Evolved(w) == [seen[w] EXCEPT !.settings = Replaced(w, seen[w], @)]

\* It is written back whole: whatever was stored meanwhile is overwritten.
WriteSettings(w) ==
  /\ step[w] = "write"
  /\ stored' = Evolved(w)
  /\ Forget(w) /\ Proceed(w, "subscribe")

\* js.subscribe: creates a consumer that is missing, binds to one that is there,
\* whatever its settings, be it one another worker created since the read.
Subscribe(w) ==
  /\ step[w] = "subscribe" /\ Forget(w) /\ Proceed(w, "bound")
  /\ stored' = IF stored = NoConsumer THEN Created(Declared[w]) ELSE stored

\* A request raises: it was refused, or lost, or applied and its answer was lost.
\* The worker does not start.
RequestRaises(w) ==
  /\ step[w] \in {"read", "write", "subscribe"}
  /\ \/ UNCHANGED stored
     \/ step[w] = "write" /\ stored' = Evolved(w)
     \/ step[w] = "subscribe" /\ stored = NoConsumer /\ stored' = Created(Declared[w])
  /\ Forget(w) /\ Proceed(w, "off")

\* The worker's subscription ends with its connection.
Unsubscribed(w) == Forget(w) /\ Proceed(w, "off") /\ UNCHANGED stored

-----------------------------------------------------------------------------
\* However the workers' requests interleave, the stored settings are those of
\* one build as a whole: no message is redelivered after one build's ack_wait
\* up to another build's max_deliver (ensure_consumer_config, the drift).
SettingsOfOneBuild ==
  stored # NoConsumer => stored.settings \in {Earlier} \union {Declared[w] : w \in Workers}

\* Once a worker has subscribed, and for as long as one is, the consumer has the
\* settings of a build that starts workers, and none an earlier build left; and
\* the rewrites have kept the deliver subject, queue group and filter it was
\* created with (subscribe_durable, whose update starts from the stored config).
Reconciled ==
  (\E w \in Workers : step[w] = "bound") =>
    stored \in {Created(Declared[w]) : w \in Workers}

\* Why: a worker only goes on to subscribe over no consumer or over settings a
\* running build declares, and only writes over a consumer it has read, from
\* what it read.
SubscribesOverDeclared ==
  /\ stored = NoConsumer => \A w \in Workers : step[w] \notin {"write", "bound"}
  /\ \A c \in {stored} \union {seen[w] : w \in Workers} :
       c # NoConsumer => c.bindings = "original"
  /\ \A w \in Workers : step[w] = "write" => seen[w] # NoConsumer
  /\ (\E w \in Workers : step[w] \in {"subscribe", "bound"}) =>
       stored = NoConsumer \/ stored.settings \in {Declared[w] : w \in Workers}
=============================================================================
