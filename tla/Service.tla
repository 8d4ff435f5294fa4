------------------------------- MODULE Service -------------------------------
(***************************************************************************)
(* What surrounds the cache in a program: it builds the configuration of a *)
(* service, serves messages over HTTP, asks under the keys its extractors  *)
(* make, builds a backend, or counts its background tasks.  A behaviour    *)
(* does one of these.  The variables of the others stay None; those that   *)
(* have one name in several modules are one.                               *)
(***************************************************************************)
EXTENDS CacheValue

CONSTANTS
    Parts, Default, NotSet, Disabled, Durations, StalePolicies, Limits,   \* of a configuration
    MAX_CALLS, MAX_TIME,
    Requests, Services, Adapters, InnerServices, PERMITS, Formats,        \* of messages
    Heads, HttpNames, StatusHeaders, Caching, Error,
    Extractors, Asking, KeyFormats, MAX_ENTRIES, Bad, Broken, Nested,     \* of keys
    Numbers, OpaqueTexts, NameOrder, Lowercase, StartsWith, Transformed, Captures,
    Options, Levels, Custom, MAX_SETTERS,                                 \* of a backend's builder
    Calls, Keys, Faults, TaskConfigs                                      \* of tasks

VARIABLES
    part,                                           \* what is done
    builder, calls, config, stored, format,         \* of several
    policy_builder, value, now,                     \* of a configuration
    adapter, inner, header, caching, free, reserved, flight, req, called, bare, sent, age,  \* of messages
    store, chain, answer,                           \* of keys
    policy, l1, backend, failed,                    \* of a backend's builder
    tasks, call, key, task, aborting, waiter, awaited, raced,         \* of tasks
    counters, active, counting, recording, removing

configVars  == <<policy_builder, value, now>>
messageVars == <<adapter, inner, header, caching, free, reserved, flight, req, called, bare,
                 sent, age>>
keyVars     == <<store, chain, answer>>
builderVars == <<policy, l1, backend, failed>>
taskVars    == <<tasks, call, key, task, aborting, waiter, awaited, raced,
                 counters, active, counting, recording, removing>>
vars == <<part, builder, calls, config, stored, format, configVars, messageVars, keyVars,
          builderVars, taskVars>>

Setup == INSTANCE ServiceConfig WITH Policies <- StalePolicies
Http  == INSTANCE HttpService WITH
    Inner <- InnerServices, HeaderNames <- HttpNames, Configured <- StatusHeaders
Extraction == INSTANCE KeyExtraction WITH
    Configs <- Extractors, Requests <- Asking, Formats <- KeyFormats, Default <- Captures
Builder == INSTANCE BackendBuilder WITH MAX_CALLS <- MAX_SETTERS
Tasks   == INSTANCE OffloadMetrics WITH Configs <- TaskConfigs

ASSUME ServiceAssumption ==
    /\ Setup!ConstantsOK /\ Http!ConstantsOK /\ Extraction!ConstantsOK
    /\ Builder!BuilderOK /\ Tasks!OffloadAssumption

-----------------------------------------------------------------------------
NoConfig   == policy_builder = None /\ value = None /\ now = None
NoMessages == /\ adapter = None /\ inner = None /\ header = None /\ caching = None
              /\ free = None /\ reserved = None /\ flight = None /\ req = None
              /\ called = None /\ bare = None /\ sent = None /\ age = None
NoKeys     == store = None /\ chain = None /\ answer = None
NoBuilder  == policy = None /\ l1 = None /\ backend = None /\ failed = None
NoTasks    == /\ tasks = None /\ call = None /\ key = None /\ task = None /\ aborting = None
              /\ waiter = None /\ awaited = None /\ raced = None /\ counters = None
              /\ active = None /\ counting = None /\ recording = None /\ removing = None

Init ==
    \/ /\ part = "config" /\ Setup!Init
       /\ format = None /\ NoMessages /\ NoKeys /\ NoBuilder /\ NoTasks
    \/ /\ part = "messages" /\ Http!Init
       /\ builder = None /\ calls = None /\ config = None /\ NoConfig /\ NoKeys /\ NoBuilder /\ NoTasks
    \/ /\ part = "keys" /\ Extraction!Init
       /\ builder = None /\ calls = None /\ stored = None
       /\ NoConfig /\ NoMessages /\ NoBuilder /\ NoTasks
    \/ /\ part = "builder" /\ Builder!Init
       /\ config = None /\ stored = None /\ format = None /\ NoConfig /\ NoMessages /\ NoKeys
       /\ NoTasks
    \/ /\ part = "tasks" /\ Tasks!MetricsInit
       /\ builder = None /\ calls = None /\ stored = None /\ format = None
       /\ NoConfig /\ NoMessages /\ NoKeys /\ NoBuilder

ConfigNext ==
    /\ part = "config" /\ Setup!Next
    /\ UNCHANGED <<part, format, messageVars, keyVars, builderVars, taskVars>>
MessagesNext ==
    /\ part = "messages" /\ Http!Next
    /\ UNCHANGED <<part, builder, calls, config, configVars, keyVars, builderVars, taskVars>>
KeysNext ==
    /\ part = "keys" /\ Extraction!Next
    /\ UNCHANGED <<part, builder, calls, stored, configVars, messageVars, builderVars, taskVars>>
BuilderNext ==
    /\ part = "builder" /\ Builder!Next
    /\ UNCHANGED <<part, config, stored, format, configVars, messageVars, keyVars, taskVars>>
TasksNext ==
    /\ part = "tasks" /\ Tasks!MetricsNext
    /\ UNCHANGED <<part, builder, calls, stored, format, configVars, messageVars, keyVars,
                   builderVars>>

Next == ConfigNext \/ MessagesNext \/ KeysNext \/ BuilderNext \/ TasksNext

Spec == Init /\ [][Next]_vars

-----------------------------------------------------------------------------
(* The properties of each module, about the program that does its part.     *)

(* State stays within the types of the module of the part. *)
TypeOK ==
    /\ part = "config" => Setup!TypeOK
    /\ part = "messages" => Http!TypeOK
    /\ part = "builder" => Builder!TypeOK
    /\ part = "tasks" => Tasks!MetricsTypeOK

(* What a program chose last for its service and its backend is what they   *)
(* have, labels computed ahead included, and a response is fresh, then      *)
(* stale, then expired, at the times chosen.                                *)
ChoicesCount ==
    /\ part = "config" => Setup!EveryChoiceCounts /\ Setup!StaleBeforeExpired
    /\ part = "builder" => Builder!EveryChoiceCounts /\ Builder!LabelsFollow

(* A client gets one response of the upstream, its own if it called it; the *)
(* status header tells an old response from one of its own call or of a call*)
(* that was under way (CacheStatus::Miss of AwaitResponse); and what goes to*)
(* the upstream has the extensions of its request.                          *)
AdaptersPassOn ==
    part = "messages" => /\ Http!AnswersAreTheUpstreams
                         /\ Http!StatusHeaderTellsSource
                         /\ Http!ExtensionsReachUpstream

(* Two requests share an entry if and only if they agree in what the        *)
(* extractors look at; a key in the default form is read back as it was.    *)
KeysTellRequestsApart ==
    part = "keys" => /\ Extraction!FoundForTheSameRequest
                     /\ Extraction!FoundAgain
                     /\ Extraction!BitcodeIsReversible

(* Once nothing goes on, the counters account for every call, and the gauge *)
(* is back at zero when no task broke.                                      *)
CountersAddUp == part = "tasks" => Tasks!CountersAddUp /\ Tasks!GaugeReturns
=============================================================================
