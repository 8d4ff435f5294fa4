----------------------------- MODULE MCService -----------------------------
(***************************************************************************)
(* Service on small instances, and beside it the parts of a program that   *)
(* are trees: it loads an endpoint or a backend from a file, or uses a     *)
(* tree of backends.  A behaviour does one of the eight.                   *)
(***************************************************************************)
EXTENDS Service, Integers, Sequences, FiniteSets, SequencesExt

CONSTANTS
    NoQuery, place, mine, v1, v2,
    Endpoints, Messages, Responses,           \* for EndpointConfig
    Files,                                    \* for BackendConfig
    Trees                                     \* for LayeredBackend

VARIABLES
    endpoint, asked, verdict,                 \* of an endpoint
    file, features, opens, result,            \* of a backend's file
    tree, last, reply                         \* of a tree of backends

endpointVars == <<endpoint, asked, verdict>>
fileVars     == <<file, features, opens, result>>
treeVars     == <<tree, last, reply>>
allVars      == <<vars, endpointVars, fileVars, treeVars>>

NoEndpoint == endpoint = None /\ asked = None /\ verdict = None
NoFile     == file = None /\ features = None /\ opens = None /\ result = None
NoTree     == tree = None /\ last = None /\ reply = None

-----------------------------------------------------------------------------
(* Up to four setters in any order, both builders; a ttl and a stale time   *)
(* in both orders.  Up to three setters of a backend, with levels below,    *)
(* within and above the ranges.                                             *)
SomeLevels == {-9, 5, 30}

(* A plain response, one with a header of two values, one that comes from   *)
(* another cache, and one of another version.                               *)
TwoNames == <<"x-cache-status", "x-other">>
HeadOf(version, status, other) ==
    [version |-> version,
     headers |-> [n \in ToSet(TwoNames) |-> IF n = "x-other" THEN other ELSE status]]
SomeHeads == {HeadOf("HTTP/1.1", <<>>, <<>>), HeadOf("HTTP/1.1", <<>>, <<"a", "b">>),
              HeadOf("HTTP/2", <<"MISS">>, <<"a">>), HeadOf("HTTP/3", <<"HIT">>, <<>>)}

(* The stale policies, with and without a limit, and with and without an    *)
(* offload manager.                                                         *)
HowTo(stale, limit, offload) == [stale |-> stale, limit |-> limit, offload |-> offload]
SomeCaching == {HowTo("Return", None, FALSE), HowTo("Revalidate", 1, FALSE),
                HowTo("OffloadRevalidate", None, FALSE), HowTo("OffloadRevalidate", 1, TRUE)}

(* Two calls with one cache key or generated keys.  Warn only writes a      *)
(* message and otherwise does as None.                                      *)
SomeTaskConfigs == [deduplicate : BOOLEAN, timeout : {"None", "Cancel"}]

EndpointSamples == INSTANCE MCEndpointConfig
AllEndpoints == EndpointSamples!AllConfigs
AllMessages  == EndpointSamples!SomeRequests
AllResponses == EndpointSamples!SomeResponses
Endpoint == INSTANCE EndpointConfig WITH
    OpaqueBytes <- {"opaque"}, Configs <- Endpoints, Requests <- Messages

KeySamples == INSTANCE MCKeyExtraction
AllExtractors == KeySamples!AllConfigs
AllAsking     == KeySamples!SomeRequests
Names       == KeySamples!Names
Lower       == KeySamples!Lower
PrefixPairs == KeySamples!PrefixPairs
Transforms  == KeySamples!Transforms
WholePath   == KeySamples!WholePath

FileSamples == INSTANCE MCBackendConfig
AllFiles == FileSamples!SomeFiles
FromFile == INSTANCE BackendConfig WITH
    Options <- {place}, Levels <- {0}, Custom <- {mine}

(* Values of two kinds, to tell an old one from a new one. *)
TreeSamples == INSTANCE MCLayeredBackend
AllTrees == TreeSamples!AllTrees
Layers == INSTANCE LayeredBackend WITH Values <- {v1, v2}

ASSUME FromFile!ConstantsOK /\ Layers!ConstantsOK

-----------------------------------------------------------------------------
(* Service does none of these. *)
NoService ==
    /\ builder = None /\ calls = None /\ stored = None /\ format = None
    /\ chain = None /\ answer = None /\ NoConfig /\ NoMessages /\ NoBuilder /\ NoTasks

AllInit ==
    \/ Init /\ NoEndpoint /\ NoFile /\ NoTree
    \/ /\ part = "endpoint" /\ Endpoint!Init /\ NoService
       /\ store = None /\ NoFile /\ NoTree
    \/ /\ part = "file" /\ FromFile!Init /\ NoService
       /\ store = None /\ NoEndpoint /\ NoTree
    \/ /\ part = "tree" /\ Layers!Init /\ NoService
       /\ config = None /\ NoEndpoint /\ NoFile

Others == UNCHANGED <<part, builder, calls, stored, format, chain, answer, configVars, messageVars,
                      builderVars, taskVars>>

ServiceNext == Next /\ UNCHANGED <<endpointVars, fileVars, treeVars>>
EndpointNext ==
    /\ part = "endpoint" /\ Endpoint!Next /\ Others
    /\ UNCHANGED <<store, fileVars, treeVars>>
FileNext ==
    /\ part = "file" /\ FromFile!Next /\ Others
    /\ UNCHANGED <<store, endpointVars, treeVars>>
TreeNext ==
    /\ part = "tree" /\ Layers!Next /\ Others
    /\ UNCHANGED <<config, endpointVars, fileVars>>

AllNext == ServiceNext \/ EndpointNext \/ FileNext \/ TreeNext

(* With one entry a third request finds what the second would have found,   *)
(* so two are asked.                                                        *)
AsksTwice == (part = "keys" /\ answer # None) => answer.stored = {}

AllSpec == AllInit /\ [][AsksTwice /\ AllNext]_allVars

-----------------------------------------------------------------------------
(* The properties of each module, about the program that does its part.     *)

(* An endpoint and a backend are built whole, as their files say, or not at *)
(* all.                                                                     *)
WholeOrNotAtAll ==
    /\ part = "endpoint" => Endpoint!BuiltIffWellFormed
    /\ part = "file" => FromFile!TypeOK /\ FromFile!AsConfigured /\ FromFile!AllOrNothing

(* Where nothing is forgotten, an endpoint caches what its file says; a     *)
(* condition may be lost, never invented, and nothing but bodies is looked  *)
(* at once a condition has failed.                                          *)
EndpointSaysWhatItsFileSays ==
    part = "endpoint" => /\ Endpoint!SaysWhatTheFileSays
                         /\ Endpoint!NeverStricterThanTheFile
                         /\ Endpoint!StopsAtTheFirstRefusal

(* In a tree of compositions what is set is found while a leaf has it, and  *)
(* the hit of a tree of two levels names the leaf.  A get changes a leaf to *)
(* nothing but what a set left; a refill reaches every first layer on the   *)
(* way of the hit, and a delete every leaf, which it counts.                *)
LayersFollow ==
    /\ [](part = "tree" => /\ Layers!TypeOK
                           /\ Layers!FoundWhileHeld /\ Layers!ShallowSourceNamesTheLeaf)
    /\ [][part = "tree" => /\ Layers!GetRestores
                          /\ Layers!RefillsCascade
                          /\ Layers!DeleteEmpties]_allVars
=============================================================================
