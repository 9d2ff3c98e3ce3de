----------------------------- MODULE Discovery -----------------------------
(***************************************************************************)
(* How Home Assistant learns of the entities: DiscoveryManager             *)
(* (packages/core/src/mqtt/discovery-manager.ts) publishes a retained      *)
(* configuration for each entity, once it is eligible, and the retained    *)
(* status of the bridge, whose will turns it to offline; MqttConnector     *)
(* connects it to the broker.                                              *)
(*                                                                         *)
(* The MQTT client keeps what is published while it is disconnected; what  *)
(* it has written to a connection that breaks is lost (QoS 0).  A broker   *)
(* may lose its retained messages.  Home Assistant reads them when it      *)
(* connects and says 'online' to those who are subscribed.                 *)
(***************************************************************************)
EXTENDS Naturals, Sequences, SequencesExt

CONSTANTS
    Ids,        \* whose states change
    Entities,   \* whose discovery is followed
    Links,      \* discovery_linked_id of those that have one
    Options,    \* what may be configured for the entities: plain, always (discovery_always)
                \* or hidden (internal or discovery_skip)
    Names,
    None,       \* no message, an empty payload
    MaxOutbox,  \* bound: messages of the client that have not arrived
    MaxRenames  \* bound: timers of renames of one entity

ASSUME IdsAssumption == Entities \subseteq Ids /\ IsFiniteSet(Entities)
ASSUME TopicAssumption == "status" \notin Entities
ASSUME LinksAssumption == DOMAIN Links \subseteq Entities /\ Range(Links) \subseteq Ids
ASSUME OptionsAssumption == Options \subseteq [Entities -> {"plain", "always", "hidden"}]
ASSUME NamesAssumption == None \notin Names /\ Names # {}

VARIABLES
    option,
    stateReceived, discoveryPublished,  \* sets of the manager
    name,       \* the names of its entities
    renames,    \* per entity, the names that timers of handleEntityRenamed will set; the
                \* configuration file holds the last one already
    link,       \* of the client: up, down
    outbox,     \* the publications that have not arrived
    birth,      \* an 'online' of Home Assistant is on its way to the client
    session,    \* the broker has a session of the client, with its will
    oldSession, \* and one of an earlier process
    status,     \* retained: the status of the bridge
    config,     \* retained: the name in the configuration of each entity, or None
    revoked,    \* history: revoked and not published since
    lost,       \* history: entities of which the last message was lost
    late        \* history: the will of an earlier process came after this one had connected

manager == <<stateReceived, discoveryPublished, name, renames, revoked>>
broker == <<session, oldSession, status, config, late>>
vars == <<option, manager, link, outbox, birth, broker, lost>>

Publication(topic, payload) == [topic |-> topic, payload |-> payload]
Online == Publication("status", "online")
Topics(s) == {m.topic : m \in ToSet(s)} \ {"status"}

Init ==
    /\ option \in Options
    /\ stateReceived = {} /\ discoveryPublished = {} /\ revoked = {}
    /\ name = [e \in Entities |-> CHOOSE n \in Names : TRUE]
    /\ renames = [e \in Entities |-> <<>>]
    /\ link = "down" /\ outbox = <<Online>> /\ birth = FALSE
    /\ session = FALSE /\ oldSession = FALSE /\ status = None
    /\ config = [e \in Entities |-> None]
    /\ lost = {} /\ late = FALSE

-----------------------------------------------------------------------------
(* The manager.                                                            *)

Publish(messages) ==
    /\ outbox' = outbox \o messages
    /\ Len(outbox') <= MaxOutbox

\* Fault: discovery_skip and internal are ignored.
EligibleHidden(e, received) ==
    /\ e \notin discoveryPublished
    /\ option[e] = "always" \/ e \in received \/ (e \in DOMAIN Links /\ Links[e] \in received)

\* publishDiscoveryIfEligible, not forced, after the states in received.
Eligible(e, received) ==
    /\ option[e] # "hidden" /\ e \notin discoveryPublished
    /\ \/ option[e] = "always"
       \/ e \in received
       \/ e \in DOMAIN Links /\ Links[e] \in received

\* publishDiscovery of the entities in S under these names, and what comes before it.
PublishDiscovery(S, names, before) ==
    /\ Publish(before \o SetToSeq({Publication(e, names[e]) : e \in S}))
    /\ discoveryPublished' = discoveryPublished \cup S
    /\ revoked' = revoked \ S

\* state:changed
HandleStateReceived(e) ==
    /\ stateReceived' = stateReceived \cup {e}
    /\ UNCHANGED <<name, renames>>
    /\ LET targets == {d \in Entities : d = e \/ (d \in DOMAIN Links /\ Links[d] = e)}
       IN  PublishDiscovery({d \in targets : Eligible(d, stateReceived')}, name, <<>>)

\* renameEntity of the bridge and handleEntityRenamed: the old configuration goes at once.
HandleEntityRenamed(e, n) ==
    /\ Len(renames[e]) < MaxRenames
    /\ Publish(<<Publication(e, None)>>)
    /\ renames' = [renames EXCEPT ![e] = Append(@, n)]
    /\ UNCHANGED <<stateReceived, discoveryPublished, name, revoked>>

\* Fault: the new configuration is not forced.
RenameTimerUnforced(e) ==
    /\ renames[e] # <<>>
    /\ name' = [name EXCEPT ![e] = Head(renames[e])]
    /\ renames' = [renames EXCEPT ![e] = Tail(@)]
    /\ PublishDiscovery({d \in {e} : Eligible(d, stateReceived)}, name', <<>>)
    /\ UNCHANGED stateReceived

\* The new one two seconds later, forced.
RenameTimer(e) ==
    /\ renames[e] # <<>>
    /\ name' = [name EXCEPT ![e] = Head(renames[e])]
    /\ renames' = [renames EXCEPT ![e] = Tail(@)]
    /\ PublishDiscovery({e} \ {d \in Entities : option[d] = "hidden"}, name', <<>>)
    /\ UNCHANGED stateReceived

RevokeDiscovery(e) ==
    /\ Publish(<<Publication(e, None)>>)
    /\ discoveryPublished' = discoveryPublished \ {e}
    /\ revoked' = revoked \cup {e}
    /\ UNCHANGED <<stateReceived, name, renames>>

\* Fault: what has been published is not published again.
RepublishUnforced ==
    /\ birth /\ birth' = FALSE
    /\ PublishDiscovery({}, name, <<>>)
    /\ UNCHANGED <<stateReceived, name, renames>>

\* Home Assistant is online.
RepublishDiscovered ==
    /\ birth /\ birth' = FALSE
    /\ PublishDiscovery(discoveryPublished, name, <<>>)
    /\ UNCHANGED <<stateReceived, name, renames>>

OthersUnchanged == UNCHANGED <<option, link, broker, lost>>

Manage ==
    \/ /\ \/ \E e \in Ids : HandleStateReceived(e)
          \/ \E e \in Entities :
                RenameTimer(e) \/ RevokeDiscovery(e) \/ \E n \in Names : HandleEntityRenamed(e, n)
       /\ UNCHANGED birth /\ OthersUnchanged
    \/ RepublishDiscovered /\ OthersUnchanged

-----------------------------------------------------------------------------
(* The connection.                                                         *)

\* The handlers of 'connect'.
Discover == PublishDiscovery({e \in Entities : Eligible(e, stateReceived)}, name, <<Online>>)

\* A session the client had before ends now, with its will.
Connect ==
    /\ link = "down" /\ link' = "up"
    /\ Discover
    /\ session' = TRUE /\ late' = FALSE
    /\ status' = IF session THEN "offline" ELSE status
    /\ UNCHANGED <<option, stateReceived, name, renames, birth, oldSession, config, lost>>

\* What is lost with a connection; of an 'online' it may be the configuration of any entity.
LostNow == lost' = lost \cup Topics(outbox) \cup (IF birth THEN Entities ELSE {})

Lose ==
    /\ link = "up" /\ link' = "down"
    /\ outbox' = <<>> /\ birth' = FALSE /\ LostNow
    /\ UNCHANGED <<option, manager, broker>>

\* The broker finds that a client is gone.
Will ==
    /\ session /\ link = "down"
    /\ session' = FALSE /\ status' = "offline"
    /\ UNCHANGED <<option, manager, link, outbox, birth, oldSession, config, late, lost>>

OldWill ==
    /\ oldSession /\ oldSession' = FALSE
    /\ status' = "offline" /\ late' = session
    /\ UNCHANGED <<option, manager, link, outbox, birth, session, config, lost>>

\* A publication arrives.
Deliver ==
    /\ link = "up" /\ outbox # <<>>
    /\ outbox' = Tail(outbox)
    /\ LET m == Head(outbox)
       IN  IF m = Online
           THEN status' = "online" /\ UNCHANGED <<config, lost>>
           ELSE /\ config' = [config EXCEPT ![m.topic] = m.payload]
                /\ lost' = lost \ {m.topic}
                /\ UNCHANGED status
    /\ UNCHANGED <<option, manager, link, birth, session, oldSession, late>>

-----------------------------------------------------------------------------
(* The others.                                                             *)

\* Home Assistant connects and reads what is retained; its 'online' has what was lost
\* published again.
HomeAssistantConnects ==
    /\ link = "up" /\ ~birth /\ birth' = TRUE
    /\ lost' = lost \ discoveryPublished
    /\ UNCHANGED <<option, manager, link, outbox, broker>>

\* The broker restarts without what was retained.
BrokerForgets ==
    /\ status' = None /\ config' = [e \in Entities |-> None]
    /\ session' = FALSE /\ oldSession' = FALSE
    /\ link' = "down" /\ birth' = FALSE
    /\ outbox' = IF link = "up" THEN <<>> ELSE outbox
    /\ lost' = Entities
    /\ UNCHANGED <<option, manager, late>>

\* The process ends and a new one starts.
Restart ==
    /\ stateReceived' = {} /\ discoveryPublished' = {} /\ revoked' = {}
    /\ name' = [e \in Entities |-> IF renames[e] = <<>> THEN name[e] ELSE Last(renames[e])]
    /\ renames' = [e \in Entities |-> <<>>]
    /\ link' = "down" /\ outbox' = <<Online>> /\ birth' = FALSE
    /\ session' = FALSE /\ oldSession' = (session \/ oldSession)
    /\ lost' = {}
    /\ UNCHANGED <<option, status, config, late>>

Next ==
    \/ Manage \/ Connect \/ Lose \/ Will \/ OldWill \/ Deliver
    \/ HomeAssistantConnects \/ BrokerForgets \/ Restart

Spec == Init /\ [][Next]_vars

\* What has been published arrives as long as there is a connection, and 'online' is handled.
FairSpec ==
    /\ Spec
    /\ WF_vars(Deliver)
    /\ WF_vars(RepublishDiscovered /\ OthersUnchanged)

-----------------------------------------------------------------------------
\* Types; and nothing that is internal or to be skipped counts as published.
TypeOK ==
    /\ option \in Options
    /\ stateReceived \subseteq Ids /\ revoked \subseteq Entities /\ lost \subseteq Entities
    /\ discoveryPublished \subseteq {e \in Entities : option[e] # "hidden"}
    /\ name \in [Entities -> Names]
    /\ renames \in [Entities -> Seq(Names)]
    /\ link \in {"up", "down"}
    /\ {birth, session, oldSession, late} \subseteq BOOLEAN
    /\ \A m \in ToSet(outbox) :
          m = Online \/ (m.topic \in Entities /\ m.payload \in Names \cup {None})
    /\ status \in {None, "online", "offline"}
    /\ config \in [Entities -> Names \cup {None}]

Quiet == link = "up" /\ outbox = <<>> /\ ~birth

\* Once everything has arrived, the broker holds the status 'online' and for each entity what
\* the manager last wanted: the configuration with its present name, or none if it was
\* revoked; through renames that overlap with each other, with revocations, states and lost
\* connections.  A lost message counts until Home Assistant asks again.
BrokerHoldsTheDiscovered ==
    Quiet =>
        /\ status = "online" \/ late
        /\ \A e \in Entities \ lost :
            /\ (e \in discoveryPublished /\ renames[e] = <<>>) => config[e] = name[e]
            /\ e \in revoked => config[e] = None

\* When Home Assistant asks, the broker comes to hold the present name of each entity that has
\* been published, whatever was lost before, if the connection stays.
HomeAssistantIsAnswered ==
    \A e \in Entities :
        (birth /\ e \in discoveryPublished)
            ~> (config[e] = name[e] \/ link = "down" \/ renames[e] # <<>> \/ e \in revoked)
=============================================================================
