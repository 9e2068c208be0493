--------------------------------- MODULE Kit ---------------------------------
(* The kit from its load on: Startup, then the calls of a running plugin into   *)
(* the engine.  One scene of calls per host keeps the calls of one kind apart.  *)
EXTENDS Entities, Messaging

kitVars == <<startupVars, entityVars, messagingVars>>

KitInit == StartupInit /\ EntitiesInit /\ MessagingInit

KitNext ==
  \/ StartupNext /\ UNCHANGED <<entityVars, messagingVars>>
  \/ /\ phase = "running"
     /\ \/ EntitiesNext /\ UNCHANGED messagingVars
        \/ MessagingNext /\ UNCHANGED entityVars
     /\ UNCHANGED startupVars

KitSpec == KitInit /\ [][KitNext]_kitVars

=============================================================================
