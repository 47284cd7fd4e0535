-------------------------- MODULE ExtensionRegistry --------------------------
(* The host's registry of extension contributions                           *)
(* (src/apps/windows/Aurorix.Platform.Windows/Extensions/                    *)
(* ExtensionContributionRegistry.cs): every call under the gate, but a       *)
(* dispatch, which looks the action up twice and calls the router outside   *)
(* it.  The checks of a manifest's text and versions are one flag; page     *)
(* parameters, ordering and what a slot shows are left out.                  *)
EXTENDS Naturals

CONSTANTS
  Manifests,       \* [extension, valid, enabled, actions, routes] records
  Extensions,
  Actions,         \* contribution ids of actions
  NoCommand,       \* no such action; otherwise its command namespace
  Callers,
  NoManifest, NoCall

ASSUME RegistryAssumption ==
  \A m \in Manifests :
    /\ DOMAIN m = {"extension", "valid", "enabled", "actions", "routes"}
    /\ m.extension \in Extensions /\ m.enabled \in BOOLEAN /\ DOMAIN m.actions = Actions

VARIABLES
  manifests,       \* _manifests, for each extension
  call,            \* the dispatch each caller is in
  delivered        \* what the router was last given, and whether it ever was on offer

registryVars == <<manifests, call, delivered>>

Registered(x) == manifests[x] # NoManifest
Offers(ms, x, a, command) ==
  ms[x] # NoManifest /\ ms[x].enabled /\ ms[x].actions[a] = command /\ command # NoCommand

Call(x, a, command, found, offered) ==
  [extension |-> x, action |-> a, command |-> command, found |-> found,
   offered |-> offered]

RegistryInit ==
  /\ manifests = [x \in Extensions |-> NoManifest]
  /\ call      = [c \in Callers |-> NoCall]
  /\ delivered = NoCall

-----------------------------------------------------------------------------
\* A call in progress saw its action on offer at some moment since it began.
Noticing ==
  call' = [c \in Callers |->
    LET k == call[c] IN
    IF k = NoCall THEN NoCall
    ELSE Call(k.extension, k.action, k.command, k.found,
              k.offered \/ Offers(manifests', k.extension, k.action, k.command))]

\* Routes are unique in the host, those of disabled extensions included.
RouteTaken(m) ==
  \E x \in Extensions \ {m.extension} :
    Registered(x) /\ manifests[x].routes \cap m.routes # {}

\* The flag of the manifest decides again whether the extension is enabled.
TryRegister(m) ==
  /\ m.valid /\ ~RouteTaken(m)
  /\ manifests' = [manifests EXCEPT ![m.extension] = m]
  /\ Noticing /\ UNCHANGED delivered

TrySetEnabled(x, enabled) ==
  /\ Registered(x)
  /\ manifests' = [manifests EXCEPT ![x].enabled = enabled]
  /\ Noticing /\ UNCHANGED delivered

-----------------------------------------------------------------------------
(* DispatchActionAsync                                                       *)

FindAction(x, a) == IF Registered(x) THEN manifests[x].actions[a] ELSE NoCommand
IsDisabled(x, a) == FindAction(x, a) # NoCommand /\ ~manifests[x].enabled

\* The overload without a command takes the one it finds.
Look(c, x, a) ==
  /\ call[c] = NoCall
  /\ FindAction(x, a) # NoCommand /\ ~IsDisabled(x, a)
  /\ call' = [call EXCEPT ![c] = Call(x, a, FindAction(x, a), FALSE, TRUE)]
  /\ UNCHANGED <<manifests, delivered>>

\* The other takes the caller's.
Invoke(c, x, a, command) ==
  /\ call[c] = NoCall
  /\ call' = [call EXCEPT ![c] =
                Call(x, a, command, FALSE, Offers(manifests, x, a, command))]
  /\ UNCHANGED <<manifests, delivered>>

\* Mutant: the command is not compared with the one registered now.
MutantStands(k) ==
  ~IsDisabled(k.extension, k.action) /\ FindAction(k.extension, k.action) # NoCommand

Stands(k) ==
  /\ ~IsDisabled(k.extension, k.action)
  /\ FindAction(k.extension, k.action) = k.command /\ k.command # NoCommand

LookAgain(c) ==
  /\ call[c] # NoCall /\ ~call[c].found
  /\ call' = [call EXCEPT ![c] =
       IF Stands(@) THEN Call(@.extension, @.action, @.command, TRUE, @.offered)
       ELSE NoCall]
  /\ UNCHANGED <<manifests, delivered>>

\* Whatever the router answers, and unless the caller has cancelled.
Deliver(c) ==
  /\ call[c] # NoCall /\ call[c].found
  /\ delivered' = call[c]
  /\ call' = [call EXCEPT ![c] = NoCall]
  /\ UNCHANGED manifests

CancelCall(c) ==
  /\ call[c] # NoCall /\ call[c].found
  /\ call' = [call EXCEPT ![c] = NoCall]
  /\ UNCHANGED <<manifests, delivered>>

Commands == {m.actions[a] : m \in Manifests, a \in Actions} \ {NoCommand}

RegistryNext ==
  \/ \E m \in Manifests : TryRegister(m)
  \/ \E x \in Extensions, e \in BOOLEAN : TrySetEnabled(x, e)
  \/ \E c \in Callers :
       \/ \E x \in Extensions, a \in Actions :
            Look(c, x, a) \/ \E k \in Commands : Invoke(c, x, a, k)
       \/ LookAgain(c) \/ Deliver(c) \/ CancelCall(c)

-----------------------------------------------------------------------------
\* Whatever is registered, replaced, disabled and enabled again, a route leads
\* to one extension (RenderPlaceholderPage takes the first it meets).
RoutesAreUnique ==
  \A x, y \in Extensions :
    (x # y /\ Registered(x) /\ Registered(y)) => manifests[x].routes \cap manifests[y].routes = {}

\* The router is only given commands that an enabled extension offered for that
\* action at some moment of the call, however the extension is replaced or
\* disabled between the two lookups and after them (DispatchActionCoreAsync).
DispatchedWasOffered == delivered # NoCall => delivered.offered
=============================================================================
