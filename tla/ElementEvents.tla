---------------------------- MODULE ElementEvents ----------------------------
(***************************************************************************)
(* The tree of elements, the event handlers that resources have bound to   *)
(* them, and how elements and resources go away.  An event is called on    *)
(* its source, then on the ancestors of the source, then on its            *)
(* descendants; at each element, on every handler.  A handler is a Lua     *)
(* function: in the middle of the traversal it may bind and remove         *)
(* handlers, move and destroy elements, call further events and start      *)
(* resources, so each list that is being walked may change underfoot.      *)
(* The code copes by copying lists, by flags, and by postponing:  a        *)
(* handler removed from a list that is being called goes to a trash can, a *)
(* destroyed element is freed at the end of the frame.                     *)
(*                                                                         *)
(* Everything runs on the server's main thread.  `stack` is its calls, the *)
(* innermost last; one action is what the code does up to the next call or *)
(* return.  Script runs while a frame "run" or "start" is at the top.      *)
(* All handlers are of one event: one that is not called, because its name *)
(* differs or it is not propagated, is one whose function does nothing.    *)
(* All elements are of one kind, apart from maps: scripts may destroy any, *)
(* players too, but move none back to the root, as they may a player; and  *)
(* no onPlayerTeamChange precedes the deletion of a team.                  *)
(***************************************************************************)
EXTENDS Naturals, Sequences, FiniteSets

CONSTANTS
    Elements,    \* the CElement objects, apart from the root
    Root,        \* CMapManager's root element
    Maps,        \* the elements of type "map": scripts may move elements into them
    Handlers,    \* the CMapEvent objects
    VMs,         \* the Lua VMs, one for each resource
    NoElement, NoHandler, NoVM,
    Pool,        \* bound: the elements and handlers that a resource, or the game, can have
    MaxScripts,  \* bound: scripts on the stack when an event is called or a resource started
    MaxDestroys  \* bound: scripts on the stack when an element is destroyed

ASSUME NullAssumption == /\ Root \notin Elements /\ NoElement \notin Elements \cup {Root}
                         /\ NoHandler \notin Handlers /\ NoVM \notin VMs
ASSUME BoundAssumption == MaxScripts \in Nat /\ MaxDestroys \in Nat
ASSUME MapsAssumption == Maps \subseteq Elements

VARIABLES
    alive,       \* elements that have been made and not freed
    doomed,      \* CElementDeleter::m_List, the elements flagged m_bIsBeingDeleted
    parent,      \* m_pParent; m_Children is its inverse
    group,       \* the resource in whose CElementGroup an element is
    on,          \* in whose CMapEventManager a handler is; not in use if in none
    owner,       \* CMapEvent::m_pMain
    trash,       \* the handlers flagged m_bBeingDestroyed, in the m_TrashCans
    iterating,   \* the elements whose CMapEventManager has m_bIteratingList
    open,        \* VMs that exist
    stack        \* the suspended calls

tree == <<alive, doomed, parent, group>>
events == <<on, owner, trash, iterating>>
vars == <<tree, events, open, stack>>

Nodes == Elements \cup {Root}

-----------------------------------------------------------------------------
(* The tree *)

Live == alive \ doomed                  \* those scripts can name
Visible == Live \cup {Root}
Children(e) == {c \in Elements : parent[c] = e}
Parent(e) == IF e = Root THEN NoElement ELSE parent[e]

\* e is x or an ancestor of x.
Under(x, e) == \A S \in SUBSET Nodes :
                  (x \in S /\ \A y \in S : Parent(y) \in S \cup {NoElement}) => e \in S

-----------------------------------------------------------------------------
(* The main thread's stack *)

\* "climb" is CallParentEvent after the handlers of one element, "spread" and
\* "down" CallEventNoParent after them and in its loop, "call" CMapEventManager's
\* Call, "run" one handler's function, "start" the scripts of a resource that is
\* starting, "stop" and "abort" the deletion of a resource's elements before and
\* after its VM's, "destroy" DestroyElement's loop, "unlink" the second half of
\* CElementDeleter::Delete.
Kinds == {"climb", "spread", "down", "call", "run", "start", "stop", "abort",
          "destroy", "unlink"}
Frames == [kind : Kinds, at : Nodes, source : Nodes,
           left : SUBSET Elements, todo : SUBSET Handlers, nested : BOOLEAN,
           handler : Handlers \cup {NoHandler}, vm : VMs \cup {NoVM}]

At(kind, e, source) ==
    [kind |-> kind, at |-> e, source |-> source, left |-> {}, todo |-> {},
     nested |-> FALSE, handler |-> NoHandler, vm |-> NoVM]
Down(e, left) == [At("down", e, e) EXCEPT !.left = left]
CallOf(e, todo, nested) ==
    [kind |-> "call", at |-> e, source |-> e, left |-> {}, todo |-> todo,
     nested |-> nested, handler |-> NoHandler, vm |-> NoVM]
Run(e, h) == [At("run", e, e) EXCEPT !.handler = h]
Resource(kind, v) == [At(kind, Root, Root) EXCEPT !.vm = v]

Top == stack[Len(stack)]
Running(kind) == stack # <<>> /\ Top.kind = kind
Caller == SubSeq(stack, 1, Len(stack) - 1)
Push(f) == stack' = Append(stack, f)
Become(f) == stack' = Append(Caller, f)
Return == stack' = Caller

\* The script of v has control.
InScript(v) == \/ Running("run") /\ owner[Top.handler] = v
               \/ Running("start") /\ Top.vm = v
Idle == stack = <<>>

\* A call may begin: from a packet, a timer or the game itself, or from script.
MayCall(bound) ==
    /\ Idle \/ Running("run") \/ Running("start")
    /\ Cardinality({i \in 1..Len(stack) : stack[i].kind \in {"run", "start"}}) <= bound

-----------------------------------------------------------------------------
(* Handlers: what scripts bind and remove, CMapEventManager::Add, Delete *)

HandlersOf(e) == {h \in Handlers : on[h] = e}

Freed(F) == /\ on' = [h \in Handlers |-> IF h \in F THEN NoElement ELSE on[h]]
            /\ owner' = [h \in Handlers |-> IF h \in F THEN NoVM ELSE owner[h]]

Delete(S) ==
    LET postponed == {h \in S : on[h] \in iterating}
    IN  /\ trash' = trash \cup postponed
        /\ Freed(S \ postponed)
        /\ UNCHANGED iterating

AddEventHandler(v, e, h) ==
    /\ InScript(v) /\ e \in Visible /\ on[h] = NoElement /\ h \in Pool[v]
    /\ on' = [on EXCEPT ![h] = e]
    /\ owner' = [owner EXCEPT ![h] = v]
    /\ UNCHANGED <<tree, trash, iterating, open, stack>>

RemoveEventHandler(v, h) ==
    /\ InScript(v) /\ owner[h] = v /\ on[h] \in Visible /\ h \notin trash
    /\ Delete({h})
    /\ UNCHANGED <<tree, open, stack>>

-----------------------------------------------------------------------------
(* Calling an event *)

\* An event comes to an element, with the calls `below` suspended: the handlers
\* hs of the element are called, on a copy of the list, before f goes on.
Visit(below, f, hs) ==
    IF hs = {}
    THEN stack' = Append(below, f) /\ UNCHANGED iterating
    ELSE /\ stack' = Append(Append(below, f), CallOf(f.at, hs, f.at \in iterating))
         /\ iterating' = iterating \cup {f.at}

TriggerEvent(e) ==
    /\ MayCall(MaxScripts) /\ e \in Visible
    /\ Visit(stack, At("climb", e, e), HandlersOf(e))
    /\ UNCHANGED <<tree, on, owner, trash, open>>

\* On to the parent that the element has now, after its handlers.
\* Mutant: a deleted element still leads on to where it was.
MutClimb ==
    /\ Running("climb")
    /\ LET p == Parent(Top.at)
       IN  Visit(Caller, At("climb", p, Top.source), HandlersOf(p))
    /\ UNCHANGED <<tree, on, owner, trash, open>>
Climb ==
    /\ Running("climb")
    /\ LET p == Parent(Top.at)
       IN  IF p # NoElement
           THEN Visit(Caller, At("climb", p, Top.source), HandlersOf(p))
           ELSE Become(At("spread", Top.source, Top.source)) /\ UNCHANGED iterating
    /\ UNCHANGED <<tree, on, owner, trash, open>>

\* CallEventNoParent: the children that the element has after its handlers, or
\* those left of them once the loop is under way; in any order.
Left == IF Top.kind = "spread" THEN Children(Top.at) ELSE Top.left
Ahead == {c \in Left \ doomed : HandlersOf(c) \cup Children(c) # {}}
Spreading == Running("spread") \/ Running("down")

DownTo(c) ==
    /\ Spreading /\ Top.at \notin doomed /\ c \in Ahead
    /\ Visit(Append(Caller, Down(Top.at, Left \ {c})), At("spread", c, c), HandlersOf(c))
    /\ UNCHANGED <<tree, on, owner, trash, open>>

DownEnds ==
    /\ Spreading /\ (Top.at \in doomed \/ Ahead = {})
    /\ Return
    /\ UNCHANGED <<tree, events, open>>

\* The next handler of the copied list that has not been removed.
CallHandler(h) ==
    /\ Running("call") /\ h \in Top.todo \ trash
    /\ stack' = Append(Append(Caller, [Top EXCEPT !.todo = @ \ {h}]), Run(Top.at, h))
    /\ UNCHANGED <<tree, events, open>>

HandlerReturns ==
    /\ Running("run")
    /\ Return
    /\ UNCHANGED <<tree, events, open>>

\* The outermost Call of a manager takes out the trash.
\* Mutant: every Call does, those nested in it too.
MutCallEnds ==
    /\ Running("call") /\ Top.todo \subseteq trash
    /\ LET e == Top.at
       IN  /\ Freed(HandlersOf(e) \cap trash)
           /\ trash' = trash \ HandlersOf(e)
           /\ iterating' = iterating \ {e}
    /\ Return
    /\ UNCHANGED <<tree, open>>
CallEnds ==
    /\ Running("call") /\ Top.todo \subseteq trash
    /\ IF Top.nested
       THEN UNCHANGED events
       ELSE LET e == Top.at
            IN  /\ Freed(HandlersOf(e) \cap trash)
                /\ trash' = trash \ HandlersOf(e)
                /\ iterating' = iterating \ {e}
    /\ Return
    /\ UNCHANGED <<tree, open>>

-----------------------------------------------------------------------------
(* Elements come, move and go *)

CreateElement(v, e) ==
    /\ e \notin alive /\ e \in Pool[v]
    /\ InScript(v) \/ (Idle /\ v = NoVM)
    /\ alive' = alive \cup {e}
    /\ parent' = [parent EXCEPT ![e] = Root]
    /\ group' = [group EXCEPT ![e] = v]
    /\ UNCHANGED <<doomed, events, open, stack>>

\* Mutant: IsMyChild is not asked.
MutSetElementParent(e, p) ==
    /\ Running("run") \/ Running("start")
    /\ e \in Live /\ p \in Live
    /\ \E m \in Maps : Under(p, m)
    /\ parent' = [parent EXCEPT ![e] = p]
    /\ UNCHANGED <<alive, doomed, group, events, open, stack>>
SetElementParent(e, p) ==
    /\ Running("run") \/ Running("start")
    /\ e \in Live /\ p \in Live
    /\ \E m \in Maps : Under(p, m)
    /\ ~Under(p, e)
    /\ parent' = [parent EXCEPT ![e] = p]
    /\ UNCHANGED <<alive, doomed, group, events, open, stack>>

DestroyElement(e) ==
    /\ MayCall(MaxDestroys) /\ ~Idle /\ e \in Live
    /\ Push(At("destroy", e, e))
    /\ UNCHANGED <<tree, events, open>>

\* The loop over the children, which begins anew after each.
DestroyChild(c) ==
    /\ Running("destroy") /\ c \in Children(Top.at)
    /\ Push(At("destroy", c, c))
    /\ UNCHANGED <<tree, events, open>>

\* CElementDeleter::Delete, up to onElementDestroy.
Deletes(below, e, hs) ==
    Visit(Append(below, At("unlink", e, e)), At("climb", e, e), hs)

\* No children left.  FALSE if a handler has destroyed the element meanwhile.
\* Had DestroyElement called itself, its loop over the children would now go on
\* from an iterator that it has lost, and what the program does is undefined:
\* the model ends here.
DestroyThis ==
    /\ Running("destroy") /\ Children(Top.at) = {}
    /\ LET e == Top.at
       IN  IF e \in doomed
           THEN /\ Len(stack) > 1 => stack[Len(stack) - 1].kind # "destroy"
                /\ Return /\ UNCHANGED iterating
           ELSE Deletes(Caller, e, HandlersOf(e))
    /\ UNCHANGED <<tree, on, owner, trash, open>>

\* The game deletes an element: a player quits, say.
DeleteElement(e) ==
    /\ Idle /\ e \in Live
    /\ Deletes(stack, e, HandlersOf(e))
    /\ UNCHANGED <<tree, on, owner, trash, open>>

\* After the event; once more if a handler has deleted the element already.
\* Mutant: the children stay with the deleted element.
MutUnlink ==
    /\ Running("unlink")
    /\ doomed' = doomed \cup {Top.at}
    /\ parent' = [parent EXCEPT ![Top.at] = NoElement]
    /\ Return
    /\ UNCHANGED <<alive, group, events, open>>
Unlink ==
    /\ Running("unlink")
    /\ LET e == Top.at
       IN  /\ doomed' = doomed \cup {e}
           /\ parent' = [c \in Elements |-> IF c = e THEN NoElement
                                            ELSE IF parent[c] = e THEN parent[e]
                                            ELSE parent[c]]
    /\ Return
    /\ UNCHANGED <<alive, group, events, open>>

\* At the end of the frame.
DoDeleteAll ==
    /\ Idle /\ doomed # {}
    /\ Freed({h \in Handlers \ trash : on[h] \in doomed})
    /\ group' = [e \in Elements |-> IF e \in doomed THEN NoVM ELSE group[e]]
    /\ alive' = Live
    /\ doomed' = {}
    /\ UNCHANGED <<parent, trash, iterating, open, stack>>

-----------------------------------------------------------------------------
(* Resources start and stop *)

Group(v) == {e \in Elements : group[e] = v}
Stopping(v) == \E i \in 1..Len(stack) : stack[i].kind = "abort" /\ stack[i].vm = v

\* DestroyVM: its handlers in the tree and on doomed elements.
\* Mutant: the doomed elements are forgotten.
MutHandlersFor(v) ==
    {h \in Handlers : owner[h] = v /\ h \notin trash /\ on[h] \in Nodes /\ Under(on[h], Root)}
HandlersFor(v) ==
    {h \in Handlers : /\ owner[h] = v /\ h \notin trash
                      /\ \/ on[h] \in Nodes /\ Under(on[h], Root)
                         \/ on[h] \in doomed}
DestroyVM(v) == Delete(HandlersFor(v)) /\ open' = open \ {v}

\* startResource, or the request queue: the VM is made, and its scripts run.
StartResource(v) ==
    /\ MayCall(MaxScripts) /\ v \notin open /\ ~Stopping(v)
    /\ open' = open \cup {v}
    /\ Push(Resource("start", v))
    /\ UNCHANGED <<tree, events>>

ResourceStarted ==
    /\ Running("start")
    /\ Return
    /\ UNCHANGED <<tree, events, open>>

\* onResourceStart was cancelled: Stop at once.
StartCancelled ==
    /\ Running("start")
    /\ Become(Resource("stop", Top.vm))
    /\ UNCHANGED <<tree, events, open>>

\* A file of the resource did not start: the VM goes before the elements.
StartAborted ==
    /\ Running("start")
    /\ DestroyVM(Top.vm)
    /\ Become(Resource("abort", Top.vm))
    /\ UNCHANGED tree

\* stopResource only files a request, which the game serves when it is idle.
StopResource(v) ==
    /\ Idle /\ v \in open
    /\ Push(Resource("stop", v))
    /\ UNCHANGED <<tree, events, open>>

\* ~CElementGroup: the next element loses its handlers and is deleted.
GroupDeletes(e) ==
    /\ Running("stop") \/ Running("abort")
    /\ e \in Group(Top.vm)
    /\ group' = [group EXCEPT ![e] = NoVM]
    /\ Freed(HandlersOf(e) \ trash)
    /\ IF e \in doomed THEN UNCHANGED <<iterating, stack>>
       ELSE Deletes(stack, e, HandlersOf(e) \cap trash)
    /\ UNCHANGED <<alive, doomed, parent, trash, open>>

ResourceStopped ==
    /\ Running("stop") /\ Group(Top.vm) = {}
    /\ DestroyVM(Top.vm)
    /\ Return
    /\ UNCHANGED tree

StartFails ==
    /\ Running("abort") /\ Group(Top.vm) = {}
    /\ Return
    /\ UNCHANGED <<tree, events, open>>

-----------------------------------------------------------------------------
Init ==
    /\ alive = {} /\ doomed = {}
    /\ parent = [e \in Elements |-> NoElement]
    /\ group = [e \in Elements |-> NoVM]
    /\ on = [h \in Handlers |-> NoElement]
    /\ owner = [h \in Handlers |-> NoVM]
    /\ trash = {} /\ iterating = {} /\ open = {}
    /\ stack = <<>>

Scripts ==
    \/ \E v \in VMs, e \in Nodes, h \in Handlers : AddEventHandler(v, e, h)
    \/ \E v \in VMs, h \in Handlers : RemoveEventHandler(v, h)
    \/ \E e \in Nodes : TriggerEvent(e)
    \/ \E v \in VMs \cup {NoVM}, e \in Elements : CreateElement(v, e)
    \/ \E e, p \in Elements : SetElementParent(e, p)
    \/ \E e \in Elements : DestroyElement(e)
    \/ \E v \in VMs : StartResource(v)

Game ==
    \/ \E e \in Elements : DeleteElement(e)
    \/ \E v \in VMs : StopResource(v)
    \/ DoDeleteAll

Calls ==
    \/ Climb \/ \E c \in Elements : DownTo(c)
    \/ DownEnds
    \/ \E h \in Handlers : CallHandler(h)
    \/ HandlerReturns \/ CallEnds
    \/ \E c \in Elements : DestroyChild(c)
    \/ DestroyThis \/ Unlink
    \/ ResourceStarted \/ StartCancelled \/ StartAborted
    \/ \E e \in Elements : GroupDeletes(e)
    \/ ResourceStopped \/ StartFails

Next == Scripts \/ Game \/ Calls

Spec == Init /\ [][Next]_vars

-----------------------------------------------------------------------------
(* Properties *)

\* Every variable is of its type; a handler has a VM exactly while it is on an
\* element, and an element that is not alive is in no group and has no parent.
TypeOK ==
    /\ alive \subseteq Elements /\ doomed \subseteq alive
    /\ parent \in [Elements -> Nodes \cup {NoElement}]
    /\ group \in [Elements -> VMs \cup {NoVM}]
    /\ on \in [Handlers -> Nodes \cup {NoElement}]
    /\ owner \in [Handlers -> VMs \cup {NoVM}]
    /\ trash \subseteq Handlers /\ iterating \subseteq Nodes /\ open \subseteq VMs
    /\ stack \in Seq(Frames)
    /\ \A h \in Handlers : on[h] = NoElement <=> owner[h] = NoVM
    /\ \A e \in Elements \ alive : group[e] = NoVM /\ parent[e] = NoElement

\* What suspended calls will still use exists: their elements, the handlers on
\* their copied lists, which CMapEventManager::Call looks at before and after
\* it calls each, and the VM of a handler that is running.  A list is flagged
\* as being called exactly while some call is at it, and has trash only then,
\* as ~CMapEventManager asserts.
NothingInUseIsFreed ==
    /\ \A i \in 1..Len(stack) :
          LET f == stack[i]
          IN  /\ {f.at, f.source} \subseteq alive \cup {Root}
              /\ f.left \subseteq alive
              /\ \A h \in f.todo : on[h] = f.at
              /\ f.kind = "run" => on[f.handler] = f.at /\ owner[f.handler] \in open
              /\ f.kind \in {"start", "stop"} => f.vm \in open
    /\ iterating = {stack[i].at : i \in {j \in 1..Len(stack) : stack[j].kind = "call"}}
    /\ \A h \in trash : on[h] \in iterating

\* A deleted element has left the tree: it has no parent and no children, so
\* no event that is climbing or spreading will come to it, whatever the
\* handlers of its onElementDestroy have moved or deleted.
DeletedAreOut ==
    /\ \A e \in Elements \ Live : parent[e] = NoElement
    /\ \A e \in Live : parent[e] \in Visible

\* Every element is in the tree until it is deleted, and the tree has no
\* cycles: what the root does for all of its descendants reaches everything.
AllReachRoot == \A e \in Live : Under(e, Root)

\* Scripts see handlers that are bound until they are removed, and no more:
\* neither copies nor postponed deletions show, and a resource that has
\* stopped is never called.  See HandlerService.
Bound == {<<h, owner[h]>> : h \in {g \in Handlers : on[g] # NoElement} \ trash}
Called == {<<i, <<stack[i].handler, owner[stack[i].handler]>>>> :
              i \in {j \in 1..Len(stack) : stack[j].kind = "run"}}
Service == INSTANCE HandlerService WITH bound <- Bound, running <- Called
ImplementsService == Service!Spec
=============================================================================
