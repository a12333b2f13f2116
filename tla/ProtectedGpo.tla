---------------------------- MODULE ProtectedGpo ----------------------------
(* What the program may do to a live GPO that administrators edit as well, *)
(* without processes, lock files, manifests, phases and kills: one writer  *)
(* at a time; an operation begins once, over the very state that was       *)
(* reviewed, and adds only its own values and the link; a restore begins   *)
(* over what the operation (or a later one of its batch) left itself, or   *)
(* over the snapshot, and leads to the snapshot and nothing else; and a    *)
(* writer may stop anywhere. GpoWorker implements this.                    *)
EXTENDS Naturals

CONSTANTS Op, NoOp,
          Item,         \* Op -> the values its mapping writes
          Foreign       \* what other tools add or remove

VARIABLES gpo,          \* content, link and fingerprint (rev)
          plan,         \* Op -> the state that was reviewed
          own,          \* Op -> the fingerprint its own work last left
          begun,        \* operations that began to write
          writer        \* who may write now, and what for
protectedVars == <<gpo, plan, own, begun, writer>>

Unreviewed == [fp |-> 0, content |-> {}, linked |-> FALSE]
NoOne == [op |-> NoOp, basis |-> NoOp, does |-> "nothing"]

ProtectedInit ==
    /\ gpo \in [content : {{}}, linked : BOOLEAN, rev : {1}]
    /\ plan = [o \in Op |-> Unreviewed] /\ own = [o \in Op |-> 0]
    /\ begun = {} /\ writer = NoOne

Review(o) ==
    /\ plan[o] = Unreviewed
    /\ plan' = [plan EXCEPT ![o] = [fp |-> gpo.rev, content |-> gpo.content,
                                    linked |-> gpo.linked]]
    /\ own' = [own EXCEPT ![o] = gpo.rev]
    /\ UNCHANGED <<gpo, begun, writer>>

Becomes(content, linked) ==
    gpo' = [content |-> content, linked |-> linked, rev |-> gpo.rev + 1]

EditedElsewhere ==
    /\ writer = NoOne
    /\ \E content \in {gpo.content \cup {Foreign}, gpo.content \ {Foreign}} :
         Becomes(content, gpo.linked)
    /\ UNCHANGED <<plan, own, begun, writer>>

BeginApply(o) ==
    /\ writer = NoOne
    /\ plan[o] # Unreviewed /\ o \notin begun
    /\ gpo.rev = plan[o].fp
    /\ begun' = begun \cup {o}
    /\ writer' = [op |-> o, basis |-> o, does |-> "apply"]
    /\ UNCHANGED <<gpo, plan, own>>

\* The operation's own work goes on from what it, or its basis, left.
Writes(from, content, linked) ==
    /\ Becomes(content, linked)
    /\ own' = IF gpo.rev = own[from] THEN [own EXCEPT ![writer.op] = gpo.rev + 1]
              ELSE own
    /\ UNCHANGED <<plan, begun, writer>>

Apply ==
    /\ writer.does = "apply" /\ gpo.rev = own[writer.op]
    /\ \/ \E i \in Item[writer.op] \ gpo.content :
            Writes(writer.op, gpo.content \cup {i}, gpo.linked)
       \/ ~gpo.linked /\ Writes(writer.op, gpo.content, TRUE)

BeginRestore(o, b) ==
    /\ writer = NoOne
    /\ o \in begun /\ b \in begun
    /\ \/ gpo.rev \in {own[o], own[b]}
       \/ gpo.content = plan[o].content /\ gpo.linked = plan[o].linked
    /\ writer' = [op |-> o, basis |-> b, does |-> "restore"]
    /\ UNCHANGED <<gpo, plan, own, begun>>

Restore ==
    /\ writer.does = "restore"
    /\ \E from \in {writer.op, writer.basis} :
         \/ Writes(from, plan[writer.op].content, gpo.linked)
         \/ /\ gpo.linked # plan[writer.op].linked
            /\ Writes(from, gpo.content, plan[writer.op].linked)

Leave ==
    /\ writer # NoOne /\ writer' = NoOne
    /\ UNCHANGED <<gpo, plan, own, begun>>

ProtectedNext ==
    \/ \E o \in Op : Review(o) \/ BeginApply(o) \/ \E b \in Op : BeginRestore(o, b)
    \/ EditedElsewhere \/ Apply \/ Restore \/ Leave
ProtectedSpec == ProtectedInit /\ [][ProtectedNext]_protectedVars
=============================================================================
