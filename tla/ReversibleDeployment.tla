------------------------- MODULE ReversibleDeployment -------------------------
(***************************************************************************)
(* What the deployment commands promise an administrator: seen between     *)
(* commands, each one replaces the whole deployment, changes one           *)
(* credential, or leaves it alone.  A crash in the middle or a recovery    *)
(* that fails makes the deployment suspect, and the next complete          *)
(* publication ends that.                                                  *)
(***************************************************************************)
EXTENDS Naturals

CONSTANTS Nodes, Templates, NoTemplate, Files, TemplateFiles, ServerFile,
          NamesOf, Absent

VARIABLES image,    \* configuration, artifacts and active file
          suspect   \* the files may belong to different configurations

vars == <<image, suspect>>

Configs == [node : Nodes, template : Templates, secret : Nat]

Content(c, f) ==
  [node |-> c.node,
   template |-> IF f \in TemplateFiles THEN c.template ELSE NoTemplate]

(* The complete deployment of c, with or without an active file. *)
WholeImages(c) ==
  [config   : {c},
   artifact : {[f \in Files |-> IF f \in NamesOf[c.node] THEN Content(c, f)
                                                         ELSE Absent]},
   active   : {Absent, Content(c, ServerFile)}]

Nothing == [config |-> Absent, artifact |-> [f \in Files |-> Absent],
            active |-> Absent]

Init ==
  /\ \/ image = Nothing
     \/ \E n \in Nodes, t \in Templates :
          image \in WholeImages([node |-> n, template |-> t, secret |-> 0])
  /\ suspect = FALSE

(* The first configuration of a host. *)
Initialize ==
  /\ image = Nothing
  /\ \E n \in Nodes, t \in Templates :
       image' \in WholeImages([node |-> n, template |-> t, secret |-> 0])
  /\ UNCHANGED suspect

(* A new configuration is published whole; it keeps the credential. *)
Publish ==
  /\ image.config # Absent
  /\ \E n \in Nodes, t \in Templates :
       image' \in WholeImages([image.config EXCEPT !.node = n, !.template = t])
  /\ suspect' = FALSE

(* The credential is replaced by a newer one and nothing else changes. *)
Rotate ==
  /\ image.config # Absent
  /\ image'.config # Absent
  /\ image'.config.secret > image.config.secret
  /\ image' = [image EXCEPT !.config.secret = image'.config.secret]
  /\ UNCHANGED suspect

(* A crash or a failed recovery: nothing is promised about the files until *)
(* a whole deployment is published again, only that no credential older    *)
(* than the configuration's comes back.                                    *)
Damage ==
  /\ suspect'
  /\ image.config # Absent =>
       image'.config # Absent /\ image'.config.secret >= image.config.secret

Next == Initialize \/ Publish \/ Rotate \/ Damage

Spec == Init /\ [][Next]_vars
=============================================================================
