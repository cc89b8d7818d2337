--------------------------- MODULE MCToolCatalog -----------------------------
(* Two processes that import, edit and synchronise the two actions of one   *)
(* integration (ToolRegistry.cfg). Its template is uploaded, since an action *)
(* of a default template could only not be removed; and the names and the   *)
(* key are only compared, so that the two actions may be swapped.           *)
(* One process with two integrations of one kind, whose templates name the  *)
(* same action (ToolDiscovery.cfg).                                         *)
EXTENDS ToolCatalog, TLC

CONSTANTS p1, p2, q1, q2, q3, mail, mail2, drive

TwoPods == {p1, p2}
ThreeRequests == {q1, q2, q3}
ThreePodOf == (q1 :> p1) @@ (q2 :> p1) @@ (q3 :> p2)
OnePod == {p1}
TwoRequests == {q1, q2}
TwoPodOf == (q1 :> p1) @@ (q2 :> p1)

TwoActions == {mail, drive}
OneKeyOf == [a \in TwoActions |-> "google-drive"]
TwoNameOf == (mail :> "list_messages") @@ (drive :> "list_files")
ThreeActions == {mail, mail2, drive}
ThreeKeyOf ==
  (mail :> "google-mail") @@ (mail2 :> "google-mail-2") @@ (drive :> "google-drive")
ThreeNameOf == TwoNameOf @@ (mail2 :> "list_messages")

UploadedKeys == {"google-drive"}
FullListing == {{mail, drive}}
SomeListings == {{drive}, {mail, drive}}
SharedPod == Permutations({q1, q2})
SharedPodAndKey == {f @@ g : f \in SharedPod, g \in Permutations(TwoActions)}
=============================================================================
