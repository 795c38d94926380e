------------------------------- MODULE Receive -------------------------------
(***************************************************************************)
(* What the server does with what a client sends, besides handing it to a  *)
(* script: binary framings and HTTP, the receive timeout, uploads,         *)
(* downloads and roles.                                                    *)
(* These parts share no state; a server exercises one of them.             *)
(***************************************************************************)
EXTENDS ReceiveBuffer, HttpBuffer, ReceiveTimeout, Uploads, FileRead, ClientRoles

CONSTANT Parts   \* the parts that are exercised

ASSUME PartsAssumption ==
    Parts \subseteq {"framing", "http", "timeout", "uploads", "downloads", "roles"}

VARIABLE part

vars == <<part, receive_vars, http_vars, timeout_vars, upload_vars, file_vars, role_vars>>

Init ==
    /\ part \in Parts
    /\ InitReceive /\ InitHttp /\ InitTimeout /\ InitUploads /\ InitFiles /\ InitRoles
    \* Nobody else looks at these.
    /\ part # "timeout" => \A n \in Timeouts : timeout <= n
    /\ part # "framing" => server_type = "header2"
    /\ part # "http" => \A b \in Bodies : body <= b

Next ==
    /\ UNCHANGED part
    /\ \/ /\ part = "framing" /\ ReceiveStep
          /\ UNCHANGED <<http_vars, timeout_vars, upload_vars, file_vars, role_vars>>
       \/ /\ part = "http" /\ HttpStep
          /\ UNCHANGED <<receive_vars, timeout_vars, upload_vars, file_vars, role_vars>>
       \/ /\ part = "timeout" /\ TimeoutStep
          /\ UNCHANGED <<receive_vars, http_vars, upload_vars, file_vars, role_vars>>
       \/ /\ part = "uploads" /\ UploadStep
          /\ UNCHANGED <<receive_vars, http_vars, timeout_vars, file_vars, role_vars>>
       \/ /\ part = "downloads" /\ FileStep
          /\ UNCHANGED <<receive_vars, http_vars, timeout_vars, upload_vars, role_vars>>
       \/ /\ part = "roles" /\ RoleStep
          /\ UNCHANGED <<receive_vars, http_vars, timeout_vars, upload_vars, file_vars>>

Spec == Init /\ [][Next]_vars

TypeOK ==
    /\ part \in Parts
    /\ TypeOKReceive /\ TypeOKHttp /\ TypeOKTimeout /\ TypeOKUploads /\ TypeOKFiles /\ TypeOKRoles
=============================================================================
