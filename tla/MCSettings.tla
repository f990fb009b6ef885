------------------------------ MODULE MCSettings ------------------------------
(* Finite values for the constants of Settings: one session for each subject. *)
EXTENDS Settings

Sessions == {"bot", "proxies", "rest"}
FormsOf == [s \in Sessions |-> CASE s = "bot" -> {"telegram", "remove", "detect"}
                                 [] s = "proxies" -> {"proxy"}
                                 [] s = "rest" -> {"page", "preferences"}]
=============================================================================
