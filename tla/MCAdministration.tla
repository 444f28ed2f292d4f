-------------------------- MODULE MCAdministration --------------------------
(* Administration with two roles, of which the second may only run devices. *)
EXTENDS Administration, TLC

MCRoles == "admin" :> {"modify_config", "control_device", "manage_users", "system_settings"}
        @@ "operator" :> {"control_device"}

=============================================================================
