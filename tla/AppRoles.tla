------------------------------ MODULE AppRoles ------------------------------
(***************************************************************************)
(* Role resolution.  Keycloak sends a token's realm roles as a list; every *)
(* decision of the code only asks whether some role of the list has a      *)
(* given name, so a token's roles are the SET of the names.  RoleName      *)
(* holds the spellings the code tells apart, plus one it does not know.    *)
(***************************************************************************)

RoleName == {"super_admin", "super-admin", "SUPER_ADMIN",
             "realm_admin", "realm-admin", "Realm-Admin",
             "manage-realm", "viewer"}

AppRole == {"super_admin", "realm_admin", "end_user"}

\* strings.ToLower on the names above.
ToLower(n) ==
  CASE n = "SUPER_ADMIN" -> "super_admin"
    [] n = "Realm-Admin" -> "realm-admin"
    [] OTHER             -> n

\* resolveAppRole: the role stored in the session at login.
ResolveAppRole(roles) ==
  LET lower == {ToLower(n) : n \in roles}
  IN  IF lower \cap {"super_admin", "super-admin"} # {}
      THEN "super_admin"
      ELSE IF lower \cap {"realm_admin", "realm-admin", "manage-realm"} # {}
      THEN "realm_admin"
      ELSE "end_user"
=============================================================================
