----------------------------- MODULE MCSessions ------------------------------
\* Sessions with an administrator's role that may do everything, and one that
\* may do nothing.
EXTENDS Sessions

MCPermissions == [r \in Roles |->
  IF r = AdminRole THEN {"users.create", "users.update", "users.delete"} ELSE {}]
=============================================================================
