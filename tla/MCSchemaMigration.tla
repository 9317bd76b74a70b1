-------------------------- MODULE MCSchemaMigration --------------------------
(* SchemaMigration on small instances: an older database lacks nothing,    *)
(* what the second version adds, or all of it but users.group_id.          *)
EXTENDS SchemaMigration

AddedBySecond == UNION {Creates(s) : s \in Range(sqlMigrations[2].statements)}
MCLacks == {{}, AddedBySecond, AddedBySecond \ {<<"users", "group_id">>}}

=============================================================================
