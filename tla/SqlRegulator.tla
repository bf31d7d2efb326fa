---------------------------- MODULE SqlRegulator ----------------------------
(***************************************************************************)
(* What src/src/api/sql.ts lets application SQL do.  There is no SQLite    *)
(* authorizer underneath, so exec() decides from the text: once over the   *)
(* whole query for reserved names, then statement by statement as SQLite   *)
(* delimits them.                                                          *)
(*                                                                         *)
(* A statement is a record of what that text shows (the form its leading   *)
(* keyword selects, a name, an argument) and of what SQLite does with it   *)
(* (effect).  Names and arguments stand for their classes: "_cf_KV" for a  *)
(* reserved name, "t" for any other name, "7" for a number that is no      *)
(* Boolean.                                                                *)
(***************************************************************************)

Absent == "absent"

Statement(form, name, argument, effect) ==
  [form |-> form, name |-> name, argument |-> argument, effect |-> effect]

\* ALLOWED_PRAGMAS: one pragma of each signature, and the special-cased ones.
Signature(pragma) ==
  CASE pragma \in {"data_version", "page_size"}           -> "NO_ARG"
    [] pragma \in {"foreign_keys", "defer_foreign_keys"}  -> "BOOLEAN"
    [] pragma \in {"index_info", "index_list"}            -> "OBJECT_NAME"
    [] pragma = "foreign_key_check"                       -> "OPTIONAL_OBJECT_NAME"
    [] pragma = "optimize"                                -> "NULL_OR_NUMBER"
    [] pragma = "quick_check"                             -> "NULL_NUMBER_OR_OBJECT_NAME"
    [] OTHER                                              -> Absent

IsAllowedName(name) == name # "_cf_KV"

IsBoolean(argument) == argument \in {"1", "on"}
IsNumber(argument)  == argument \in {"1", "7"}

IsAllowedPragma(pragma, argument) ==
  \/ pragma = "table_list"
  \/ /\ pragma \in {"table_info", "table_xinfo"}
     /\ argument # Absent /\ IsAllowedName(argument)
  \/ /\ pragma \notin {"table_info", "table_xinfo"}
     /\ LET signature == Signature(pragma) IN
        \/ argument = Absent /\ signature \notin {Absent, "OBJECT_NAME"}
        \/ signature = "BOOLEAN" /\ IsBoolean(argument)
        \/ /\ signature \in {"OBJECT_NAME", "OPTIONAL_OBJECT_NAME",
                             "NULL_NUMBER_OR_OBJECT_NAME"}
           /\ argument # Absent /\ IsAllowedName(argument)
        \/ /\ signature \in {"NULL_OR_NUMBER", "NULL_NUMBER_OR_OBJECT_NAME"}
           /\ IsNumber(argument)

\* The table-valued pragma functions follow the allowlist by name alone.
IsAllowedPragmaFunction(pragma) ==
  pragma \in {"table_list", "table_info", "table_xinfo"} \/ Signature(pragma) # Absent

AllowedModules == {"fts5", "fts5vocab", "rtree", "rtree_i32"}

\* The preflight over the whole query.
NamesAreAllowed(query) ==
  \A i \in DOMAIN query : query[i].form = "table" => IsAllowedName(query[i].name)

\* regulateUntrustedStatement(), against one statement boundary.
IsRefused(s) ==
  \/ s.form \in {"control", "attach", "vacuum", "temp"}
  \/ s.form = "virtual" /\ s.name \notin AllowedModules
  \/ s.form = "pragma" /\ ~IsAllowedPragma(s.name, s.argument)
  \/ s.form = "pragmaFunction" /\ ~IsAllowedPragmaFunction(s.name)
=============================================================================
