--------------------------- MODULE MappingConfig ----------------------------
(***************************************************************************)
(* From the -f flags to the mappers of a run: which files are read, which  *)
(* documents are accepted, and which of them maps a type.                  *)
(*                                                                         *)
(* A template is a function of the values of an event.  What it renders is *)
(* a record: text is the output (a name for identifiers, anything else     *)
(* stands for text no identifier may have), fails says that the execution  *)
(* stopped with an error after writing text.                               *)
(*                                                                         *)
(*   path     = [kind, docs, entries]   kind: file, dir, linkToFile,       *)
(*              linkToDir, brokenLink, missing; entries are files          *)
(*   document = [form, type, fields, parses, id, metadata, spec, extras]   *)
(*              form: mapping, empty, malformed (not YAML, unknown fields);*)
(*              type "none" is the empty string                            *)
(*   extra    = [fields, policy, family, parses, createIf, id, body]       *)
(***************************************************************************)
EXTENDS Integers, Sequences, FiniteSetsExt

-----------------------------------------------------------------------------
(* collectPaths walks each path one level deep.  A link is followed only   *)
(* to learn whether it names a file: a link to a directory is skipped,     *)
(* also when it is the path the user gave.                                 *)
IsFile(p) == p.kind \in {"file", "linkToFile"}

Unreadable(p) == p.kind \in {"missing", "brokenLink"}

CollectFails(paths) ==
    \E i \in DOMAIN paths :
        \/ Unreadable(paths[i])
        \/ paths[i].kind = "dir" /\ \E j \in DOMAIN paths[i].entries :
                                        Unreadable(paths[i].entries[j])

(* The files of a path, by their place in it: 0 is the path itself.        *)
FilesOf(p) == IF p.kind = "dir" THEN {j \in DOMAIN p.entries : IsFile(p.entries[j])}
              ELSE IF IsFile(p) THEN {0} ELSE {}

CollectPaths(paths) ==
    UNION {{<<i, j>> : j \in FilesOf(paths[i])} : i \in DOMAIN paths}

FileAt(paths, i, j) == IF j = 0 THEN paths[i] ELSE paths[i].entries[j]

-----------------------------------------------------------------------------
RequiredExtraFields == {"apiVersion", "itemFamily", "deletePolicy", "identifier"}

(* validateRelationshipFamilyFields, validateFamilySpecificFields and      *)
(* validateExtra.  fields are the keys that hold a non-empty string.       *)
RelationshipFieldsValid(x) == {"sourceRef", "targetRef", "typeRef"} \subseteq x.fields

FamilyFieldsValid(x) == x.family = "relationships" /\ RelationshipFieldsValid(x)

ExtraValid(x) ==
    /\ RequiredExtraFields \subseteq x.fields
    /\ x.policy \in {"none", "cascade"}
    /\ FamilyFieldsValid(x)

(* One turn of the loop of NewMappingConfigsFromPath.  Extra.UnmarshalYAML *)
(* fails the decoding of the whole document, and with it of the file.      *)
DocumentFails(d) ==
    \/ d.form = "malformed"
    \/ /\ d.form = "mapping"
       /\ \/ \E i \in DOMAIN d.extras : ~ExtraValid(d.extras[i])
          \/ d.type = "none"
          \/ ~({"apiVersion", "itemFamily"} \subseteq d.fields)

IsMapping(d) == d.form = "mapping"

(* mapper.New: the errors of the templates are collected, one is enough.   *)
NewMapperFails(d) == ~d.parses \/ \E i \in DOMAIN d.extras : ~d.extras[i].parses

-----------------------------------------------------------------------------
(* loadMappingConfigs: the documents in the order they are read, as places *)
(* <<path, file, document>>; an empty document is skipped.                 *)
Documents(paths) ==
    UNION {{<<f[1], f[2], k>> : k \in DOMAIN FileAt(paths, f[1], f[2]).docs} :
              f \in CollectPaths(paths)}

DocumentAt(paths, d) == FileAt(paths, d[1], d[2]).docs[d[3]]

Configs(paths) == {d \in Documents(paths) : IsMapping(DocumentAt(paths, d))}

ReadBefore(d, e) ==
    \/ d[1] < e[1]
    \/ d[1] = e[1] /\ d[2] < e[2]
    \/ d[1] = e[1] /\ d[2] = e[2] /\ d[3] < e[3]

(* loadMappers: the first unreadable document or unparsable template fails *)
(* the command.  typedMappers is filled in the order of the documents, so  *)
(* the last one of a type stays.  The callers pass syncOnly = FALSE:       *)
(* Syncable is not looked at.                                              *)
LoadFails(paths) ==
    \/ \E d \in Documents(paths) : DocumentFails(DocumentAt(paths, d))
    \/ \E d \in Configs(paths) : NewMapperFails(DocumentAt(paths, d))

ConfigsOf(paths, t) == {d \in Configs(paths) : DocumentAt(paths, d).type = t}

LastOf(S) == CHOOSE d \in S : \A e \in S : d = e \/ ReadBefore(e, d)

LoadMappers(paths) ==
    [t \in {DocumentAt(paths, d).type : d \in Configs(paths)} |->
        DocumentAt(paths, LastOf(ConfigsOf(paths, t)))]
=============================================================================
