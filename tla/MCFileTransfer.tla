--------------------------- MODULE MCFileTransfer ---------------------------
(***************************************************************************)
(* Instance of FileTransfer for TLC: a default transfer and what clients   *)
(* change in it, one thing at a time, acceptable or not.                   *)
(***************************************************************************)
EXTENDS FileTransfer

\* Lists of transformations over the columns x and y.
Rows(ops, field) ==
  [type |-> "dataframe_rows_filter", filters |-> {[type |-> op, field |-> field] : op \in ops}]
Cols(type, field, to) ==
  [type |-> "dataframe_columns_filter",
   filters |-> {[type |-> type, field |-> field, to |-> to]}]
Metadata(valid) ==
  [type |-> "file_metadata_filter", filters |-> {[type |-> "name_glob", valid |-> valid]}]
Sql(reads, fromSource) ==
  [type |-> "sql", query |-> [select |-> TRUE, fromSource |-> fromSource, reads |-> reads]]

MCTransformations ==
  {<<>>,
   <<Rows(RowsFilter, "x")>>,
   <<Rows({"equal"}, "x"), Cols("include", "y", "y"), Rows({"not_ilike"}, "y")>>,
   <<Cols("rename", "x", "z"), Rows({"equal"}, "z")>>,
   <<Sql({"z"}, TRUE), Cols("rename", "x", "z"), Sql({"x"}, TRUE)>>,
   <<Sql({"x"}, FALSE)>>,
   <<Metadata(TRUE), Metadata(FALSE)>>,
   <<Metadata(TRUE), Cols("cast", "x", "x")>>}

Template(keys, dotted) == [keys |-> keys \union {"extension"}, dotted |-> dotted]
MCTemplates ==
  {Template({"run_created_at", "index"}, TRUE), Template({"run_id", "index"}, TRUE),
   Template({"run_id", "run_created_at", "index"}, FALSE), Template({"index"}, TRUE)}

Format(type, compression) == [type |-> type, compression |-> compression]
MCFormats ==
  UNION {{Format(type, c) : c \in Compressions[type]} : type \in DOMAIN Compressions}

Strategies ==
  {[type |-> "full"], [type |-> "incremental", increment_by |-> "file_name"],
   [type |-> "incremental", increment_by |-> "x"]}

Default ==
  [source |-> "postgres", target |-> "s3", transformations |-> <<>>,
   sourceFormat |-> Format("csv", "gzip"), targetFormat |-> Format("csv", "gzip"),
   template |-> Template({"run_created_at", "index"}, TRUE), strategy |-> [type |-> "full"]]

MCTransfers ==
  {[Default EXCEPT !.source = s, !.transformations = ts] :
     s \in ConnectionType, ts \in MCTransformations}
  \union {[Default EXCEPT !.target = t, !.template = n] : t \in FileTypes, n \in MCTemplates}
  \union {[Default EXCEPT !.targetFormat = f] : f \in MCFormats}
  \union {[Default EXCEPT !.source = "sftp", !.sourceFormat = f] : f \in MCFormats}
  \union {[Default EXCEPT !.source = s, !.strategy = y] :
            s \in {"postgres", "sftp", "hdfs"}, y \in Strategies}
=============================================================================
