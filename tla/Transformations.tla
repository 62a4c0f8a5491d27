--------------------------- MODULE Transformations ---------------------------
(***************************************************************************)
(* What a transfer may ask for and what the handlers make of it: row and   *)
(* column filters, SQL, file filters, file formats and file names.         *)
(*                                                                         *)
(* Pure functions: the request schemas decide which transfers are stored,  *)
(* the worker's transfer objects and handlers decide what a run does.      *)
(* Text is abstracted to what it means: an SQL operator is its name, a     *)
(* template is the set of placeholders in it.                              *)
(***************************************************************************)
EXTENDS ConnectionSchemas, Naturals, Sequences

LocalTypes == {"ftp", "ftps", "samba", "sftp", "webdav"}    \* LocalDFFileHandler
RemoteTypes == {"s3", "hdfs"}                               \* RemoteDFFileHandler

--------------------------------------------------------------------------
(* Schemas of transformations.                                             *)

RowsFilter ==
  {"is_null", "is_not_null", "equal", "not_equal", "greater_than", "greater_or_equal",
   "less_than", "less_or_equal", "like", "ilike", "not_like", "not_ilike", "regexp"}
ColumnsFilter == {"include", "rename", "cast"}
MetadataFilter == {"name_glob", "name_regexp", "file_size_min", "file_size_max"}

\* A filter's value is a valid glob or regexp or it is refused.
FileMetadataFilterAccepts(filter) == filter.type \in MetadataFilter /\ filter.valid

\* Sql._validate_query: SELECT or WITH, and FROM source.
SqlAccepts(query) == query.select /\ query.fromSource

TransformationSchema(t) ==
  CASE t.type = "dataframe_rows_filter" -> \A f \in t.filters : f.type \in RowsFilter
    [] t.type = "dataframe_columns_filter" -> \A f \in t.filters : f.type \in ColumnsFilter
    [] t.type = "file_metadata_filter" -> \A f \in t.filters : FileMetadataFilterAccepts(f)
    [] t.type = "sql" -> SqlAccepts(t.query)

--------------------------------------------------------------------------
(* Row filters: an operator, perhaps with both sides in lower case.        *)

Plain(op) == [op |-> op, lower |-> FALSE]
LoweredForgetsNot(op) ==   \* Mutant: NOT is lost with the letters' case
  CASE op \in {"ILIKE", "NOT ILIKE"} -> [op |-> "LIKE", lower |-> TRUE]
    [] OTHER -> Plain(op)
Lowered(op) ==
  CASE op = "ILIKE"     -> [op |-> "LIKE", lower |-> TRUE]
    [] op = "NOT ILIKE" -> [op |-> "NOT LIKE", lower |-> TRUE]
    [] OTHER            -> Plain(op)

DBOperators ==
  [is_null |-> "IS NULL", is_not_null |-> "IS NOT NULL", equal |-> "=", not_equal |-> "!=",
   greater_than |-> ">", greater_or_equal |-> ">=", less_than |-> "<", less_or_equal |-> "<=",
   like |-> "LIKE", ilike |-> "ILIKE", not_like |-> "NOT LIKE", not_ilike |-> "NOT ILIKE"]
Operators(regexp) ==
  [f \in DOMAIN DBOperators \union {"regexp"} |->
     IF f \in DOMAIN DBOperators THEN DBOperators[f] ELSE regexp]
FileOperators == Operators("RLIKE")

ClickhouseFilter(f) == Plain(Operators("REGEXP")[f])
PostgresFilter(f) == Plain(Operators("~")[f])
HiveFilter(f) == Lowered(Operators("RLIKE")[f])
IcebergFilter(f) == Lowered(Operators("RLIKE")[f])
MySQLFilter(f) == Lowered(Operators("RLIKE")[f])
MSSQLFilter(f) == Lowered(Operators("LIKE")[f])
OracleFilter(f) == Lowered(Operators("REGEXP_LIKE")[f])
FileFilter(f) == Plain(FileOperators[f])

_make_rows_filter_expression(type, f) ==
  CASE type = "clickhouse" -> ClickhouseFilter(f)
    [] type = "postgres"   -> PostgresFilter(f)
    [] type = "hive"       -> HiveFilter(f)
    [] type = "iceberg"    -> IcebergFilter(f)
    [] type = "mysql"      -> MySQLFilter(f)
    [] type = "mssql"      -> MSSQLFilter(f)
    [] type = "oracle"     -> OracleFilter(f)
    [] type \in FileTypes  -> FileFilter(f)

\* What a database or Spark takes an operator to mean.
Meaning(e) ==
  [test |-> CASE e.op \in {"LIKE", "NOT LIKE", "ILIKE", "NOT ILIKE"} -> "pattern"
              [] e.op \in {"REGEXP", "~", "RLIKE", "REGEXP_LIKE"} -> "regexp"
              [] OTHER -> e.op,
   negated |-> e.op \in {"NOT LIKE", "NOT ILIKE"},
   anyCase |-> e.lower \/ e.op \in {"ILIKE", "NOT ILIKE"}]

\* What the filter's name in the schema says.
Asked(f) ==
  [test |-> CASE f \in {"like", "ilike", "not_like", "not_ilike"} -> "pattern"
              [] f = "regexp" -> "regexp"
              [] OTHER -> DBOperators[f],
   negated |-> f \in {"not_like", "not_ilike"},
   anyCase |-> f \in {"ilike", "not_ilike"}]

--------------------------------------------------------------------------
(* Column filters: the columns that an expression yields.                  *)

_make_columns_filter_expressions(filters) ==
  {IF f.type = "rename" THEN f.to ELSE f.field : f \in filters}

\* The filters of one type, from wherever they are in the list.
FiltersOf(ts, type) == UNION {ts[i].filters : i \in {j \in DOMAIN ts : ts[j].type = type}}

_get_file_metadata_filters(ts) == FiltersOf(ts, "file_metadata_filter")

\* _get_sql_query: the first one; the others are not looked at.
SqlPositions(ts) == {i \in DOMAIN ts : ts[i].type = "sql"}
_get_sql_query(ts) == ts[CHOOSE i \in SqlPositions(ts) : \A j \in SqlPositions(ts) : i <= j].query

--------------------------------------------------------------------------
(* read: rows, then columns, then SQL, for a file after the file filters.  *)
(* The result is what was applied, or the reason of the failure.           *)

Applied(type, ts, files) ==
  [failed |-> FALSE,
   rows |-> {Meaning(_make_rows_filter_expression(type, f.type)) :
               f \in FiltersOf(ts, "dataframe_rows_filter")},
   files |-> files,
   queries |-> IF SqlPositions(ts) = {} THEN {} ELSE {_get_sql_query(ts)}]
Failed == [failed |-> TRUE]

\* The columns that are left for SQL.
SelectedColumns(ts, columns) ==
  LET filters == FiltersOf(ts, "dataframe_columns_filter")
  IN  IF filters = {} THEN columns ELSE _make_columns_filter_expressions(filters)

\* An expression names a column that is not there.
Unresolved(ts, columns) ==
  \/ \E f \in FiltersOf(ts, "dataframe_rows_filter") : f.field \notin columns
  \/ \E f \in FiltersOf(ts, "dataframe_columns_filter") : f.field \notin columns
  \/ /\ SqlPositions(ts) # {}
     /\ ~(_get_sql_query(ts).reads \subseteq SelectedColumns(ts, columns))

\* Mutant: columns are selected before rows are filtered.
DBReadColumnsFirst(type, ts, columns) ==
  IF Unresolved(ts, columns \intersect SelectedColumns(ts, columns))
  THEN Failed ELSE Applied(type, ts, {})

\* DBHandler.read: rows and columns in the database, SQL in Spark.
DBRead(type, ts, columns) ==
  IF Unresolved(ts, columns) THEN Failed ELSE Applied(type, ts, {})

\* RemoteDFFileHandler.read and S3Handler.read: file filters are not looked at.
RemoteRead(type, ts, columns) ==
  IF Unresolved(ts, columns) THEN Failed ELSE Applied(type, ts, {})

\* LocalDFFileHandler.read: SQL asks for df_connection, which no local handler
\* has (its connect sets local_df_connection), and raises an AttributeError.
LocalRead(type, ts, columns) ==
  IF SqlPositions(ts) # {} \/ Unresolved(ts, columns) THEN Failed
  ELSE Applied(type, ts, _get_file_metadata_filters(ts))

read(type, ts, columns) ==
  CASE type \in LocalTypes  -> LocalRead(type, ts, columns)
    [] type \in RemoteTypes -> RemoteRead(type, ts, columns)
    [] type \in DBTypes     -> DBRead(type, ts, columns)

--------------------------------------------------------------------------
(* File formats and names.                                                 *)

Compressions ==
  [csv      |-> {"none", "bzip2", "gzip", "lz4", "snappy", "deflate"},
   jsonline |-> {"none", "bzip2", "gzip", "lz4", "snappy", "deflate"},
   json     |-> {"none", "bzip2", "gzip", "lz4", "snappy", "deflate"},
   xml      |-> {"none", "bzip2", "gzip", "lz4", "snappy"},
   orc      |-> {"none", "snappy", "zlib", "lz4"},
   parquet  |-> {"none", "snappy", "gzip", "lz4"},
   excel    |-> {"none"}]
TARGET_FILE_FORMAT == {"csv", "jsonline", "excel", "xml", "orc", "parquet"}
SOURCE_FILE_FORMAT == TARGET_FILE_FORMAT \union {"json"}
FormatAccepts(format) == format.compression \in Compressions[format.type]

\* FileTransferDTO._get_file_format: XML has no compression "none" to be given.
_get_file_format(format) ==
  IF format.type = "xml" /\ format.compression = "none"
  THEN [type |-> "xml"] ELSE format

CompressionToFileSuffix ==
  [gzip |-> "gz", snappy |-> "snappy", zlib |-> "zlib", lz4 |-> "lz4", bzip2 |-> "bz2",
   deflate |-> "deflate"]
FileFormatToFileSuffix ==
  [json |-> "json", jsonline |-> "jsonl", csv |-> "csv", xml |-> "xml", excel |-> "xlsx",
   parquet |-> "parquet", orc |-> "orc"]

\* _get_file_extension: the parts of an extension.
_get_file_extension(format) ==
  LET suffix == FileFormatToFileSuffix[format.type]
      compression == IF "compression" \in DOMAIN format THEN format.compression ELSE "none"
      compressionSuffix == CompressionToFileSuffix[compression]
      columnar == suffix \in {"parquet", "orc"}     \* COLUMN_FORMATS
  IN  IF compression = "none" THEN <<suffix>>
      ELSE IF suffix = "parquet" /\ compressionSuffix = "lz4" THEN <<"lz4hadoop", "parquet">>
      ELSE IF columnar THEN <<compressionSuffix, suffix>>
      ELSE <<suffix, compressionSuffix>>

\* A template is its placeholders, and whether it ends in ".{extension}".
_validate_file_name_template(template) ==
  /\ {"index", "extension"} \subseteq template.keys
  /\ template.keys \intersect {"run_id", "run_created_at"} # {}
  /\ template.keys \subseteq {"index", "extension", "run_id", "run_created_at"}

\* _get_file_name: what tells two names apart.
_get_file_name(template, runId, createdAt, index, extension) ==
  [run |-> IF "run_id" \in template.keys THEN runId ELSE 0,
   at |-> IF "run_created_at" \in template.keys THEN createdAt ELSE 0,
   index |-> index, dotted |-> template.dotted, extension |-> extension]

--------------------------------------------------------------------------
(* CreateTransferSchema, for a transfer with a file target.                *)

validate_strategy(strategy, sourceType) ==
  strategy.type = "incremental" =>
    /\ sourceType \notin RemoteTypes
    /\ sourceType \in FileTypes => strategy.increment_by \in {"file_modified_since", "file_name"}

CreateTransferSchema(t) ==
  /\ \A i \in DOMAIN t.transformations : TransformationSchema(t.transformations[i])
  /\ t.source \in FileTypes =>
       t.sourceFormat.type \in SOURCE_FILE_FORMAT /\ FormatAccepts(t.sourceFormat)
  /\ t.targetFormat.type \in TARGET_FILE_FORMAT /\ FormatAccepts(t.targetFormat)
  /\ _validate_file_name_template(t.template)
  /\ validate_strategy(t.strategy, t.source)
=============================================================================
