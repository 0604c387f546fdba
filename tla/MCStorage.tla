------------------------------- MODULE MCStorage -------------------------------
(* Storage on small instances: traces are interchangeable.                  *)
EXTENDS Storage, TLC

Symmetry == Permutations(Traces)

Form(provider, path, catalog, file, host) ==
    [provider |-> provider, path |-> path, catalog |-> catalog, file |-> file, host |-> host]
SomeForms ==
    {Form("local", "", "sqlite", "", ""), Form("local", "alt", "sqlite", "other", ""), Form("s3", "", "sqlite", "", ""),
     Form("local", "alt", "postgres", "", "postgres"), Form("local", "", "postgres", "", "")}

Started(provider, format, db) == [provider |-> provider, format |-> format, duckdb |-> format = "parquet", db |-> db]
SomeEnvs == {Started("local", "jsonl", "catalog"), Started("local", "parquet", "postgres"), Started("hybrid", "parquet", "catalog")}
===============================================================================
