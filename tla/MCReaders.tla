----------------------------- MODULE MCReaders -----------------------------
EXTENDS Readers, TLC

Bounds == [ods |-> 7, xlsx |-> 5, xls |-> 7, html |-> 5, eml |-> 5, xmp |-> 8, png |-> 4, jpeg |-> 3,
           webp |-> 3, heic |-> 4, audio |-> 5,
           parquet |-> 5, sqlite |-> 6, markdown |-> 5, extract |-> 5, plain |-> 5, table |-> 3, rules |-> 3, provider |-> 2]

\* A tree with a tool beside its library, a shared root under a shallow one,
\* and links: to the shared root, and to the library.
MCKind == (<<"opt">> :> "dir") @@ (<<"opt", "app">> :> "dir") @@ (<<"opt", "app", "tool">> :> "file")
          @@ (<<"opt", "app", "fifo">> :> "fifo") @@ (<<"store">> :> "dir") @@ (<<"store", "all">> :> "dir")
          @@ (<<"store", "all", "tool">> :> "file") @@ (<<"store", "all", "lib">> :> "dir")
MCLink == (<<"opt", "link">> :> <<"store", "all">>) @@ (<<"opt", "app", "via">> :> <<"store">>)
MCShared == {<<"opt">>, <<"store", "all">>}

=============================================================================
