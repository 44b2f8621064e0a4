------------------------------ MODULE PdbFile ------------------------------
(***************************************************************************)
(* Where src/pdb/pdb.c puts things in a PDB file: the header, the list of  *)
(* records, two bytes of padding, the application info with the            *)
(* categories; what comes behind is the business of its callers.           *)
(***************************************************************************)
EXTENDS Categories

HeaderSize  == 78    \* PDB_RECORD_LIST_OFFSET + PDB_RECORD_LIST_HEADER_SIZE
ItemSize    == 8     \* PDB_RECORD_ITEM_SIZE
PaddingSize == 2     \* sizeof(recordListPadding)
AppInfoSize == 276   \* what _write_categories() writes

AppInfoAt(qty) == HeaderSize + ItemSize * qty + PaddingSize
=============================================================================
