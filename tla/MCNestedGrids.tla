---------------------------- MODULE MCNestedGrids ----------------------------
(* MarkdownPage on a page with a grid within a cell of another, and on one *)
(* with two grids side by side.                                            *)
EXTENDS MarkdownPage, MCMarkdown

TwoGrids == {NestedDocument, BesideDocument}
==============================================================================
