------------------------------ MODULE TablePage ------------------------------
(***************************************************************************)
(* The table every list page of the web application shows: DataTable (the  *)
(* search, the sort order, the page and the selection), the ColumnPicker,  *)
(* DensityToggle and SavedViews beside it, and the preferences store they  *)
(* share, which the browser keeps in localStorage.  Rows come and go under *)
(* the table whenever the page's query is polled.                          *)
(***************************************************************************)
EXTENDS Integers, FiniteSets, FiniteSetsExt, Functions

CONSTANTS Rows,           \* row ids, naturals: their order is the sorted order
          Searches,       \* what can be typed in the search box, "" included
          Matching,       \* [Searches -> SUBSET Rows], the rows a search keeps
          PageSizes,      \* the sizes the page offers
          AllColumns,     \* VOLUME_COLUMN_IDS
          DefaultColumns, \* DEFAULT_VOLUME_COLUMN_IDS
          ViewNames,      \* names a user gives saved views
          MaxViews        \* bound on the views saved

VARIABLES data,   \* the rows the query holds
          table,  \* the component's state
          prefs   \* usePreferences; persist writes it to localStorage at every set

tableVars == <<data, table, prefs>>

View == [name : ViewNames, search : Searches, columns : SUBSET AllColumns]

TablePrefs == [density : {"comfortable", "compact"},
               columns : SUBSET AllColumns,   \* {}: nothing chosen yet
               views : SUBSET View]

TypeOK ==
  /\ data \subseteq Rows
  /\ table \in [search : Searches, descending : BOOLEAN, page : 0..Cardinality(Rows),
                size : PageSizes, selected : SUBSET Rows]
  /\ prefs \in TablePrefs

---------------------------------------------------------------------------
\* resolveColumns: what is chosen of the columns known, all of them when that
\* is nothing.
resolveColumns(chosen, known) ==
  IF chosen \cap known = {} THEN known ELSE chosen \cap known

\* The columns the picker shows ticked, and those the volumes table shows.
PickerColumns == resolveColumns(prefs.columns, AllColumns)
VisibleColumns == resolveColumns(prefs.columns, DefaultColumns)

Filtered == data \cap Matching[table.search]

Rank(r, S, descending) ==
  Cardinality({s \in S : IF descending THEN s > r ELSE s < r})

\* The rows of the page shown: table.getRowModel().
PageRows == {r \in Filtered :
              Rank(r, Filtered, table.descending) \div table.size = table.page}

\* table.getSelectedRowModel(): every selected row the data still holds, the
\* rows the search hides and those of other pages included.
SelectedRows == table.selected \cap data

PageCount == Max({1, (Cardinality(Filtered) + table.size - 1) \div table.size})

\* The rows an export writes: every filtered row, whatever the page.
ExportedRows == Filtered

---------------------------------------------------------------------------
TableInit ==
  /\ data \in SUBSET Rows
  /\ prefs = [density |-> "comfortable", columns |-> {}, views |-> {}]
  /\ \E size \in PageSizes :
       table = [search |-> "", descending |-> FALSE, page |-> 0, size |-> size,
                selected |-> {}]

\* A poll or a refetch changed the rows; the table goes back to its first page.
DataChanges ==
  /\ \E rows \in SUBSET Rows \ {data} : data' = rows
  /\ table' = [table EXCEPT !.page = 0]
  /\ UNCHANGED prefs

\* Seeded fault: a search keeps the page.
SearchKeepsPage(text) ==
  /\ text # table.search
  /\ table' = [table EXCEPT !.search = text]
  /\ UNCHANGED <<data, prefs>>

Search(text) ==
  /\ text # table.search
  /\ table' = [table EXCEPT !.search = text, !.page = 0]
  /\ UNCHANGED <<data, prefs>>

Sort ==
  /\ table' = [table EXCEPT !.descending = ~table.descending, !.page = 0]
  /\ UNCHANGED <<data, prefs>>

\* setPageSize keeps the first row shown on the page.
SetPageSize(size) ==
  /\ table' = [table EXCEPT !.size = size,
                            !.page = (table.page * table.size) \div size]
  /\ UNCHANGED <<data, prefs>>

\* Seeded fault: the last page is not known.
TurnsAnyPage ==
  /\ \E page \in {table.page - 1, table.page + 1} : table' = [table EXCEPT !.page = page]
  /\ UNCHANGED <<data, prefs>>

TurnPage ==
  /\ \/ /\ table.page > 0
        /\ table' = [table EXCEPT !.page = table.page - 1]
     \/ /\ table.page < PageCount - 1
        /\ table' = [table EXCEPT !.page = table.page + 1]
  /\ UNCHANGED <<data, prefs>>

ToggleRow(r) ==
  /\ r \in PageRows
  /\ table' = [table EXCEPT !.selected =
       IF r \in table.selected THEN table.selected \ {r}
                               ELSE table.selected \cup {r}]
  /\ UNCHANGED <<data, prefs>>

\* The box of the header selects or clears the rows of the page alone.
TogglePage ==
  /\ PageRows # {}
  /\ table' = [table EXCEPT !.selected =
       IF PageRows \subseteq table.selected THEN table.selected \ PageRows
                                            ELSE table.selected \cup PageRows]
  /\ UNCHANGED <<data, prefs>>

\* The bulk bar's Clear and the end of a bulk run.
ClearSelection ==
  /\ table.selected # {}
  /\ table' = [table EXCEPT !.selected = {}]
  /\ UNCHANGED <<data, prefs>>

---------------------------------------------------------------------------
SetDensity(density) ==
  /\ prefs' = [prefs EXCEPT !.density = density]
  /\ UNCHANGED <<data, table>>

\* ColumnPicker's toggle: the last ticked column stays.
ToggleColumn(c) ==
  /\ IF c \in PickerColumns
       THEN /\ Cardinality(PickerColumns) > 1
            /\ prefs' = [prefs EXCEPT !.columns = PickerColumns \ {c}]
       ELSE prefs' = [prefs EXCEPT !.columns = PickerColumns \cup {c}]
  /\ UNCHANGED <<data, table>>

\* onSave: the search and the picker's columns under a new id; the table's
\* other filters are not part of a view.
SaveView(name) ==
  /\ Cardinality(prefs.views) < MaxViews
  /\ prefs' = [prefs EXCEPT !.views = prefs.views \cup
       {[name |-> name, search |-> table.search, columns |-> PickerColumns]}]
  /\ UNCHANGED <<data, table>>

\* onApply: the store takes the view's columns, the page its search.
ApplyView(view) ==
  /\ view \in prefs.views
  /\ prefs' = [prefs EXCEPT !.columns = view.columns]
  /\ table' = [table EXCEPT !.search = view.search,
                            !.page = IF view.search = table.search THEN table.page ELSE 0]
  /\ UNCHANGED data

DeleteView(view) ==
  /\ view \in prefs.views
  /\ prefs' = [prefs EXCEPT !.views = prefs.views \ {view}]
  /\ UNCHANGED <<data, table>>

\* The page is opened again or reloaded: the store is rehydrated from
\* localStorage, the table starts over.
Reload ==
  /\ \E size \in PageSizes :
       table' = [search |-> "", descending |-> FALSE, page |-> 0, size |-> size,
                 selected |-> {}]
  /\ UNCHANGED <<data, prefs>>

TableNext ==
  \/ DataChanges
  \/ \E text \in Searches : Search(text)
  \/ Sort
  \/ \E size \in PageSizes : SetPageSize(size)
  \/ TurnPage
  \/ \E r \in Rows : ToggleRow(r)
  \/ TogglePage
  \/ ClearSelection
  \/ \E density \in {"comfortable", "compact"} : SetDensity(density)
  \/ \E c \in AllColumns : ToggleColumn(c)
  \/ \E name \in ViewNames : SaveView(name)
  \/ \E view \in prefs.views : ApplyView(view)
  \/ \E view \in prefs.views : DeleteView(view)
  \/ Reload

TableSpec == TableInit /\ [][TableNext]_tableVars

---------------------------------------------------------------------------
\* Whatever polls, searches, sort orders and page sizes follow one another,
\* the page shown is never blank while a row passes the search.
NoBlankPage == Filtered # {} => PageRows # {}

\* A column the user has ticked in the picker is a column of the table: "the
\* richer columns are opt-in via the ColumnPicker".  It does not hold: the
\* table resolves the choice against its default columns alone.
PickedColumnsShown == prefs.columns # {} => PickerColumns = VisibleColumns
============================================================================
