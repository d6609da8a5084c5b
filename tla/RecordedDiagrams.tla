------------------------- MODULE RecordedDiagrams -------------------------
(***************************************************************************)
(* Voronoi diagrams of small polygons as the compiled program holds them   *)
(* when the first part of _build is done: half-edges, cells and vertices   *)
(* in the order of the containers.  inside lists the half-edges that lie   *)
(* in the polygon, computed from the coordinates of their vertices.        *)
(***************************************************************************)

(* (0 0, 4 0, 4 4, 0 4) *)
Square ==
    [cell |-> <<1, 2, 2, 3, 1, 4, 4, 2, 3, 5, 2, 5, 4, 6, 6, 7, 7, 4, 7, 5,
         7, 8, 8, 5>>,
     vertex0 |-> <<1, 0, 2, 0, 0, 1, 4, 1, 2, 0, 4, 2, 0, 3, 0, 3, 4, 3, 5,
         4, 0, 5, 0, 5>>,
     next |-> <<5, 8, 2, 9, 1, 13, 6, 11, 4, 12, 3, 20, 18, 15, 14, 21, 16,
         7, 17, 24, 19, 23, 22, 10>>,
     prev |-> <<5, 3, 11, 9, 1, 7, 18, 2, 4, 24, 8, 10, 6, 15, 14, 17, 19,
         13, 21, 12, 16, 23, 22, 20>>,
     cellEdge |-> <<5, 11, 9, 18, 24, 15, 21, 23>>,
     vertexEdge |-> <<8, 12, 18, 20, 24>>,
     primary |-> {7, 8, 11, 12, 17, 18, 19, 20},
     curved |-> {},
     points |-> {1, 3, 6, 8},
     first |-> {1, 4, 6},
     feet |-> {7, 11, 12, 17, 19, 20, 24},
     inside |-> {7, 8, 11, 12, 17, 18, 19, 20}]

(* (3 2, 2 0, 5 0, 4 2, 4 4) *)
Notch ==
    [cell |-> <<1, 2, 1, 3, 3, 2, 2, 4, 4, 5, 5, 6, 6, 7, 7, 5, 7, 8, 6, 9,
         9, 7, 8, 5, 2, 9, 3, 9, 3, 10, 10, 9, 9, 8, 10, 8>>,
     vertex0 |-> <<1, 0, 0, 1, 6, 1, 5, 0, 5, 0, 5, 2, 3, 2, 4, 2, 8, 4, 5,
         3, 8, 3, 0, 4, 6, 5, 7, 6, 0, 7, 9, 7, 9, 8, 0, 9>>,
     next |-> <<3, 6, 1, 29, 4, 25, 2, 9, 8, 11, 16, 19, 12, 22, 14, 24, 15,
         34, 13, 26, 20, 17, 18, 10, 7, 28, 5, 32, 27, 35, 30, 33, 21, 36,
         31, 23>>,
     prev |-> <<3, 7, 1, 5, 27, 2, 25, 9, 8, 24, 10, 13, 19, 15, 17, 11, 22,
         23, 12, 21, 33, 14, 36, 16, 6, 20, 29, 26, 4, 31, 35, 28, 32, 18,
         30, 34>>,
     cellEdge |-> <<3, 25, 29, 9, 24, 19, 22, 36, 33, 35>>,
     vertexEdge |-> <<6, 16, 22, 24, 26, 28, 32, 34, 36>>,
     primary |-> {5, 6, 11, 12, 15, 16, 21, 22, 25, 26, 27, 28, 33, 34, 35,
         36},
     curved |-> {11, 12, 33, 34},
     points |-> {1, 4, 6, 8, 10},
     first |-> {1, 2, 4},
     feet |-> {5, 7, 12, 13, 14, 15, 16, 19, 20, 21, 22, 24, 25, 26, 27, 28,
         32, 33, 34, 36},
     inside |-> {5, 6, 11, 12, 13, 14, 15, 16, 19, 20, 25, 26, 27, 28}]

(* (0 0, 9 0, 4 8) with the hole (4 2, 5 2, 4 4) *)
Frame ==
    [cell |-> <<1, 2, 1, 3, 3, 2, 2, 4, 4, 5, 5, 2, 5, 6, 6, 2, 2, 7, 4, 8,
         8, 5, 6, 9, 5, 9, 7, 10, 2, 10, 3, 4, 8, 9, 3, 8, 8, 11, 11, 9, 6,
         10, 3, 11, 9, 10, 11, 10, 3, 10, 3, 12, 12, 10>>,
     vertex0 |-> <<1, 0, 0, 1, 7, 1, 7, 2, 4, 2, 3, 2, 5, 3, 11, 3, 6, 0, 9,
         4, 8, 4, 5, 13, 8, 5, 6, 0, 11, 6, 9, 7, 10, 8, 12, 9, 12, 10, 14,
         10, 13, 11, 15, 12, 14, 13, 15, 14, 16, 15, 0, 16, 0, 16>>,
     next |-> <<3, 6, 1, 51, 4, 7, 12, 32, 8, 22, 10, 16, 11, 23, 14, 29, 2,
         27, 9, 36, 20, 25, 41, 26, 13, 34, 18, 30, 17, 42, 5, 19, 21, 40,
         31, 37, 33, 44, 38, 45, 15, 46, 35, 47, 24, 48, 39, 50, 43, 54, 49,
         53, 52, 28>>,
     prev |-> <<3, 17, 1, 5, 31, 2, 6, 9, 19, 11, 13, 7, 25, 15, 41, 12, 29,
         27, 32, 21, 33, 10, 14, 45, 22, 24, 18, 54, 16, 28, 35, 8, 37, 26,
         43, 20, 36, 39, 47, 34, 23, 30, 49, 38, 40, 42, 44, 46, 51, 48, 4,
         53, 52, 50>>,
     cellEdge |-> <<3, 29, 51, 32, 25, 41, 27, 37, 45, 54, 47, 53>>,
     vertexEdge |-> <<6, 12, 16, 22, 26, 30, 32, 34, 36, 40, 42, 44, 46, 48,
         50, 54>>,
     primary |-> {5, 6, 7, 8, 11, 12, 15, 16, 21, 22, 25, 26, 29, 30, 31, 32,
         33, 34, 35, 36, 41, 42, 43, 44, 45, 46, 47, 48, 49, 50},
     curved |-> {7, 8, 15, 16, 31, 32, 41, 42, 43, 44, 47, 48},
     points |-> {1, 4, 6, 7, 11, 12},
     first |-> {1, 3},
     feet |-> {5, 7, 8, 9, 10, 11, 12, 13, 14, 15, 16, 19, 20, 21, 22, 23,
         24, 25, 26, 29, 30, 31, 32, 33, 34, 35, 36, 39, 40, 41, 42, 43, 44,
         45, 46, 47, 48, 49, 50, 54},
     inside |-> {5, 6, 7, 8, 9, 10, 11, 12, 13, 14, 15, 16, 19, 20, 23, 24,
         29, 30, 31, 32, 35, 36, 37, 38, 39, 40, 41, 42, 43, 44, 45, 46, 47,
         48, 49, 50}]

(* (13 13, -1 14, -12 -2, 13 -8) with the hole (5 6, 7 7, 0 5, 7 3, 5 5) *)
Claw ==
    [cell |-> <<1, 2, 1, 3, 3, 2, 2, 4, 4, 5, 2, 5, 2, 6, 6, 7, 6, 8, 8, 7,
         3, 6, 7, 2, 3, 8, 8, 9, 9, 10, 10, 7, 10, 11, 9, 12, 12, 10, 11, 7,
         11, 13, 10, 13, 13, 7, 8, 12, 7, 5, 12, 13, 8, 14, 14, 12, 13, 15,
         15, 7, 15, 5, 12, 15, 3, 14, 14, 15, 3, 16, 16, 17, 17, 3, 17, 14,
         17, 15, 17, 5, 17, 18, 18, 5>>,
     vertex0 |-> <<1, 0, 0, 1, 4, 1, 2, 0, 2, 0, 13, 2, 4, 5, 3, 5, 6, 3, 7,
         3, 6, 4, 13, 5, 19, 6, 12, 7, 8, 7, 9, 7, 10, 9, 12, 8, 14, 8, 11,
         9, 10, 11, 14, 10, 16, 11, 15, 12, 17, 13, 18, 14, 19, 15, 20, 15,
         18, 16, 17, 16, 24, 17, 20, 18, 22, 19, 23, 20, 0, 21, 0, 21, 22,
         21, 23, 22, 24, 23, 25, 24, 0, 25, 0, 25>>,
     next |-> <<3, 6, 1, 69, 4, 13, 2, 9, 8, 12, 7, 50, 24, 22, 14, 20, 15,
         26, 18, 32, 5, 17, 16, 11, 21, 53, 19, 35, 28, 38, 30, 40, 31, 41,
         29, 48, 36, 43, 34, 46, 39, 44, 33, 52, 42, 60, 27, 56, 23, 62, 37,
         57, 47, 66, 54, 63, 45, 64, 58, 49, 59, 80, 51, 68, 25, 76, 55, 78,
         74, 71, 70, 81, 72, 65, 73, 67, 75, 61, 77, 84, 79, 83, 82, 10>>,
     prev |-> <<3, 7, 1, 5, 21, 2, 11, 9, 8, 84, 24, 10, 6, 15, 17, 23, 22,
         19, 27, 16, 25, 14, 49, 13, 65, 18, 47, 29, 35, 31, 33, 20, 43, 39,
         28, 37, 51, 30, 41, 32, 34, 45, 38, 42, 57, 40, 53, 36, 60, 12, 63,
         44, 26, 55, 67, 48, 52, 59, 61, 46, 78, 50, 56, 58, 74, 54, 76, 64,
         4, 71, 70, 73, 75, 69, 77, 66, 79, 68, 81, 62, 72, 83, 82, 80>>,
     cellEdge |-> <<3, 24, 74, 9, 84, 22, 60, 53, 35, 43, 41, 63, 57, 76, 78,
         71, 81, 83>>,
     vertexEdge |-> <<6, 12, 20, 22, 24, 26, 32, 38, 40, 44, 46, 48, 50, 52,
         56, 60, 62, 64, 66, 68, 74, 76, 78, 80, 84>>,
     primary |-> {5, 6, 11, 12, 13, 14, 19, 20, 21, 22, 23, 24, 25, 26, 27,
         28, 31, 32, 37, 38, 39, 40, 43, 44, 45, 46, 47, 48, 49, 50, 51, 52,
         61, 62, 63, 64, 65, 66, 67, 68, 73, 74, 75, 76, 77, 78, 79, 80},
     curved |-> {13, 14, 21, 22, 27, 28, 39, 40, 61, 62, 63, 64, 65, 66, 75,
         76, 77, 78},
     points |-> {1, 4, 6, 9, 11, 14, 15, 16, 18},
     first |-> {4, 5},
     feet |-> {5, 11, 12, 13, 14, 16, 17, 18, 19, 20, 21, 22, 23, 24, 25, 26,
         27, 28, 29, 30, 31, 32, 33, 34, 35, 36, 37, 38, 39, 40, 41, 42, 43,
         44, 45, 46, 47, 48, 49, 50, 51, 52, 56, 60, 61, 62, 63, 64, 65, 66,
         67, 68, 73, 75, 76, 77, 78, 79, 80, 84},
     inside |-> {5, 6, 11, 12, 13, 14, 15, 16, 17, 18, 21, 22, 23, 24, 25,
         26, 37, 38, 43, 44, 49, 50, 51, 52, 53, 54, 55, 56, 57, 58, 59, 60,
         61, 62, 63, 64, 65, 66, 67, 68, 73, 74, 75, 76, 77, 78, 79, 80}]

(* (7 1, 3 6, 0 7, 1 0, 4 2) with the hole (3 3, 1 2, 2 4, 2 3) *)
Chip ==
    [cell |-> <<1, 2, 1, 3, 3, 2, 3, 4, 3, 5, 4, 6, 6, 3, 5, 7, 5, 8, 8, 7,
         7, 3, 3, 8, 7, 9, 9, 10, 10, 7, 10, 11, 9, 12, 12, 10, 11, 7, 11, 3,
         8, 9, 8, 12, 6, 8, 11, 2, 8, 13, 13, 12, 2, 14, 14, 15, 2, 15, 11,
         15, 6, 16, 16, 17, 6, 17, 13, 11, 6, 13, 13, 15, 16, 13, 16, 15, 17,
         15, 17, 18, 18, 15, 6, 18, 4, 18>>,
     vertex0 |-> <<1, 0, 0, 1, 13, 1, 0, 2, 5, 4, 26, 2, 12, 2, 3, 4, 5, 3,
         10, 3, 9, 4, 12, 5, 10, 6, 7, 6, 8, 6, 18, 8, 11, 7, 18, 7, 9, 8,
         13, 9, 11, 10, 14, 11, 19, 12, 16, 13, 19, 14, 18, 14, 15, 0, 15, 0,
         16, 15, 20, 16, 17, 21, 17, 23, 25, 17, 20, 18, 21, 19, 22, 20, 22,
         21, 23, 22, 24, 23, 25, 24, 0, 24, 26, 25, 0, 26>>,
     next |-> <<3, 6, 1, 7, 4, 48, 14, 85, 22, 17, 8, 83, 12, 23, 10, 20, 15,
         24, 18, 25, 16, 40, 9, 46, 30, 42, 26, 36, 28, 38, 29, 68, 27, 44,
         34, 31, 32, 21, 37, 5, 19, 33, 41, 52, 13, 49, 39, 57, 43, 70, 50,
         35, 2, 55, 54, 58, 53, 60, 47, 72, 69, 63, 75, 66, 61, 79, 51, 59,
         45, 74, 67, 76, 62, 71, 73, 78, 64, 82, 77, 84, 80, 56, 65, 86, 11,
         81>>,
     prev |-> <<3, 53, 1, 5, 40, 2, 4, 11, 23, 15, 85, 13, 45, 7, 17, 21, 10,
         19, 41, 16, 38, 9, 14, 18, 20, 27, 33, 29, 31, 25, 36, 37, 42, 35,
         52, 28, 39, 30, 47, 22, 43, 26, 49, 34, 69, 24, 59, 6, 46, 51, 67,
         44, 57, 55, 54, 82, 48, 56, 68, 58, 65, 73, 62, 77, 83, 64, 71, 32,
         61, 50, 74, 60, 75, 70, 63, 72, 79, 76, 66, 81, 86, 78, 12, 80, 8,
         84>>,
     cellEdge |-> <<3, 57, 40, 85, 17, 83, 38, 49, 42, 36, 68, 52, 74, 55,
         82, 75, 79, 86>>,
     vertexEdge |-> <<6, 14, 20, 22, 24, 30, 36, 38, 40, 42, 44, 46, 48, 52,
         58, 60, 66, 68, 70, 72, 74, 76, 78, 82, 84, 86>>,
     primary |-> {5, 6, 9, 10, 13, 14, 19, 20, 21, 22, 23, 24, 25, 26, 29,
         30, 35, 36, 39, 40, 41, 42, 43, 44, 45, 46, 47, 48, 57, 58, 59, 60,
         65, 66, 67, 68, 69, 70, 71, 72, 73, 74, 75, 76, 77, 78, 83, 84, 85,
         86},
     curved |-> {9, 10, 25, 26, 39, 40, 41, 42, 47, 48, 59, 60, 69, 70, 71,
         72, 75, 76, 83, 84},
     points |-> {1, 4, 5, 9, 11, 13, 14, 16, 18},
     first |-> {14, 15},
     feet |-> {5, 6, 9, 10, 13, 16, 17, 18, 19, 20, 21, 22, 23, 24, 25, 26,
         27, 28, 29, 30, 33, 34, 35, 36, 37, 38, 39, 40, 41, 42, 43, 44, 45,
         46, 47, 48, 52, 57, 58, 59, 60, 64, 65, 66, 67, 68, 69, 70, 71, 72,
         73, 74, 75, 76, 77, 78, 82, 83, 84, 86},
     inside |-> {5, 6, 9, 10, 13, 14, 15, 16, 17, 18, 21, 22, 23, 24, 31, 32,
         35, 36, 37, 38, 39, 40, 45, 46, 47, 48, 49, 50, 51, 52, 57, 58, 59,
         60, 61, 62, 63, 64, 67, 68, 69, 70, 71, 72, 73, 74, 75, 76, 77, 78}]

(* (0 0, 7 0, 6 3, 2 2, 3 7, 0 6) *)
Ell ==
    [cell |-> <<1, 2, 2, 3, 1, 4, 4, 2, 3, 5, 2, 5, 2, 6, 6, 7, 6, 8, 8, 7,
         7, 2, 4, 6, 7, 5, 7, 9, 9, 5, 4, 8, 8, 10, 10, 11, 8, 11, 4, 11, 4,
         12, 12, 11, 10, 7, 10, 9>>,
     vertex0 |-> <<1, 0, 2, 0, 0, 1, 5, 1, 2, 0, 6, 2, 5, 4, 3, 4, 8, 3, 12,
         3, 6, 4, 8, 5, 7, 6, 13, 7, 0, 7, 10, 8, 9, 12, 9, 0, 10, 9, 11, 10,
         0, 11, 0, 11, 13, 12, 0, 13>>,
     next |-> <<5, 8, 2, 9, 1, 41, 6, 13, 4, 12, 3, 26, 22, 24, 14, 20, 15,
         32, 18, 46, 16, 11, 7, 17, 21, 30, 25, 48, 28, 10, 23, 37, 19, 35,
         47, 38, 33, 40, 31, 44, 39, 43, 42, 36, 34, 27, 45, 29>>,
     prev |-> <<5, 3, 11, 9, 1, 7, 23, 2, 4, 30, 22, 10, 8, 15, 17, 21, 24,
         19, 33, 16, 25, 13, 31, 14, 27, 12, 46, 29, 48, 26, 39, 18, 37, 45,
         34, 44, 32, 36, 41, 38, 6, 43, 42, 40, 47, 20, 35, 28>>,
     cellEdge |-> <<5, 22, 9, 41, 30, 24, 46, 37, 48, 47, 44, 43>>,
     vertexEdge |-> <<8, 12, 20, 22, 24, 26, 30, 32, 38, 40, 44, 46, 48>>,
     primary |-> {7, 8, 11, 12, 13, 14, 19, 20, 21, 22, 23, 24, 25, 26, 31,
         32, 37, 38, 39, 40, 45, 46, 47, 48},
     curved |-> {13, 14, 23, 24, 45, 46},
     points |-> {1, 3, 6, 9, 10, 12},
     first |-> {4},
     feet |-> {7, 11, 12, 13, 14, 16, 17, 18, 19, 20, 21, 23, 24, 25, 26, 30,
         31, 32, 34, 37, 38, 39, 40, 44, 45, 46, 47},
     inside |-> {7, 8, 11, 12, 13, 14, 15, 16, 17, 18, 21, 22, 23, 24, 25,
         26, 31, 32, 37, 38, 39, 40}]

(* (0 0, 20 1, 9 18) with the holes (5 3, 8 3, 7 6) and (11 4, 13 5, 10 9) *)
Windows ==
    [cell |-> <<1, 2, 1, 3, 3, 2, 2, 4, 4, 5, 4, 6, 6, 5, 3, 4, 5, 2, 3, 6,
         5, 7, 7, 8, 5, 8, 7, 2, 6, 8, 6, 9, 9, 8, 2, 10, 10, 11, 2, 11, 3,
         9, 2, 12, 12, 13, 12, 14, 14, 13, 7, 12, 7, 14, 8, 14, 14, 15, 15,
         16, 16, 14, 8, 15, 9, 15, 3, 15, 12, 11, 16, 13, 16, 17, 17, 13, 3,
         16, 13, 11, 3, 17, 17, 11, 3, 11, 3, 18, 18, 11>>,
     vertex0 |-> <<1, 0, 0, 1, 3, 1, 3, 4, 2, 4, 5, 2, 8, 2, 5, 3, 7, 4, 11,
         5, 6, 7, 6, 15, 8, 6, 13, 7, 9, 8, 11, 9, 18, 9, 10, 0, 10, 0, 20,
         10, 19, 11, 13, 20, 12, 24, 14, 12, 21, 12, 14, 13, 15, 14, 17, 15,
         17, 16, 23, 16, 21, 16, 18, 17, 19, 18, 23, 19, 24, 20, 22, 21, 25,
         22, 26, 22, 25, 23, 26, 24, 27, 25, 27, 26, 28, 27, 0, 28, 0, 28>>,
     next |-> <<3, 6, 1, 87, 4, 7, 18, 16, 8, 14, 9, 20, 12, 25, 5, 11, 10,
         28, 15, 31, 17, 23, 53, 26, 21, 30, 22, 43, 13, 34, 29, 42, 32, 63,
         2, 37, 36, 40, 35, 70, 19, 65, 39, 52, 69, 50, 45, 54, 48, 72, 27,
         47, 51, 56, 24, 57, 62, 64, 58, 78, 60, 49, 55, 66, 33, 68, 41, 59,
         44, 80, 61, 76, 71, 82, 74, 79, 67, 73, 46, 84, 77, 83, 75, 86, 81,
         90, 85, 89, 88, 38>>,
     prev |-> <<3, 35, 1, 5, 15, 2, 6, 9, 11, 17, 16, 13, 29, 10, 19, 8, 21,
         7, 41, 12, 25, 27, 22, 55, 14, 24, 51, 18, 31, 26, 20, 33, 65, 30,
         39, 37, 36, 90, 43, 38, 67, 32, 28, 69, 47, 79, 52, 49, 62, 46, 53,
         44, 23, 48, 63, 54, 56, 59, 68, 61, 71, 57, 34, 58, 42, 64, 77, 66,
         45, 40, 73, 50, 78, 75, 83, 72, 81, 60, 76, 70, 85, 74, 82, 80, 87,
         84, 4, 89, 88, 86>>,
     cellEdge |-> <<3, 43, 87, 16, 25, 31, 53, 63, 65, 37, 90, 69, 79, 62,
         68, 78, 83, 89>>,
     vertexEdge |-> <<6, 14, 16, 18, 20, 26, 28, 30, 34, 40, 42, 50, 52, 54,
         56, 62, 64, 66, 68, 70, 72, 76, 78, 80, 82, 84, 86, 90>>,
     primary |-> {5, 6, 7, 8, 13, 14, 15, 16, 17, 18, 19, 20, 25, 26, 27, 28,
         29, 30, 39, 40, 41, 42, 43, 44, 49, 50, 51, 52, 53, 54, 55, 56, 61,
         62, 63, 64, 65, 66, 67, 68, 69, 70, 71, 72, 77, 78, 79, 80, 81, 82,
         83, 84, 85, 86},
     curved |-> {7, 8, 15, 16, 27, 28, 41, 42, 43, 44, 53, 54, 63, 64, 67,
         68, 69, 70, 81, 82, 83, 84},
     points |-> {1, 4, 7, 9, 10, 12, 15, 17, 18},
     first |-> {1, 3},
     feet |-> {5, 7, 8, 10, 11, 12, 13, 14, 15, 16, 17, 18, 19, 20, 22, 24,
         25, 26, 27, 28, 29, 30, 34, 39, 40, 41, 42, 44, 46, 47, 48, 49, 50,
         51, 52, 53, 54, 55, 56, 59, 60, 61, 62, 63, 64, 65, 66, 67, 68, 69,
         70, 71, 72, 75, 76, 77, 78, 79, 80, 81, 82, 83, 84, 85, 86, 90},
     inside |-> {5, 6, 7, 8, 9, 10, 11, 12, 15, 16, 17, 18, 19, 20, 21, 22,
         23, 24, 27, 28, 31, 32, 33, 34, 39, 40, 41, 42, 43, 44, 45, 46, 47,
         48, 51, 52, 53, 54, 55, 56, 57, 58, 59, 60, 63, 64, 65, 66, 67, 68,
         69, 70, 73, 74, 75, 76, 77, 78, 79, 80, 81, 82, 83, 84, 85, 86}]

(* (0 0, 2 0, 4 0, 4 4, 0 4) *)
Flat ==
    [cell |-> <<1, 2, 2, 3, 1, 4, 4, 2, 3, 5, 2, 5, 4, 6, 6, 7, 7, 8, 8, 9,
         9, 7, 9, 5, 9, 10, 10, 5>>,
     vertex0 |-> <<1, 0, 2, 0, 0, 1, 4, 1, 2, 0, 4, 2, 0, 4, 0, 4, 0, 3, 0,
         3, 4, 3, 5, 4, 0, 5, 0, 5>>,
     next |-> <<5, 8, 2, 9, 1, 13, 6, 11, 4, 12, 3, 24, 7, 15, 14, 17, 22,
         19, 18, 25, 20, 16, 21, 28, 23, 27, 26, 10>>,
     prev |-> <<5, 3, 11, 9, 1, 7, 13, 2, 4, 28, 8, 10, 6, 15, 14, 22, 16,
         19, 18, 21, 23, 17, 25, 12, 20, 27, 26, 24>>,
     cellEdge |-> <<5, 11, 9, 13, 28, 15, 22, 19, 25, 27>>,
     vertexEdge |-> <<8, 12, 22, 24, 28>>,
     primary |-> {7, 8, 11, 12, 21, 22, 23, 24},
     curved |-> {},
     points |-> {1, 3, 6, 8, 10},
     first |-> {1, 4, 6},
     feet |-> {7, 8, 11, 12, 14, 21, 23, 24, 28},
     inside |-> {7, 8, 11, 12, 21, 22, 23, 24}]

(* (0 0, 9 0, 2 7) with the hole (4 2, 4 1, 5 3, 1 2) *)
Dart ==
    [cell |-> <<1, 2, 1, 3, 3, 2, 2, 4, 4, 5, 4, 6, 6, 5, 5, 2, 2, 6, 2, 7,
         7, 8, 2, 8, 3, 6, 3, 9, 9, 10, 10, 6, 10, 11, 9, 12, 12, 10, 11, 6,
         5, 8, 11, 5, 12, 11, 12, 5, 12, 13, 13, 5, 3, 12, 13, 8, 12, 8, 3,
         8, 3, 14, 14, 8>>,
     vertex0 |-> <<1, 0, 0, 1, 6, 1, 4, 3, 2, 3, 4, 2, 11, 2, 10, 3, 6, 4, 5,
         0, 5, 0, 10, 5, 7, 6, 15, 7, 8, 7, 9, 7, 12, 9, 15, 8, 12, 8, 11, 9,
         16, 10, 13, 11, 13, 12, 14, 13, 17, 14, 16, 14, 18, 15, 17, 16, 18,
         17, 19, 18, 0, 19, 0, 19>>,
     next |-> <<3, 6, 1, 61, 4, 17, 16, 11, 8, 14, 9, 18, 12, 44, 10, 23, 7,
         26, 2, 21, 20, 24, 19, 42, 5, 32, 25, 35, 28, 38, 30, 40, 31, 46,
         29, 54, 36, 33, 34, 13, 15, 56, 39, 48, 37, 43, 45, 52, 47, 55, 50,
         41, 27, 57, 51, 58, 49, 60, 53, 64, 59, 63, 62, 22>>,
     prev |-> <<3, 19, 1, 5, 25, 2, 17, 9, 11, 15, 8, 13, 40, 10, 41, 7, 6,
         12, 23, 21, 20, 64, 16, 22, 27, 18, 53, 29, 35, 31, 33, 26, 38, 39,
         28, 37, 45, 30, 43, 32, 52, 24, 46, 14, 47, 34, 49, 44, 57, 51, 55,
         48, 59, 36, 50, 42, 54, 56, 61, 58, 4, 63, 62, 60>>,
     cellEdge |-> <<3, 23, 61, 11, 52, 40, 21, 64, 35, 38, 46, 57, 55, 63>>,
     vertexEdge |-> <<6, 14, 16, 18, 24, 26, 32, 38, 40, 42, 44, 46, 48, 52,
         54, 56, 58, 60, 64>>,
     primary |-> {5, 6, 7, 8, 13, 14, 15, 16, 17, 18, 23, 24, 25, 26, 27, 28,
         31, 32, 37, 38, 41, 42, 43, 44, 45, 46, 47, 48, 53, 54, 55, 56, 57,
         58, 59, 60},
     curved |-> {7, 8, 27, 28, 43, 44, 45, 46, 55, 56},
     points |-> {1, 4, 7, 9, 11, 13, 14},
     first |-> {3},
     feet |-> {5, 7, 8, 10, 11, 12, 13, 14, 15, 17, 18, 23, 24, 26, 27, 28,
         29, 30, 31, 32, 35, 36, 37, 38, 39, 40, 41, 42, 43, 44, 45, 46, 47,
         48, 49, 52, 53, 54, 55, 56, 57, 58, 59, 60, 64},
     inside |-> {5, 6, 7, 8, 9, 10, 11, 12, 15, 16, 17, 18, 23, 24, 25, 26,
         27, 28, 29, 30, 31, 32, 35, 36, 41, 42, 49, 50, 51, 52, 53, 54, 55,
         56, 57, 58, 59, 60}]
=============================================================================
