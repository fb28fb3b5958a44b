------------------------------ MODULE Bookstore ------------------------------
(***************************************************************************)
(* The example services of the repository, from both of their ends: the    *)
(* messages and the operations bookstore.proto declares, and the decoders  *)
(* that are checked in as bookstore.pb.apigw.go.  Fields are those of the  *)
(* generated structs, with the options of the proto file.                  *)
(***************************************************************************)
EXTENDS Converters, TLC

String(number, name) == Singular(number, name, "string")
Repeated(f) == [f EXCEPT !.label = "repeated"]
Named(f, json) == [f EXCEPT !.json = json]
With(f, option) == [f EXCEPT !.options = <<option>>]

Stable == [FieldOption EXCEPT !.stability = "stable"]
Alpha == [FieldOption EXCEPT !.stability = "alpha"]
ReadOnly(stability) == [FieldOption EXCEPT !.readOnly = TRUE, !.stability = stability]
Sunsetting == [FieldOption EXCEPT !.sunset = "valid"]

-----------------------------------------------------------------------------
(* The resources of v1.                                                    *)
Shelf == <<With(String(1, "id"), Stable), With(String(2, "theme"), Stable),
           Named(String(3, "search_decoded"), "search[decoded]"),
           Named(String(4, "search_encoded"), "search%5Bencoded%5D")>>

Genre == <<With(Singular(1, "id", "int64"), Alpha), With(String(2, "name"), Alpha)>>

Book == <<With(String(1, "id"), [Stable EXCEPT !.required = TRUE]),
          With(String(2, "author"), Stable), With(String(3, "title"), Stable),
          With(Repeated(String(4, "quotes")), [FieldOption EXCEPT !.stability = "beta"]),
          With(Named(String(5, "shelf_id"), "shelfId"), Sunsetting),
          With([String(6, "annotations") EXCEPT !.label = "map", !.key = "string"],
               [FieldOption EXCEPT !.bag = TRUE])>>

Author == <<Singular(1, "id", "int64"), Singular(2, "gender", "enum"),
            Repeated(Singular(8, "genders", "enum")),
            Named(String(3, "first_name"), "firstName"), Named(String(4, "last_name"), "lname"),
            With(String(5, "metadata"), ReadOnly("beta")),
            With(Named(Embed(6, "created_at", "Timestamp"), "createdAt"), ReadOnly("stable")),
            With(Repeated(Embed(7, "books", "Any")), Sunsetting)>>

RecursiveBookResponse == <<Embed(1, "page", "RecursivePage"),
                           Named(String(2, "another_prop"), "anotherProp")>>

RecursivePage == <<Embed(1, "books", "RecursiveBookResponse"),
                   Repeated(Embed(2, "pages", "RecursiveBookResponse")),
                   Named(Repeated(Embed(3, "extra_pages", "RecursivePage")), "extraPages"),
                   String(4, "prop")>>

(* Requests and responses of v1.                                           *)
ListShelvesResponse == <<Repeated(Embed(1, "shelves", "Shelf")), Embed(2, "mask", "FieldMask")>>
CreateShelfRequest == <<Embed(1, "shelf", "Shelf")>>
CreateShelfResponse == <<Embed(1, "shelf", "Shelf")>>
DeleteShelfRequest == <<String(1, "shelf")>>
ListGenresResponse == <<Repeated(Embed(1, "genres", "Genre"))>>
CreateGenreRequest == <<String(1, "name")>>
CreateGenreResponse == <<Embed(1, "genre", "Genre")>>
GetGenreRequest == <<Named(String(1, "genre_id"), "genreId")>>
GetGenreResponse == <<Embed(1, "genre", "Genre")>>
DeleteGenreRequest == <<Named(String(1, "genre_id"), "genreId")>>
CreateBookRequest == <<String(1, "shelf"), Embed(2, "book", "Book")>>
CreateBookResponse == <<Embed(1, "book", "Book")>>

GetBookRequest == <<String(1, "shelf"), Singular(2, "book", "int64"),
                    Named(Singular(3, "include_author", "bool"), "includeAuthor"),
                    Named(Singular(4, "page_size", "int32"), "pageSize"),
                    Named(String(5, "page_token"), "pageToken")>>

GetBookResponse == <<Embed(1, "book", "Book")>>
ListBooksRequest == <<String(1, "shelf")>>
ListBooksResponse == <<Repeated(Embed(1, "books", "Book"))>>
DeleteBookRequest == <<Embed(1, "book", "Book")>>
UpdateBookRequest == <<String(1, "shelf"), Embed(2, "book", "Book")>>
UpdateBookResponse == <<Embed(1, "book", "Book")>>
GetAuthorRequest == <<Singular(1, "author", "int64")>>

GetAuthorResponse == <<Embed(1, "author", "Author"),
                       [Singular(2, "fiction", "bool") EXCEPT !.oneof = "genre"],
                       [Singular(3, "nonfiction", "bool") EXCEPT !.oneof = "genre"]>>

RecursiveBookRequest == <<Named(String(1, "book_id"), "bookId")>>

(* Requests and responses of v2.                                           *)
ListShelvesResponseV2 == <<Named(Repeated(String(1, "shelf_ids")), "shelfIds")>>
CreateShelfRequestV2 == <<String(1, "theme")>>
CreateShelfResponseV2 == <<Named(String(1, "shelf_id"), "shelfId")>>

GetShelfRequestV2 == <<String(1, "shelf"),
                       Named(Singular(2, "include_deleted", "bool"), "includeDeleted")>>

GetShelfResponseV2 == <<Named(String(1, "shelf_id"), "shelfId"), String(2, "theme")>>

(* Every message by its name; those of google.protobuf without fields.     *)
BookstoreMessages ==
  [Shelf |-> Shelf, Genre |-> Genre, Book |-> Book, Author |-> Author,
   RecursiveBookResponse |-> RecursiveBookResponse,
   RecursivePage |-> RecursivePage,
   ListShelvesResponse |-> ListShelvesResponse,
   CreateShelfRequest |-> CreateShelfRequest,
   CreateShelfResponse |-> CreateShelfResponse,
   DeleteShelfRequest |-> DeleteShelfRequest,
   ListGenresResponse |-> ListGenresResponse,
   CreateGenreRequest |-> CreateGenreRequest,
   CreateGenreResponse |-> CreateGenreResponse,
   GetGenreRequest |-> GetGenreRequest,
   GetGenreResponse |-> GetGenreResponse,
   DeleteGenreRequest |-> DeleteGenreRequest,
   CreateBookRequest |-> CreateBookRequest,
   CreateBookResponse |-> CreateBookResponse,
   GetBookRequest |-> GetBookRequest, GetBookResponse |-> GetBookResponse,
   ListBooksRequest |-> ListBooksRequest,
   ListBooksResponse |-> ListBooksResponse,
   DeleteBookRequest |-> DeleteBookRequest,
   UpdateBookRequest |-> UpdateBookRequest,
   UpdateBookResponse |-> UpdateBookResponse,
   GetAuthorRequest |-> GetAuthorRequest,
   GetAuthorResponse |-> GetAuthorResponse,
   RecursiveBookRequest |-> RecursiveBookRequest,
   ListShelvesResponseV2 |-> ListShelvesResponseV2,
   CreateShelfRequestV2 |-> CreateShelfRequestV2,
   CreateShelfResponseV2 |-> CreateShelfResponseV2,
   GetShelfRequestV2 |-> GetShelfRequestV2,
   GetShelfResponseV2 |-> GetShelfResponseV2, ListShelvesRequest |-> <<>>,
   DeleteShelfResponse |-> <<>>, ListGenresRequest |-> <<>>,
   DeleteGenreResponse |-> <<>>, DeleteBookResponse |-> <<>>,
   ListShelvesRequestV2 |-> <<>>, Timestamp |-> <<>>, Any |-> <<>>,
   FieldMask |-> <<>>]

-----------------------------------------------------------------------------
(* The operations the proto files declare.                                 *)
Rooted(tokens) == [rooted |-> TRUE, tokens |-> tokens]
Rpc(verb, tokens, in, out) ==
  [verb |-> verb, route |-> Rooted(tokens), in |-> in, out |-> out, query |-> <<>>]

Shelves == <<Static("shelves"), Param("shelf"), Static("books")>>
NestedBook == <<Static("shelves"), Param("book.shelf_id"), Static("books"), Param("book.id")>>

RpcsV1 ==
  [ListShelves |-> Rpc("GET", <<Static("shelves")>>, "ListShelvesRequest", "ListShelvesResponse"),
   CreateShelf |-> Rpc("POST", <<Static("shelf")>>, "CreateShelfRequest", "CreateShelfResponse"),
   DeleteShelf |-> Rpc("DELETE", <<Static("shelves"), Param("shelf")>>,
                       "DeleteShelfRequest", "DeleteShelfResponse"),
   ListGenres |-> Rpc("GET", <<Static("genres")>>, "ListGenresRequest", "ListGenresResponse"),
   CreateGenre |-> Rpc("POST", <<Static("genre")>>, "CreateGenreRequest", "CreateGenreResponse"),
   GetGenre |-> Rpc("GET", <<Static("genre"), Param("genre_id")>>,
                    "GetGenreRequest", "GetGenreResponse"),
   DeleteGenre |-> Rpc("DELETE", <<Static("genre"), Param("genre_id")>>,
                       "DeleteGenreRequest", "DeleteGenreResponse"),
   CreateBook |-> Rpc("POST", Shelves, "CreateBookRequest", "CreateBookResponse"),
   GetBook |-> [Rpc("GET", Shelves \o <<Param("book")>>, "GetBookRequest", "GetBookResponse")
                EXCEPT !.query = [author |-> "include_author", page_size |-> "page_size",
                                  page_token |-> "page_token"]],
   ListBooks |-> Rpc("GET", Shelves, "ListBooksRequest", "ListBooksResponse"),
   DeleteBook |-> Rpc("DELETE", NestedBook, "DeleteBookRequest", "DeleteBookResponse"),
   UpdateBook |-> Rpc("PATCH", NestedBook, "UpdateBookRequest", "UpdateBookResponse"),
   GetAuthor |-> Rpc("GET", <<Static("authors"), Param("author")>>,
                     "GetAuthorRequest", "GetAuthorResponse"),
   RecursiveBook |-> Rpc("GET", <<Static("recursive")>>,
                         "RecursiveBookRequest", "RecursiveBookResponse")]

RpcsV2 ==
  [ListShelvesV2 |-> Rpc("GET", <<Static("v2"), Static("shelves")>>,
                         "ListShelvesRequestV2", "ListShelvesResponseV2"),
   CreateShelfV2 |-> Rpc("POST", <<Static("v2"), Static("shelves")>>,
                         "CreateShelfRequestV2", "CreateShelfResponseV2"),
   GetShelfV2 |-> [Rpc("GET", <<Static("v2"), Static("shelves"), Param("shelf")>>,
                       "GetShelfRequestV2", "GetShelfResponseV2")
                   EXCEPT !.query = [include_deleted |-> "include_deleted"]]]

-----------------------------------------------------------------------------
(* The methods as they are checked in: the entry of the ServiceDesc, the   *)
(* request type of the handler, and what the decoder does, step by step.   *)
PathStep(index, nums, conv) ==
  [source |-> "path", key |-> "", index |-> index, nums |-> nums, conv |-> conv]
QueryStep(key, nums, conv) ==
  [source |-> "query", key |-> key, index |-> 0, nums |-> nums, conv |-> conv]

Decoder(in, body, steps) == [in |-> in, body |-> body, steps |-> steps]

ListShelvesDecoder == Decoder("ListShelvesRequest", FALSE, <<>>)
CreateShelfDecoder == Decoder("CreateShelfRequest", TRUE, <<>>)
DeleteShelfDecoder == Decoder("DeleteShelfRequest", TRUE, <<PathStep(0, <<1>>, "string")>>)
ListGenresDecoder == Decoder("ListGenresRequest", FALSE, <<>>)
CreateGenreDecoder == Decoder("CreateGenreRequest", TRUE, <<>>)
GetGenreDecoder == Decoder("GetGenreRequest", FALSE, <<PathStep(0, <<1>>, "string")>>)
DeleteGenreDecoder == Decoder("DeleteGenreRequest", TRUE, <<PathStep(0, <<1>>, "string")>>)
CreateBookDecoder == Decoder("CreateBookRequest", TRUE, <<PathStep(0, <<1>>, "string")>>)
GetBookDecoder ==
  Decoder("GetBookRequest", FALSE,
          <<QueryStep("author", <<3>>, "bool"), QueryStep("page_size", <<4>>, "int"),
            QueryStep("page_token", <<5>>, "string"),
            PathStep(0, <<1>>, "string"), PathStep(1, <<2>>, "int")>>)
ListBooksDecoder == Decoder("ListBooksRequest", FALSE, <<PathStep(0, <<1>>, "string")>>)
DeleteBookDecoder ==
  Decoder("DeleteBookRequest", TRUE,
          <<PathStep(0, <<5, 1>>, "string"), PathStep(1, <<1, 1>>, "string")>>)
UpdateBookDecoder ==
  Decoder("UpdateBookRequest", TRUE,
          <<PathStep(0, <<5, 2>>, "string"), PathStep(1, <<1, 2>>, "string")>>)
GetAuthorDecoder == Decoder("GetAuthorRequest", FALSE, <<PathStep(0, <<1>>, "int")>>)
RecursiveBookDecoder == Decoder("RecursiveBookRequest", FALSE, <<>>)
ListShelvesV2Decoder == Decoder("ListShelvesRequestV2", FALSE, <<>>)
CreateShelfV2Decoder == Decoder("CreateShelfRequestV2", TRUE, <<>>)
GetShelfV2Decoder ==
  Decoder("GetShelfRequestV2", FALSE,
          <<QueryStep("include_deleted", <<2>>, "bool"), PathStep(0, <<1>>, "string")>>)

(* The routes of the two ServiceDescs, in their order.                     *)
Desc(verb, tokens, decoder) == [verb |-> verb, tokens |-> tokens, decoder |-> decoder]

apigw_desc_V1 ==
  [ListShelves |-> Desc("GET", <<Static("shelves")>>, ListShelvesDecoder),
   CreateShelf |-> Desc("POST", <<Static("shelf")>>, CreateShelfDecoder),
   DeleteShelf |-> Desc("DELETE", <<Static("shelves"), Param("shelf")>>, DeleteShelfDecoder),
   ListGenres |-> Desc("GET", <<Static("genres")>>, ListGenresDecoder),
   CreateGenre |-> Desc("POST", <<Static("genre")>>, CreateGenreDecoder),
   GetGenre |-> Desc("GET", <<Static("genre"), Param("genre_id")>>, GetGenreDecoder),
   DeleteGenre |-> Desc("DELETE", <<Static("genre"), Param("genre_id")>>, DeleteGenreDecoder),
   CreateBook |-> Desc("POST", <<Static("shelves"), Param("shelf"), Static("books")>>,
                   CreateBookDecoder),
   GetBook |-> Desc("GET", <<Static("shelves"), Param("shelf"), Static("books"), Param("book")>>,
                   GetBookDecoder),
   ListBooks |-> Desc("GET", <<Static("shelves"), Param("shelf"), Static("books")>>,
                   ListBooksDecoder),
   DeleteBook |-> Desc("DELETE", <<Static("shelves"), Param("book.shelf_id"),
                           Static("books"), Param("book.id")>>,
                   DeleteBookDecoder),
   UpdateBook |-> Desc("PATCH", <<Static("shelves"), Param("book.shelf_id"),
                           Static("books"), Param("book.id")>>,
                   UpdateBookDecoder),
   GetAuthor |-> Desc("GET", <<Static("authors"), Param("author")>>, GetAuthorDecoder),
   RecursiveBook |-> Desc("GET", <<Static("recursive")>>, RecursiveBookDecoder)]

apigw_desc_V2 ==
  [ListShelvesV2 |-> Desc("GET", <<Static("v2"), Static("shelves")>>, ListShelvesV2Decoder),
   CreateShelfV2 |-> Desc("POST", <<Static("v2"), Static("shelves")>>, CreateShelfV2Decoder),
   GetShelfV2 |-> Desc("GET", <<Static("v2"), Static("shelves"), Param("shelf")>>,
                   GetShelfV2Decoder)]
=============================================================================
